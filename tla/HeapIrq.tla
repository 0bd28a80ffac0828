------------------------------- MODULE HeapIrq -------------------------------
(***************************************************************************)
(* kmalloc in thread context interleaved with the kfree of the timer tick.*)
(*                                                                         *)
(* process_spawn and process_fork call kmalloc(get_kernel_heap(), ...)    *)
(* with interrupts enabled, and kheap.c takes no lock.  scheduler_tick,   *)
(* the handler of vector 32, reaps a process whose last thread died with  *)
(* kfree(heap, dead_proc) (process.c line 465) on the same heap.  That    *)
(* kfree does not run in the tick that interrupts kmalloc (the thread in  *)
(* kmalloc is not TERMINATED): the tick preempts the thread, another      *)
(* thread runs, calls process_exit on its own process, whose int $0x20    *)
(* reaps it with the kfree, and the first thread later resumes where it   *)
(* was.  TickReap is that whole detour, seen from the heap: one kfree of  *)
(* a block allocated earlier, between two steps of the preempted kmalloc. *)
(* The preemption can come at any instruction; the model lets it come     *)
(* between the steps of kmalloc that touch the free lists: the search,    *)
(* each list_pop and each list_push.                                      *)
(*                                                                         *)
(* The heap, the helpers and kfree are those of BuddyHeap.  C's address 0 *)
(* is Zero, an address outside the heap: list_pop of an empty list        *)
(* returns it, and kmalloc then goes on with it as the block.            *)
(***************************************************************************)
EXTENDS Naturals, Sequences, TLC

CONSTANTS MIN_ORDER, MAX_ORDER, W, Requests

VARIABLES free_lists, magic, hsize, req, returned,
  pc,       \* where the thread is in kmalloc: "idle", "pop", "push1",
            \* "push2" or "take"
  order,    \* kmalloc's `order`
  cur,      \* kmalloc's `current_order`
  block,    \* the block the last list_pop of the split loop returned
  n,        \* the size the thread asked for
  ret       \* what the thread's last kmalloc returned

H == INSTANCE BuddyHeap

vars == <<free_lists, magic, hsize, req, returned, pc, order, cur, block, n,
          ret>>
heap == <<free_lists, magic, hsize, req, returned>>

Zero == 2^(MAX_ORDER + 1)       \* (void*)0, outside the heap and H!NULL

\* the head of list o as list_pop returns it (NULL when the list is empty)
Popped(o) == IF free_lists[o] = <<>> THEN Zero ELSE Head(free_lists[o])
\* list_pop on list o: nothing changes when the list is empty
PopList(o) ==
  free_lists' = IF free_lists[o] = <<>> THEN free_lists
                ELSE [free_lists EXCEPT ![o] = Tail(@)]
\* list_push of block b on list o; a header is written only inside the heap
PushList(o, b) ==
  /\ free_lists' = [free_lists EXCEPT ![o] = <<b>> \o @]
  /\ magic' = IF b \in H!Addr THEN [magic EXCEPT ![b] = FALSE] ELSE magic

(***************************************************************************)
(* The thread's kmalloc(heap, m), one step per access to the free lists  *)
(***************************************************************************)
\* the size check, the order loop and the first_free loop, which return
\* NULL on failure; otherwise the split loop or the final pop comes next
KmallocStart ==
  /\ pc = "idle"
  /\ \E m \in Requests :
       LET o == H!req_order(MIN_ORDER, H!total_size(m))
           co == H!first_free(free_lists, o)
       IN IF m = 0 \/ o > MAX_ORDER \/ co > MAX_ORDER
          THEN /\ ret' = H!NULL
               /\ UNCHANGED <<heap, pc, order, cur, block, n>>
          ELSE /\ pc' = IF co > o THEN "pop" ELSE "take"
               /\ order' = o /\ cur' = co /\ n' = m
               /\ UNCHANGED <<heap, block, ret>>

\* `block = list_pop(&free_lists[current_order]); current_order--;`
SplitPop ==
  /\ pc = "pop"
  /\ block' = Popped(cur)
  /\ PopList(cur)
  /\ cur' = cur - 1
  /\ pc' = "push1"
  /\ UNCHANGED <<magic, hsize, req, returned, order, n, ret>>

\* list_push of first_half = block
PushFirst ==
  /\ pc = "push1"
  /\ PushList(cur, block)
  /\ pc' = "push2"
  /\ UNCHANGED <<hsize, req, returned, order, cur, block, n, ret>>

\* list_push of second_half = block + half_size; the loop goes on while
\* current_order > order
PushSecond ==
  /\ pc = "push2"
  /\ PushList(cur, block + H!order_to_size(cur))
  /\ pc' = IF cur > order THEN "pop" ELSE "take"
  /\ UNCHANGED <<hsize, req, returned, order, cur, block, n, ret>>

\* the final list_pop, the header writes and the return of block + 8
Take ==
  /\ pc = "take"
  /\ LET b == Popped(order) IN
       /\ PopList(order)
       /\ ret' = b
       /\ IF b \in H!Addr
          THEN /\ magic' = [magic EXCEPT ![b] = TRUE]
               /\ hsize' = [hsize EXCEPT ![b] = H!order_to_size(order)]
               /\ req' = req @@ (b :> n)
               /\ returned' = returned \cup {b}
          ELSE UNCHANGED <<magic, hsize, req, returned>>
  /\ pc' = "idle"
  /\ UNCHANGED <<order, cur, block, n>>

(***************************************************************************)
(* While the kmalloc thread is preempted, another thread exits its own    *)
(* process and the tick reaps it: kfree of a block allocated earlier     *)
(***************************************************************************)
TickReap ==
  \E a \in DOMAIN req :
    LET h == H!kfree(H!Heap, a) IN
      /\ H!SetHeap(h)
      /\ req' = [x \in DOMAIN req \ {a} |-> req[x]]
      /\ UNCHANGED <<returned, pc, order, cur, block, n, ret>>

Init ==
  /\ H!Init
  /\ pc = "idle" /\ order = MIN_ORDER /\ cur = MIN_ORDER
  /\ block = H!NULL /\ n = 0 /\ ret = H!NULL

Next == KmallocStart \/ SplitPop \/ PushFirst \/ PushSecond \/ Take
        \/ TickReap

Spec == Init /\ [][Next]_vars

(***************************************************************************)
(* Properties                                                              *)
(***************************************************************************)
(* kmalloc returns NULL or a block of the heap.  kmalloc checks that      *)
(* free_lists[current_order] is non-empty before its split loop pops it,  *)
(* and the split leaves a block on free_lists[order] before the final    *)
(* pop; a kfree by the tick in between can take that block off the list   *)
(* by merging it with its freed buddy, and list_pop then returns NULL,    *)
(* which kmalloc uses as the block.  Spec line 166: allocation is allowed *)
(* only where no concurrent allocator activity can occur.                 *)
KmallocReturnsHeapBlock == ret \in H!Addr \cup {H!NULL}
==============================================================================
