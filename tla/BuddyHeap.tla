------------------------------ MODULE BuddyHeap ------------------------------
(***************************************************************************)
(* The buddy allocator of src/mm/kheap.c: kmalloc, kfree and krealloc     *)
(* over one heap, called by a client that may free a pointer twice.       *)
(*                                                                         *)
(* Addresses are byte offsets from state->base; the heap is the single    *)
(* block of order MAX_ORDER that buddy_init puts on its free list.  The   *)
(* doubly linked free lists are sequences, head first: list_push,          *)
(* list_pop and list_remove keep next and prev consistent, so only the    *)
(* order of the nodes is observable.  Of the memory itself the model      *)
(* keeps the 8-byte header at each 2^MIN_ORDER-aligned address: `magic`   *)
(* says whether its second word is 0xDEADBEEF (a free_block_hdr puts its  *)
(* prev pointer there, which is 32-aligned or NULL, so never the magic),  *)
(* `hsize` is its first word.  size_t arithmetic is taken modulo 2^W.     *)
(***************************************************************************)
EXTENDS Naturals, Sequences, SequencesExt, FiniteSets, Functions, Bitwise

CONSTANTS
  MIN_ORDER,    \* BUDDY_MIN_ORDER (kheap.c line 6)
  MAX_ORDER,    \* state->max_order computed by kheap_init
  W,            \* width of size_t in bits
  Requests      \* sizes the client passes to kmalloc and krealloc

ASSUME MIN_ORDER \in Nat /\ MAX_ORDER \in Nat /\ MIN_ORDER <= MAX_ORDER
ASSUME W \in Nat /\ MAX_ORDER < W
ASSUME Requests \subseteq 0..(2^W - 1)

HDR == 8                      \* sizeof(alloc_block_hdr)
NULL == 2^MAX_ORDER           \* an address outside the heap
Orders == MIN_ORDER..MAX_ORDER
Addr == {i * 2^MIN_ORDER : i \in 0..(2^(MAX_ORDER - MIN_ORDER) - 1)}
order_to_size(o) == 2^o

VARIABLES
  free_lists,   \* state->free_lists[MIN_ORDER..MAX_ORDER]
  magic,        \* header word 2 = BUDDY_MAGIC, per aligned address
  hsize,        \* header word 1 (alloc_block_hdr.size), per aligned address
  req,          \* the client's live allocations: block address -> size asked
  returned      \* every block address kmalloc ever returned to the client

vars == <<free_lists, magic, hsize, req, returned>>

(***************************************************************************)
(* Helpers of kheap.c                                                      *)
(***************************************************************************)

\* log2_floor
RECURSIVE log2_floor(_)
log2_floor(v) == IF v > 1 THEN 1 + log2_floor(v \div 2) ELSE 0

\* get_buddy_addr relative to base
get_buddy_addr(a, size) == a ^^ size

\* the rounding of kmalloc without the header: blocks one word too small
total_size_no_hdr(n) == LET t == (n + 7) % 2^W IN t - (t % 8)

\* `(size + sizeof(alloc_block_hdr) + 7) & ~7` in size_t
total_size(n) == LET t == (((n + HDR) % 2^W) + 7) % 2^W IN t - (t % 8)

\* the first order whose block holds `total`; MAX_ORDER + 1 means none
RECURSIVE req_order(_, _)
req_order(o, total) ==
  IF order_to_size(o) < total /\ o <= MAX_ORDER THEN req_order(o + 1, total)
  ELSE o

\* the first non-empty free list at or above order o
RECURSIVE first_free(_, _)
first_free(fl, o) ==
  IF o <= MAX_ORDER /\ fl[o] = <<>> THEN first_free(fl, o + 1) ELSE o

\* list_push of a block, whose first 8 bytes become a free_block_hdr
list_push(h, o, b) ==
  [h EXCEPT !.fl[o] = <<b>> \o @, !.magic[b] = FALSE]

\* list_pop: the head block leaves free list o
list_pop(h, o) == [h EXCEPT !.fl[o] = Tail(@)]

\* list_remove: block b leaves free list o, wherever it is
list_remove(fl, o, b) == [fl EXCEPT ![o] = Remove(@, b)]

\* the split loop of kmalloc: pop at co, push the first then the second
\* half at co - 1 (so the second half ends up at the head)
RECURSIVE split(_, _, _)
split(h, co, o) ==
  IF co <= o THEN h
  ELSE LET b == Head(h.fl[co])
           h1 == list_pop(h, co)
       IN split(list_push(list_push(h1, co - 1, b), co - 1,
                          b + order_to_size(co - 1)), co - 1, o)

(***************************************************************************)
(* kmalloc(heap, n) on the heap h = [fl, magic, hsize]: the heap after    *)
(* the call and, in `ret`, the block returned or NULL.                     *)
(***************************************************************************)
\* kmalloc writing the rounded request into the header, not the block size
kmalloc_records_request(h, n) ==
  LET o == req_order(MIN_ORDER, total_size(n))
      co == first_free(h.fl, o)
      h1 == split(h, co, o)
      b == Head(h1.fl[o])
  IN IF n = 0 \/ o > MAX_ORDER \/ co > MAX_ORDER THEN [h EXCEPT !.ret = NULL]
     ELSE [h1 EXCEPT !.fl[o] = Tail(@), !.magic[b] = TRUE,
                     !.hsize[b] = total_size(n), !.ret = b]

kmalloc(h, n) ==
  LET o == req_order(MIN_ORDER, total_size(n))
      co == first_free(h.fl, o)
      h1 == split(h, co, o)
      b == Head(h1.fl[o])
  IN IF n = 0 \/ o > MAX_ORDER \/ co > MAX_ORDER THEN [h EXCEPT !.ret = NULL]
     ELSE [list_pop(h1, o) EXCEPT !.magic[b] = TRUE,
                                  !.hsize[b] = order_to_size(o), !.ret = b]

(***************************************************************************)
(* kfree(heap, a): the magic check, the merge loop, then the push of the  *)
(* merged block.  The merged block's header lies at an address whose      *)
(* magic word is already not BUDDY_MAGIC.                                  *)
(***************************************************************************)
\* the merge loop keeping the freed block's address instead of the lower one
RECURSIVE coalesce_keeps_block(_, _, _)
coalesce_keeps_block(fl, a, o) ==
  LET bd == get_buddy_addr(a, order_to_size(o))
  IN IF o < MAX_ORDER /\ bd \in ToSet(fl[o])
     THEN coalesce_keeps_block([fl EXCEPT ![o] = Remove(@, bd)], a, o + 1)
     ELSE [fl EXCEPT ![o] = <<a>> \o @]

\* the merge loop stopping one order short of the whole heap
RECURSIVE coalesce_stops_early(_, _, _)
coalesce_stops_early(fl, a, o) ==
  LET bd == get_buddy_addr(a, order_to_size(o))
  IN IF o < MAX_ORDER - 1 /\ bd \in ToSet(fl[o])
     THEN coalesce_stops_early([fl EXCEPT ![o] = Remove(@, bd)],
                               IF bd < a THEN bd ELSE a, o + 1)
     ELSE [fl EXCEPT ![o] = <<a>> \o @]

RECURSIVE coalesce(_, _, _)
coalesce(fl, a, o) ==
  LET bd == get_buddy_addr(a, order_to_size(o))
  IN IF o < MAX_ORDER /\ bd \in ToSet(fl[o])
     THEN coalesce(list_remove(fl, o, bd),
                   IF bd < a THEN bd ELSE a, o + 1)
     ELSE [fl EXCEPT ![o] = <<a>> \o @]

\* kfree without `hdr->magic = 0`
kfree_keeps_magic(h, a) ==
  IF ~h.magic[a] THEN h
  ELSE [h EXCEPT !.fl = coalesce(@, a, log2_floor(h.hsize[a]))]

kfree(h, a) ==
  IF ~h.magic[a] THEN h
  ELSE [h EXCEPT !.fl = coalesce(@, a, log2_floor(h.hsize[a])),
                 !.magic[a] = FALSE]

(***************************************************************************)
(* The specification                                                       *)
(***************************************************************************)

\* kheap_init / buddy_init: one free block of order MAX_ORDER at base; the
\* headers kfree reads are always ones kmalloc wrote before
Init ==
  /\ free_lists = [o \in Orders |-> IF o = MAX_ORDER THEN <<0>> ELSE <<>>]
  /\ magic = [a \in Addr |-> FALSE]
  /\ hsize = [a \in Addr |-> 0]
  /\ req = <<>>
  /\ returned = {}

\* the heap as kheap.c sees it
Heap == [fl |-> free_lists, magic |-> magic, hsize |-> hsize, ret |-> NULL]

SetHeap(h) == free_lists' = h.fl /\ magic' = h.magic /\ hsize' = h.hsize

\* the client calls malloc(n) and keeps the pointer it gets
Malloc ==
  \E n \in Requests :
    LET h == kmalloc(Heap, n)
    IN /\ SetHeap(h)
       /\ IF h.ret = NULL THEN UNCHANGED <<req, returned>>
          ELSE /\ req' = req @@ (h.ret :> n)
               /\ returned' = returned \cup {h.ret}

\* the client frees one of its blocks
Free ==
  \E a \in DOMAIN req :
    /\ SetHeap(kfree(Heap, a))
    /\ req' = [x \in DOMAIN req \ {a} |-> req[x]]
    /\ UNCHANGED returned

\* a double free, or a free through a pointer whose block was freed
BadFree ==
  \E a \in returned \ DOMAIN req :
    /\ SetHeap(kfree(Heap, a))
    /\ UNCHANGED <<req, returned>>

\* krealloc(p, m) of a live block (krealloc(NULL, m) is malloc(m), and
\* krealloc of a freed pointer fails its magic check and changes nothing)
Realloc ==
  \E a \in DOMAIN req, m \in Requests \cup {0} :
    LET rest == [x \in DOMAIN req \ {a} |-> req[x]]
        h == kmalloc(Heap, m)
    IN \/ /\ m = 0
          /\ SetHeap(kfree(Heap, a))
          /\ req' = rest
          /\ UNCHANGED returned
       \/ /\ m # 0 /\ (m + HDR) % 2^W <= hsize[a]
          /\ req' = [req EXCEPT ![a] = m]
          /\ UNCHANGED <<free_lists, magic, hsize, returned>>
       \/ /\ m # 0 /\ (m + HDR) % 2^W > hsize[a]
          /\ h.ret = NULL
          /\ UNCHANGED vars
       \/ /\ m # 0 /\ (m + HDR) % 2^W > hsize[a]
          /\ h.ret # NULL
          /\ SetHeap(kfree(h, a))
          /\ req' = rest @@ (h.ret :> m)
          /\ returned' = returned \cup {h.ret}

Next == Malloc \/ Free \/ BadFree \/ Realloc

Spec == Init /\ [][Next]_vars

(***************************************************************************)
(* Properties                                                              *)
(***************************************************************************)
TypeOK ==
  /\ free_lists \in [Orders -> Seq(Addr)]
  /\ magic \in [Addr -> BOOLEAN]
  /\ hsize \in [Addr -> {0} \cup {order_to_size(o) : o \in Orders}]
  /\ DOMAIN req \subseteq Addr /\ \A a \in DOMAIN req : req[a] \in Requests
  /\ returned \subseteq Addr

\* blocks as <<kind, address, order>>: the free lists, and the live
\* allocations with the order their header gives kfree
FreeBlocks ==
  UNION {{<<"free", a, o>> : a \in ToSet(free_lists[o])} : o \in Orders}
LiveBlocks == {<<"live", a, log2_floor(hsize[a])>> : a \in DOMAIN req}
Covers(b, u) == b[2] <= u /\ u < b[2] + order_to_size(b[3])

(* The free blocks and the live blocks tile the heap: every free block is *)
(* on one list once, every block is aligned to its size relative to base, *)
(* and every byte lies in exactly one block, so no two allocations or     *)
(* free blocks overlap and no memory leaks.  It is about the split loop   *)
(* of kmalloc and the merge loop of kfree, which compute addresses from   *)
(* each other by XOR, and about double frees reaching the merge loop.     *)
HeapTiled ==
  /\ \A o \in Orders : IsInjective(free_lists[o])
  /\ \A b \in FreeBlocks \cup LiveBlocks : b[2] % order_to_size(b[3]) = 0
  /\ \A u \in Addr :
       Cardinality({b \in FreeBlocks \cup LiveBlocks : Covers(b, u)}) = 1

(* Coalescing is maximal: no free block below MAX_ORDER has its buddy on  *)
(* the same free list, whatever order of kmalloc, kfree and krealloc led  *)
(* here (spec: "no free block's buddy is also free").                     *)
MaximalCoalescing ==
  \A o \in MIN_ORDER..(MAX_ORDER - 1) :
    \A a \in ToSet(free_lists[o]) :
      get_buddy_addr(a, order_to_size(o)) \notin ToSet(free_lists[o])

(* A header carries BUDDY_MAGIC exactly when it starts a live allocation. *)
(* kfree trusts the magic word alone to reject a double free, so a stale  *)
(* magic left behind by kfree, krealloc or a split would let a second     *)
(* kfree of the same pointer push a block that is already free or reused.*)
MagicMeansLive == \A a \in Addr : magic[a] <=> a \in DOMAIN req

(* Every live block is at least as large as the request plus its header  *)
(* (spec: "header(p).size >= requested rounded size").  kmalloc computes  *)
(* size + 8 and the rounding to 8 in size_t, and krealloc compares        *)
(* new_size + 8 with the block size.                                      *)
SizeCoversRequest == \A a \in DOMAIN req : hsize[a] >= req[a] + HDR
==============================================================================
