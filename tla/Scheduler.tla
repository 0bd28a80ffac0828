------------------------------ MODULE Scheduler ------------------------------
(***************************************************************************)
(* Processes, threads and the round-robin scheduler of                     *)
(* src/process/process.c.                                                  *)
(*                                                                         *)
(* The kernel objects live in heap memory: a thread_t (with its kernel     *)
(* stack) occupies one of the slots Threads, a process_t one of the slots  *)
(* Procs.  kmalloc may hand back any free slot, so a freed object's slot   *)
(* can be reused by the next allocation, exactly like the buddy heap       *)
(* reuses a freed block.  Pointers are slot names or Nil.                  *)
(*                                                                         *)
(* The single link field thread_t.next is modelled as one function `next` *)
(* because the code uses it both for a process's thread_list and for the  *)
(* ready queue.  The process list is linked through process_t.next, here  *)
(* `pnext`.  Loops the C code would never leave (a walk over a cyclic     *)
(* list) put the CPU in state "hang"; the hlt loop of scheduler_tick puts *)
(* it in state "halt".                                                     *)
(*                                                                         *)
(* The timer is the only source of preemption (scheduler_tick, a step of  *)
(* its own).  System calls run with interrupts enabled (isr128 is a trap  *)
(* gate), and process.c masks them only in scheduler_post.  process_exit *)
(* of another process is therefore split where a tick does harm: between *)
(* the walk of remove_from_ready_queue and the stores that use what it    *)
(* found (ExitOther, ExitDestroy, ExitLink).  ExitMasksIrq = TRUE runs    *)
(* those steps with the tick held off, the discipline spec.md line 166    *)
(* asks of callers; FALSE is the code as written.  Every other operation, *)
(* the interrupt handler included, is one atomic step.  A failed          *)
(* allocation that changes nothing (the first kmalloc of process_spawn or *)
(* process_fork) is a stuttering step and is not written out.             *)
(***************************************************************************)
EXTENDS Naturals, Integers, Sequences, SequencesExt, FiniteSets

CONSTANTS
  Threads,            \* heap slots for a thread_t and its kernel stack
  Procs,              \* heap slots for a process_t
  Nil,                \* the NULL pointer
  KernelDir,          \* vmm_get_kerneldir()
  UserDir,            \* a page directory owned by the process itself
  DEFAULT_TIMESLICE,  \* ticks per timeslice (process.c line 19)
  ExitMasksIrq        \* TRUE: process_exit of another process runs with
                      \* interrupts off, as spec.md line 166 asks of callers;
                      \* FALSE: with interrupts on, as process.c runs it

ASSUME DEFAULT_TIMESLICE \in Nat \ {0}
ASSUME Nil \notin Threads \cup Procs
ASSUME ExitMasksIrq \in BOOLEAN

\* thread states (THREAD_BLOCKED exists but no code path sets it)
READY == "READY"
RUNNING == "RUNNING"
BLOCKED == "BLOCKED"
TERMINATED == "TERMINATED"
ThreadStates == {READY, RUNNING, BLOCKED, TERMINATED}

VARIABLES
  live_threads,       \* thread slots currently allocated by kmalloc
  live_procs,         \* process slots currently allocated by kmalloc
  state,              \* thread_t.state
  next,               \* thread_t.next (thread list AND ready queue link)
  proc,               \* thread_t.proc
  timeslice,          \* thread_t.timeslice
  thread_list,        \* process_t.thread_list
  main_thread,        \* process_t.main_thread
  page_dir,           \* process_t.page_dir
  pnext,              \* process_t.next (process list link)
  process_list,       \* head of the global process list
  ready_queue_head,
  ready_queue_tail,
  current_thread,
  current_proc,
  current_directory,  \* vmm.c current_directory (CR3): KernelDir or the owning process
  tss_esp0,           \* the thread whose kstack_top is in tss.esp0
  cpu,                \* "run", "halt" (hlt loop) or "hang" (endless walk)
  exiting             \* the locals of a process_exit of another process
                      \* in progress (at most one at a time), or NoExit

vars == <<live_threads, live_procs, state, next, proc, timeslice, thread_list,
          main_thread, page_dir, pnext, process_list, ready_queue_head,
          ready_queue_tail, current_thread, current_proc, current_directory,
          tss_esp0, cpu, exiting>>

(***************************************************************************)
(* The kernel state as one record, so that the C helpers, which mutate    *)
(* several globals and call each other, compose as functions on it.       *)
(***************************************************************************)
St == [live_threads |-> live_threads, live_procs |-> live_procs,
       state |-> state, next |-> next, proc |-> proc, timeslice |-> timeslice,
       thread_list |-> thread_list, main_thread |-> main_thread,
       page_dir |-> page_dir, pnext |-> pnext, process_list |-> process_list,
       ready_queue_head |-> ready_queue_head,
       ready_queue_tail |-> ready_queue_tail,
       current_thread |-> current_thread, current_proc |-> current_proc,
       current_directory |-> current_directory, tss_esp0 |-> tss_esp0,
       cpu |-> cpu]

Set(k) ==
  \E r \in {k} :
    /\ live_threads' = r.live_threads /\ live_procs' = r.live_procs
    /\ state' = r.state /\ next' = r.next /\ proc' = r.proc
    /\ timeslice' = r.timeslice /\ thread_list' = r.thread_list
    /\ main_thread' = r.main_thread /\ page_dir' = r.page_dir
    /\ pnext' = r.pnext /\ process_list' = r.process_list
    /\ ready_queue_head' = r.ready_queue_head
    /\ ready_queue_tail' = r.ready_queue_tail
    /\ current_thread' = r.current_thread /\ current_proc' = r.current_proc
    /\ current_directory' = r.current_directory /\ tss_esp0' = r.tss_esp0
    /\ cpu' = r.cpu

\* Apply F unless an earlier part of the same operation never returned.
Then(k, F(_)) == IF k.cpu = "run" THEN F(k) ELSE k

Hang(k) == [k EXCEPT !.cpu = "hang"]

(***************************************************************************)
(* Singly linked lists.  Chain(x, lnk) is the sequence of nodes a C loop  *)
(* `for (n = x; n; n = n->next)` visits before it reaches NULL or comes   *)
(* back to a node it has seen; Loops says it came back, i.e. the C loop   *)
(* would run forever.                                                      *)
(***************************************************************************)
RECURSIVE ChainFrom(_, _, _)
ChainFrom(x, lnk, seen) ==
  IF x = Nil \/ x \in seen THEN <<>>
  ELSE <<x>> \o ChainFrom(lnk[x], lnk, seen \cup {x})

Chain(x, lnk) == ChainFrom(x, lnk, {})

Loops(x, lnk) == LET c == Chain(x, lnk) IN c # <<>> /\ lnk[Last(c)] # Nil

\* The pointer-to-pointer unlink loop of remove_thread_from_process and
\* remove_from_process_list: find the link that points at n and bend it
\* to n's successor.
Unlink(head, lnk, n) ==
  IF head = n THEN [head |-> lnk[n], lnk |-> lnk, hang |-> FALSE]
  ELSE LET c == Chain(head, lnk)
           i == SelectInSeq(c, LAMBDA x : lnk[x] = n)
       IN IF i # 0
          THEN [head |-> head, lnk |-> [lnk EXCEPT ![c[i]] = lnk[n]], hang |-> FALSE]
          ELSE [head |-> head, lnk |-> lnk, hang |-> Loops(head, lnk)]

(***************************************************************************)
(* Helpers of process.c                                                    *)
(***************************************************************************)
remove_from_process_list(k, p) ==
  LET u == Unlink(k.process_list, k.pnext, p)
  IN IF u.hang THEN Hang(k)
     ELSE [k EXCEPT !.process_list = u.head, !.pnext = u.lnk]

remove_thread_from_process(k, t) ==
  LET p == k.proc[t]
  IN IF p = Nil THEN k
     ELSE LET u == Unlink(k.thread_list[p], k.next, t)
          IN IF u.hang THEN Hang(k)
             ELSE [k EXCEPT !.thread_list[p] = u.head, !.next = u.lnk]

\* the node the walk of remove_from_ready_queue stops at: the one whose
\* next is t, or NULL
RqPred(k, t) ==
  LET c == Chain(k.ready_queue_head, k.next)
      i == SelectInSeq(c, LAMBDA x : k.next[x] = t)
  IN IF i # 0 THEN c[i] ELSE Nil

\* the stores after the walk: bend curr past t, fix the tail, clear t.next
rq_link(k, t, curr) ==
  IF curr # Nil
  THEN [k EXCEPT !.next[curr] = k.next[t],
                 !.ready_queue_tail = IF @ = t THEN curr ELSE @,
                 !.next[t] = Nil]
  ELSE [k EXCEPT !.next[t] = Nil]

remove_from_ready_queue(k, t) ==
  IF k.ready_queue_head = t
  THEN [k EXCEPT !.ready_queue_head = k.next[t],
                 !.ready_queue_tail = IF @ = t THEN Nil ELSE @,
                 !.next[t] = Nil]
  ELSE IF RqPred(k, t) = Nil /\ Loops(k.ready_queue_head, k.next) THEN Hang(k)
  ELSE rq_link(k, t, RqPred(k, t))

\* kmalloc + process_create: fresh fields, pushed on the process list
process_create(k, p) ==
  [k EXCEPT !.live_procs = @ \cup {p},
            !.page_dir[p] = Nil, !.main_thread[p] = Nil,
            !.thread_list[p] = Nil,
            !.pnext[p] = k.process_list, !.process_list = p]

\* kfree of a process_t
proc_kfree(k, p) == [k EXCEPT !.live_procs = @ \ {p}]

\* kmalloc of thread_t and kstack + thread_create
thread_create(k, p, t) ==
  [k EXCEPT !.live_threads = @ \cup {t},
            !.state[t] = READY, !.proc[t] = p,
            !.timeslice[t] = DEFAULT_TIMESLICE,
            !.next[t] = k.thread_list[p], !.thread_list[p] = t,
            !.main_thread[p] = IF @ = Nil THEN t ELSE @]

\* thread_destroy after remove_from_ready_queue: off the thread list,
\* main_thread cleared, thread_t and kstack freed
thread_release(k, t) ==
  LET k1 == remove_thread_from_process(k, t)
      p == k1.proc[t]
  IN Then(k1, LAMBDA r :
       [r EXCEPT !.main_thread = [q \in Procs |->
                    IF q = p /\ r.main_thread[q] = t THEN Nil
                    ELSE r.main_thread[q]],
                 !.live_threads = @ \ {t}])

thread_destroy(k, t) ==
  IF t = k.current_thread THEN k
  ELSE Then(remove_from_ready_queue(k, t), LAMBDA r : thread_release(r, t))

\* the while(thread) loop of process_destroy; the successor is read
\* before the thread is destroyed
RECURSIVE destroy_threads(_, _, _)
destroy_threads(k, t, fuel) ==
  IF k.cpu # "run" \/ t = Nil THEN k
  ELSE IF fuel = 0 THEN Hang(k)
  ELSE destroy_threads(thread_destroy(k, t), k.next[t], fuel - 1)

\* process_destroy after its thread loop: CR3 leaves a directory being
\* dropped, and the memset clears the process_t
destroy_finish(k, p) ==
  [k EXCEPT !.current_directory =
               IF k.page_dir[p] \notin {Nil, KernelDir} /\ @ = p
               THEN KernelDir ELSE @,
            !.page_dir[p] = Nil, !.main_thread[p] = Nil,
            !.thread_list[p] = Nil, !.pnext[p] = Nil]

process_destroy(k, p) ==
  IF p = k.current_proc THEN k
  ELSE LET k1 == remove_from_process_list(k, p)
           k2 == destroy_threads(k1, k1.thread_list[p], Cardinality(Threads) + 1)
       IN Then(k2, LAMBDA r : destroy_finish(r, p))

\* the directory a process runs in
DirOf(k, p) == IF k.page_dir[p] = KernelDir THEN KernelDir ELSE p

\* Plausible slips in the code below, each one a variant of the operator
\* that follows it with the same parameters.
\* scheduler_switch forgetting tss_set_kernel_stack
scheduler_switch_keeps_esp0(k, nt) ==
  IF nt = Nil \/ nt = k.current_thread THEN k
  ELSE LET np == k.proc[nt]
       IN [k EXCEPT !.current_thread = nt, !.current_proc = np,
                    !.current_directory =
                       IF k.proc[k.current_thread] # np /\ k.page_dir[np] # Nil
                       THEN DirOf(k, np) ELSE @]

scheduler_switch(k, nt) ==
  IF nt = Nil \/ nt = k.current_thread THEN k
  ELSE LET old == k.current_thread
           np == k.proc[nt]
       IN [k EXCEPT !.current_thread = nt, !.current_proc = np,
                    !.current_directory =
                       IF k.proc[old] # np /\ k.page_dir[np] # Nil
                       THEN DirOf(k, np) ELSE @,
                    !.tss_esp0 = nt]

\* scheduler_post pushing at the head instead of appending at the tail
scheduler_post_at_head(k, t) ==
  [k EXCEPT !.state[t] = READY, !.next[t] = k.ready_queue_head,
            !.ready_queue_head = t,
            !.ready_queue_tail = IF @ = Nil THEN t ELSE @]

scheduler_post(k, t) ==
  LET k1 == [k EXCEPT !.state[t] = READY, !.next[t] = Nil]
  IN IF k.ready_queue_head = Nil
     THEN [k1 EXCEPT !.ready_queue_head = t, !.ready_queue_tail = t]
     ELSE [k1 EXCEPT !.next[k.ready_queue_tail] = t, !.ready_queue_tail = t]

\* the dequeue without `if(!ready_queue_head) ready_queue_tail = NULL`
ready_queue_dequeue_keeps_tail(k) ==
  LET nt == k.ready_queue_head
  IN [k EXCEPT !.ready_queue_head = k.next[nt], !.next[nt] = Nil,
               !.state[nt] = RUNNING, !.timeslice[nt] = DEFAULT_TIMESLICE]

\* the dequeue without `next_thread->state = THREAD_RUNNING`
ready_queue_dequeue_not_running(k) ==
  LET nt == k.ready_queue_head
  IN [k EXCEPT !.ready_queue_head = k.next[nt],
               !.ready_queue_tail = IF k.next[nt] = Nil THEN Nil ELSE @,
               !.next[nt] = Nil, !.timeslice[nt] = DEFAULT_TIMESLICE]

\* the dequeue written out twice in scheduler_tick
ready_queue_dequeue(k) ==
  LET nt == k.ready_queue_head
  IN [k EXCEPT !.ready_queue_head = k.next[nt],
               !.ready_queue_tail = IF k.next[nt] = Nil THEN Nil ELSE @,
               !.next[nt] = Nil, !.state[nt] = RUNNING,
               !.timeslice[nt] = DEFAULT_TIMESLICE]

\* reaping branch of scheduler_tick: the current thread is TERMINATED
tick_reap(k) ==
  LET dead == k.current_thread
      dp == k.proc[dead]
      nt == k.ready_queue_head
      k1 == remove_thread_from_process(ready_queue_dequeue(k), dead)
      k2 == Then(k1, LAMBDA r :
              IF dp # Nil /\ r.thread_list[dp] = Nil
              THEN Then(process_destroy(r, dp), LAMBDA s : proc_kfree(s, dp))
              ELSE r)
  IN IF nt = Nil THEN [k EXCEPT !.cpu = "halt"]
     ELSE Then(k2, LAMBDA r : scheduler_switch(r, nt))

\* the timeslice branch without the refill when nobody else is ready
tick_preempt_no_refill(k) ==
  LET cur == k.current_thread
      k1 == [k EXCEPT !.timeslice[cur] = @ - 1]
      k2 == IF k1.state[cur] = RUNNING
            THEN scheduler_post([k1 EXCEPT !.state[cur] = READY], cur)
            ELSE k1
  IN IF k1.timeslice[cur] > 0 /\ k1.state[cur] = RUNNING THEN k1
     ELSE IF k1.ready_queue_head = Nil THEN k1
     ELSE scheduler_switch(ready_queue_dequeue(k2), k2.ready_queue_head)

\* timeslice branch of scheduler_tick
tick_preempt(k) ==
  LET cur == k.current_thread
      k1 == [k EXCEPT !.timeslice[cur] = @ - 1]
      k2 == IF k1.state[cur] = RUNNING
            THEN scheduler_post([k1 EXCEPT !.state[cur] = READY], cur)
            ELSE k1
  IN IF k1.timeslice[cur] > 0 /\ k1.state[cur] = RUNNING THEN k1
     ELSE IF k1.ready_queue_head = Nil
          THEN [k1 EXCEPT !.timeslice[cur] = DEFAULT_TIMESLICE]
     ELSE scheduler_switch(ready_queue_dequeue(k2), k2.ready_queue_head)

scheduler_tick(k) ==
  IF k.current_thread = Nil THEN k
  ELSE IF k.state[k.current_thread] = TERMINATED THEN tick_reap(k)
  ELSE tick_preempt(k)

(***************************************************************************)
(* System calls.  Each is the whole C function, its failure paths         *)
(* included; `p` and `t` are the slots kmalloc returns.                    *)
(***************************************************************************)

\* vmm_create_address_space (spawn) or vmm_clone_pagedir (fork) fails:
\* the process_t is kfree'd but was never unlinked from the process list
create_fails(k, p) == proc_kfree(process_create(k, p), p)

\* elf_load or thread_create fails (spawn), or the child thread_t or its
\* kstack cannot be allocated (fork): process_destroy + kfree
create_aborts(k, p) ==
  LET k1 == [process_create(k, p) EXCEPT !.page_dir[p] = UserDir]
  IN Then(process_destroy(k1, p), LAMBDA r : proc_kfree(r, p))

process_spawn(k, p, t) ==
  LET k1 == thread_create([process_create(k, p) EXCEPT !.page_dir[p] = UserDir], p, t)
  IN scheduler_post([k1 EXCEPT !.main_thread[p] = t], t)

\* the child thread is a byte copy of the current one whose fields are
\* then all overwritten
process_fork(k, p, t) ==
  LET k1 == [process_create(k, p) EXCEPT !.page_dir[p] = UserDir]
      k2 == [k1 EXCEPT !.live_threads = @ \cup {t},
                       !.proc[t] = p, !.state[t] = READY,
                       !.timeslice[t] = DEFAULT_TIMESLICE,
                       !.next[t] = k1.thread_list[p], !.thread_list[p] = t,
                       !.main_thread[p] = t]
  IN scheduler_post(k2, t)

\* the loop of process_exit that marks the process's threads TERMINATED
exit_mark(k, p) ==
  LET c == Chain(k.thread_list[p], k.next)
      marked == [k EXCEPT !.state = [t \in Threads |->
                            IF t \in ToSet(c) THEN TERMINATED ELSE k.state[t]]]
  IN IF Loops(k.thread_list[p], k.next) THEN Hang(marked) ELSE marked

\* process_exit of the caller's own process: int $0x20 runs scheduler_tick
\* at once, so the whole call is one step.  The other branch is the
\* ExitOther .. ExitLink steps below.
process_exit(k, p) ==
  Then(exit_mark(k, p), LAMBDA r :
    scheduler_tick([r EXCEPT !.state[r.current_thread] = TERMINATED]))

(***************************************************************************)
(* The specification                                                       *)
(***************************************************************************)
\* exiting.thr runs process_exit(exiting.p) and is at exiting.pc:
\* "destroy" (the call of process_destroy) or "link" (in thread_destroy
\* of exiting.t, between the walk of remove_from_ready_queue, which found
\* exiting.curr, and the stores after it); exiting.nxt is
\* process_destroy's `next`, and fuel bounds its while loop.
NoExit == [thr |-> Nil, p |-> Nil, pc |-> "none", t |-> Nil, nxt |-> Nil,
           curr |-> Nil, fuel |-> 0]

\* scheduler_init after kmm/vmm/heap initialisation: the init process
\* borrows the kernel directory and its thread is running
Init ==
  \E p0 \in Procs, t0 \in Threads :
    /\ live_threads = {t0}
    /\ live_procs = {p0}
    /\ state = [t \in Threads |-> IF t = t0 THEN RUNNING ELSE READY]
    /\ next = [t \in Threads |-> Nil]
    /\ proc = [t \in Threads |-> IF t = t0 THEN p0 ELSE Nil]
    /\ timeslice = [t \in Threads |-> DEFAULT_TIMESLICE]
    /\ thread_list = [p \in Procs |-> IF p = p0 THEN t0 ELSE Nil]
    /\ main_thread = [p \in Procs |-> IF p = p0 THEN t0 ELSE Nil]
    /\ page_dir = [p \in Procs |-> IF p = p0 THEN KernelDir ELSE Nil]
    /\ pnext = [p \in Procs |-> Nil]
    /\ process_list = p0
    /\ ready_queue_head = Nil
    /\ ready_queue_tail = Nil
    /\ current_thread = t0
    /\ current_proc = p0
    /\ current_directory = KernelDir
    /\ tss_esp0 = t0
    /\ cpu = "run"
    /\ exiting = NoExit

FreeProcs == Procs \ live_procs
FreeThreads == Threads \ live_threads

\* the timer can interrupt the running thread
Preemptible == exiting.pc = "none" \/ ~ExitMasksIrq

\* the running thread is not inside a process_exit of another process
CallerFree == exiting.pc = "none" \/ exiting.thr # current_thread

\* timer interrupt, vector 32
Tick == cpu = "run" /\ Preemptible /\ Set(scheduler_tick(St))
        /\ UNCHANGED exiting

Spawn ==
  /\ cpu = "run" /\ CallerFree
  /\ \E p \in FreeProcs :
       \/ Set(create_fails(St, p))
       \/ Set(create_aborts(St, p))
       \/ \E t \in FreeThreads : Set(process_spawn(St, p, t))
  /\ UNCHANGED exiting

Fork ==
  /\ cpu = "run" /\ CallerFree
  /\ current_thread # Nil
  /\ \E p \in FreeProcs :
       \/ Set(create_fails(St, p))
       \/ Set(create_aborts(St, p))
       \/ \E t \in FreeThreads : Set(process_fork(St, p, t))
  /\ UNCHANGED exiting

\* the caller exits its own process
Exit ==
  /\ cpu = "run" /\ CallerFree
  /\ current_proc \in live_procs
  /\ Set(process_exit(St, current_proc))
  /\ UNCHANGED exiting

\* process_exit of another live process, looked up by pid: the marking loop
ExitOther ==
  /\ cpu = "run" /\ exiting.pc = "none" /\ current_thread # Nil
  /\ \E p \in live_procs \ {current_proc} :
       /\ Set(exit_mark(St, p))
       /\ exiting' = [NoExit EXCEPT !.thr = current_thread, !.p = p,
                       !.pc = "destroy", !.fuel = Cardinality(Threads) + 1]

\* the while(thread) loop of process_destroy goes on with thread t:
\* `next = thread->next`, then thread_destroy up to the walk of
\* remove_from_ready_queue.  A walk that finds t's predecessor stops
\* there, before the stores; the head case, a walk that finds nothing and
\* the current thread complete thread_destroy and the loop goes on.  When
\* it ends, the rest of process_destroy and process_exit's kfree follow.
\* The result is the kernel state k and the new exiting e.
RECURSIVE exit_loop(_, _, _)
exit_loop(k, e, t) ==
  IF k.cpu # "run" THEN [k |-> k, e |-> e]
  ELSE IF t = Nil
       THEN [k |-> proc_kfree(destroy_finish(k, e.p), e.p), e |-> NoExit]
  ELSE IF e.fuel = 0 THEN [k |-> Hang(k), e |-> e]
  ELSE LET curr == RqPred(k, t)
           e1 == [e EXCEPT !.t = t, !.fuel = @ - 1]
       IN IF t = k.current_thread \/ k.ready_queue_head = t \/ curr = Nil
          THEN exit_loop(thread_destroy(k, t), e1, k.next[t])
          ELSE [k |-> k, e |-> [e1 EXCEPT !.pc = "link", !.curr = curr,
                                          !.nxt = k.next[t]]]

SetExit(r) == Set(r.k) /\ exiting' = r.e

\* a step of the exiting thread, taken only while it runs
ExitRuns(pc) == cpu = "run" /\ exiting.pc = pc /\ exiting.thr = current_thread

\* process_destroy up to its loop; it returns at once if the process has
\* become current meanwhile, and process_exit still frees it
ExitDestroy ==
  /\ ExitRuns("destroy")
  /\ LET p == exiting.p
         k1 == remove_from_process_list(St, p)
     IN IF p = current_proc
        THEN Set(proc_kfree(St, p)) /\ exiting' = NoExit
        ELSE SetExit(exit_loop(k1, exiting, k1.thread_list[p]))

\* the stores after the walk, with the curr it found, the rest of
\* thread_destroy, and the loop of process_destroy goes on
ExitLink ==
  /\ ExitRuns("link")
  /\ SetExit(exit_loop(thread_release(rq_link(St, exiting.t, exiting.curr),
                                      exiting.t),
                       exiting, exiting.nxt))

ExitStep == ExitDestroy \/ ExitLink

\* the CPU halted in scheduler_tick or is stuck in an endless list walk
Stopped == cpu # "run" /\ UNCHANGED vars

Next == Tick \/ Spawn \/ Fork \/ Exit \/ ExitOther \/ ExitStep \/ Stopped

\* the timer keeps interrupting whatever runs, and the CPU goes on with
\* the running thread's process_exit
Spec == Init /\ [][Next]_vars /\ SF_vars(Tick) /\ WF_vars(ExitStep)

-----------------------------------------------------------------------------
(***************************************************************************)
(* Properties                                                              *)
(***************************************************************************)
Ptr(S) == S \cup {Nil}

TypeOK ==
  /\ live_threads \subseteq Threads /\ live_procs \subseteq Procs
  /\ state \in [Threads -> ThreadStates]
  /\ next \in [Threads -> Ptr(Threads)]
  /\ proc \in [Threads -> Ptr(Procs)]
  /\ timeslice \in [Threads -> -1..DEFAULT_TIMESLICE]
  /\ thread_list \in [Procs -> Ptr(Threads)]
  /\ main_thread \in [Procs -> Ptr(Threads)]
  /\ page_dir \in [Procs -> {Nil, KernelDir, UserDir}]
  /\ pnext \in [Procs -> Ptr(Procs)]
  /\ process_list \in Ptr(Procs)
  /\ ready_queue_head \in Ptr(Threads) /\ ready_queue_tail \in Ptr(Threads)
  /\ current_thread \in Ptr(Threads) /\ current_proc \in Ptr(Procs)
  /\ current_directory \in Procs \cup {KernelDir}
  /\ tss_esp0 \in Threads
  /\ cpu \in {"run", "halt", "hang"}

ReadyQueue == ToSet(Chain(ready_queue_head, next))

(* The ready queue is a proper FIFO list: the walk from ready_queue_head  *)
(* ends at NULL, ready_queue_tail is its last node, every live READY      *)
(* thread but the running one is on it, and everything on it is live and *)
(* READY, or TERMINATED by the marking loop of a process_exit that has    *)
(* not yet unlinked it.  It is about scheduler_post, the dequeue in       *)
(* scheduler_tick and remove_from_ready_queue sharing thread_t.next with  *)
(* the thread lists: a queued thread that is freed, lost or linked twice  *)
(* breaks it.                                                             *)
ReadyQueueIntact ==
  cpu = "run" =>
    LET q == Chain(ready_queue_head, next)
    IN /\ ~Loops(ready_queue_head, next)
       /\ ready_queue_tail = IF q = <<>> THEN Nil ELSE Last(q)
       /\ ToSet(q) \subseteq live_threads
       /\ {t \in live_threads : state[t] = READY} \subseteq ToSet(q)
       /\ \A t \in ToSet(q) :
            state[t] = READY \/ (state[t] = TERMINATED /\ exiting.pc # "none")
       /\ current_thread \notin ToSet(q)

(* Exactly one thread runs, and it is current_thread: scheduler_tick and  *)
(* scheduler_switch never leave a second RUNNING thread behind or make a  *)
(* thread current without marking it RUNNING.                             *)
RunningIsCurrent ==
  cpu = "run" =>
    /\ current_thread \in live_threads
    /\ \A t \in live_threads : state[t] = RUNNING <=> t = current_thread

(* The CPU context follows the current thread: current_proc is its       *)
(* process and still allocated, CR3 holds that process's directory and    *)
(* tss.esp0 its kernel stack.  scheduler_switch only reloads CR3 when the *)
(* old and new thread_t.proc pointers differ, and process_destroy may     *)
(* reload it too, so this is about those two code paths agreeing.         *)
CpuContextMatchesCurrent ==
  cpu = "run" =>
    /\ current_proc = proc[current_thread]
    /\ current_proc \in live_procs
    /\ current_directory = DirOf(St, current_proc)
    /\ tss_esp0 = current_thread

(* A thread posted to the ready queue eventually runs, unless it is       *)
(* destroyed first or the CPU stops: round-robin preemption by            *)
(* scheduler_tick starves nobody.                                         *)
QueuedThreadRunsFor(t) ==
  (cpu = "run" /\ t \in ReadyQueue)
    ~> (current_thread = t \/ t \notin live_threads \/ cpu # "run")

QueuedThreadRuns == \A t \in Threads : QueuedThreadRunsFor(t)

(* A thread dies only together with its process: a step that terminates  *)
(* or frees a live thread either frees the process the thread belongs to  *)
(* or is a step of the process_exit of that process.  process_exit is     *)
(* meant to end the threads of the exiting process only.                  *)
ThreadDiesWithItsProcess ==
  [][cpu' = "run" =>
     \A t \in live_threads :
       (t \notin live_threads' \/ (state[t] # TERMINATED /\ state'[t] = TERMINATED))
         => (proc[t] \notin live_procs' \/ proc[t] = exiting'.p)]_vars

(* What the kernel has allocated and what its lists reach agree: every   *)
(* process on process_list is allocated (process_find_by_pid and          *)
(* add_to_process_list would otherwise walk freed or reused memory), and  *)
(* every allocated thread is the running thread or waits in the ready    *)
(* queue (reaping a TERMINATED thread in scheduler_tick is meant to free  *)
(* its thread_t and kernel stack).                                         *)
ListsMatchAllocations ==
  cpu = "run" =>
    /\ ToSet(Chain(process_list, pnext)) \subseteq live_procs
    /\ live_threads \subseteq ReadyQueue \cup {current_thread}
=============================================================================
