---------------------------- MODULE MCScheduler ----------------------------
(* Model-checking instance of Scheduler: three thread slots (the init     *)
(* thread and two more), three process slots, a timeslice of two ticks.   *)
EXTENDS Scheduler

CONSTANTS t1, t2, t3, p1, p2, p3

MCThreads == {t1, t2, t3}
MCProcs == {p1, p2, p3}

Symm == Permutations(MCThreads) \cup Permutations(MCProcs)

(* Every slot is alike to the specification (Init picks the init process *)
(* and thread with \E), so every behaviour is a renaming of one that      *)
(* starts from p1 and t1: fixing them is the symmetry reduction that is   *)
(* sound for liveness too.                                                *)
MCInit == Init /\ current_proc = p1 /\ current_thread = t1

(* Spec's fairness, SF_vars(Tick) /\ WF_vars(ExitStep), as one formula   *)
(* without ENABLED, which TLC checks far faster: while a thread runs,      *)
(* ticks keep coming.  The PIT fires periodically, and a tick that comes   *)
(* while process_exit masks interrupts stays pending in the PIC until the *)
(* exit, a loop of bounded length, unmasks them.  With ExitMasksIrq the   *)
(* two forms agree: a tick with a current thread always changes the state *)
(* (DEFAULT_TIMESLICE = 2: it decrements or refills the timeslice,        *)
(* switches, reaps or halts), a tick is disabled only inside an exit, and *)
(* no tick can come unless the exit's steps are taken.                    *)
TimerDue == cpu = "run" /\ current_thread # Nil

MCSpec == MCInit /\ [][Next]_vars /\ (<>[]~TimerDue \/ []<><<Tick>>_vars)

(* What tells two states apart for TLC.  Left out is the timeslice of a  *)
(* thread that does not run: scheduler_tick reads and changes only the    *)
(* current thread's, and ready_queue_dequeue overwrites it in the step    *)
(* that makes the thread current.  States that agree on the view have     *)
(* successors that agree on it, so no behaviour of the other variables   *)
(* is lost; and a timeslice can leave its range only while its thread     *)
(* runs, where the view keeps it.                                         *)
SchedView ==
  <<live_threads, live_procs, state, next, proc, thread_list, main_thread,
    page_dir, pnext, process_list, ready_queue_head, ready_queue_tail,
    current_thread, current_proc, current_directory, tss_esp0, cpu, exiting,
    IF current_thread = Nil THEN 0 ELSE timeslice[current_thread]>>
=============================================================================
