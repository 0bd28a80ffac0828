------------------------------- MODULE KeyQueue -------------------------------
(***************************************************************************)
(* What the keyboard driver promises its reader, without the ring: a FIFO *)
(* of at most Cap keys.  A key typed while Cap keys wait is lost; any     *)
(* other key joins the back.  The reader takes keys from the front, one   *)
(* at a time, and keeps taking them while any wait.                        *)
(***************************************************************************)
EXTENDS Naturals, Sequences

CONSTANTS
  Msgs,   \* the entries a key press can produce
  Cap     \* how many keys may wait at once

VARIABLES
  q,      \* the keys typed and not yet taken, oldest first
  taken,  \* every key the reader has taken, in order
  lost    \* how many keys were typed while the queue was full

qvars == <<q, taken, lost>>

Init == q = <<>> /\ taken = <<>> /\ lost = 0

\* a key press that finds room
Put(m) ==
  /\ Len(q) < Cap
  /\ q' = Append(q, m)
  /\ UNCHANGED <<taken, lost>>

\* a key press that finds the queue full: it is dropped, nothing else moves
Lose ==
  /\ Len(q) = Cap
  /\ lost' = lost + 1
  /\ UNCHANGED <<q, taken>>

Take ==
  /\ q # <<>>
  /\ taken' = Append(taken, Head(q))
  /\ q' = Tail(q)
  /\ UNCHANGED lost

Next == (\E m \in Msgs : Put(m)) \/ Lose \/ Take

Spec == Init /\ [][Next]_qvars /\ WF_qvars(Take)
==============================================================================
