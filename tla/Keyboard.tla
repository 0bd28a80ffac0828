------------------------------- MODULE Keyboard -------------------------------
(***************************************************************************)
(* The PS/2 keyboard driver of src/driver/keyboard.c: the IRQ1 handler    *)
(* decodes a scancode, tracks the modifier keys and pushes make codes,     *)
(* with their ASCII translation, into a ring buffer that a reader drains   *)
(* with kbd_getlastkey_buf.                                                *)
(*                                                                         *)
(* The handler runs behind an interrupt gate, so it is one atomic step.   *)
(* The reader runs with interrupts enabled: _kbd_ring_buffer_pop is split *)
(* at its shared accesses (the empty test, the copy of the entry, the     *)
(* store of the tail) and the handler may run between any two of them.    *)
(*                                                                         *)
(* A scancode is abstracted to the keycode _kbd_scancode_set gives its    *)
(* make code and whether bit 0x80 (break) is set; an ASCII character to a *)
(* string, "NUL" for 0.                                                    *)
(***************************************************************************)
EXTENDS Naturals, Sequences

CONSTANTS
  SIZE,      \* KBD_RING_BUF_SIZE
  Keys,      \* keycodes the keyboard may send, "UNKNOWN" for unmapped codes
  MaxKeys    \* bound on the number of keys stored, to keep the model finite

ASSUME SIZE \in Nat /\ SIZE >= 2 /\ MaxKeys \in Nat

Slots == 0..(SIZE - 1)
NUL == "NUL"
Entry(k, a) == [keycode |-> k, ascii |-> a]
Invalid == Entry("UNKNOWN", NUL)     \* static zero-initialised entries

VARIABLES
  buf, head, tail,                           \* _kbd_ring_buffer, _head, _tail
  shift, alt, ctrl, capslock, numlock, scrolllock,
  pc,        \* where the reader is in _kbd_ring_buffer_pop
  key,       \* the entry the reader copied
  sent,      \* history: every entry the handler stored, in order
  got,       \* history: every entry the reader returned, in order
  dropped    \* history: how many make codes found the ring full

vars == <<buf, head, tail, shift, alt, ctrl, capslock, numlock, scrolllock,
          pc, key, sent, got, dropped>>

(***************************************************************************)
(* Helpers of keyboard.c                                                   *)
(***************************************************************************)
\* kbd_keycode_to_ascii for the keys of the model, under the current
\* shift, capslock and numlock
kbd_keycode_to_ascii(k) ==
  CASE k = "SPACE" -> " "
    [] k = "ONE"   -> IF shift THEN "!" ELSE "1"
    [] k = "KP_0"  -> IF numlock THEN "0" ELSE NUL
    [] k = "A"     -> IF capslock # shift THEN "A" ELSE "a"
    [] OTHER       -> NUL

\* a full test that gives up one more slot than the ring keeps free
_kbd_ring_buffer_full_early == (head + 2) % SIZE = tail

_kbd_ring_buffer_full  == (head + 1) % SIZE = tail
\* an empty test that also calls a ring holding one entry empty
_kbd_ring_buffer_empty_one == head = tail \/ head = (tail + 1) % SIZE

_kbd_ring_buffer_empty == head = tail

\* _kbd_ring_buffer_push that stores into a full ring
_kbd_ring_buffer_push_unchecked(k) ==
  /\ buf' = [buf EXCEPT ![head] = Entry(k, kbd_keycode_to_ascii(k))]
  /\ head' = (head + 1) % SIZE
  /\ sent' = Append(sent, Entry(k, kbd_keycode_to_ascii(k)))
  /\ UNCHANGED dropped

\* _kbd_ring_buffer_push: a key that finds the ring full is dropped
_kbd_ring_buffer_push(k) ==
  IF _kbd_ring_buffer_full
  THEN /\ dropped' = dropped + 1
       /\ UNCHANGED <<buf, head, sent>>
  ELSE /\ buf' = [buf EXCEPT ![head] = Entry(k, kbd_keycode_to_ascii(k))]
       /\ head' = (head + 1) % SIZE
       /\ sent' = Append(sent, Entry(k, kbd_keycode_to_ascii(k)))
       /\ UNCHANGED dropped

(***************************************************************************)
(* kbd_init                                                                *)
(***************************************************************************)
Init ==
  /\ buf = [i \in Slots |-> Invalid]
  /\ head = 0 /\ tail = 0
  /\ shift = FALSE /\ alt = FALSE /\ ctrl = FALSE
  /\ capslock = FALSE /\ numlock = FALSE /\ scrolllock = FALSE
  /\ pc = "idle" /\ key = Invalid
  /\ sent = <<>> /\ got = <<>> /\ dropped = 0

(***************************************************************************)
(* kbd_interrupt_handler, one action per branch                            *)
(***************************************************************************)
ReaderVars == <<tail, pc, key, got>>

\* a shift, alt or ctrl scancode sets or clears its flag and returns
ShiftKey ==
  \E k \in Keys \cap {"LSHIFT", "RSHIFT"}, brk \in BOOLEAN :
    /\ shift' = ~brk
    /\ UNCHANGED <<buf, head, sent, dropped, alt, ctrl, capslock, numlock, scrolllock>>
    /\ UNCHANGED ReaderVars

AltKey ==
  \E k \in Keys \cap {"LALT", "RALT"}, brk \in BOOLEAN :
    /\ alt' = ~brk
    /\ UNCHANGED <<buf, head, sent, dropped, shift, ctrl, capslock, numlock, scrolllock>>
    /\ UNCHANGED ReaderVars

CtrlKey ==
  \E k \in Keys \cap {"LCTRL", "RCTRL"}, brk \in BOOLEAN :
    /\ ctrl' = ~brk
    /\ UNCHANGED <<buf, head, sent, dropped, shift, alt, capslock, numlock, scrolllock>>
    /\ UNCHANGED ReaderVars

\* a lock key's make code toggles its lock; a break code, or a make code
\* of an unmapped key, stores nothing
Toggled(flag, k, lock, brk) == IF k = lock /\ ~brk THEN ~flag ELSE flag

OtherKey ==
  \E k \in Keys \ {"LSHIFT", "RSHIFT", "LALT", "RALT", "LCTRL", "RCTRL"},
    brk \in BOOLEAN :
    /\ ~brk /\ k # "UNKNOWN" => Len(sent) + dropped < MaxKeys
    /\ capslock' = Toggled(capslock, k, "CAPSLOCK", brk)
    /\ numlock' = Toggled(numlock, k, "NUMLOCK", brk)
    /\ scrolllock' = Toggled(scrolllock, k, "SCROLLLOCK", brk)
    /\ IF ~brk /\ k # "UNKNOWN"
       THEN _kbd_ring_buffer_push(k)
            \* the translation reads the lock flags the handler just toggled
            \* (a lock key itself translates to NUL either way)
       ELSE UNCHANGED <<buf, head, sent, dropped>>
    /\ UNCHANGED <<shift, alt, ctrl>>
    /\ UNCHANGED ReaderVars

Irq == ShiftKey \/ AltKey \/ CtrlKey \/ OtherKey

(***************************************************************************)
(* kbd_getlastkey_buf / _kbd_ring_buffer_pop, one action per access        *)
(***************************************************************************)
HandlerVars == <<buf, head, shift, alt, ctrl, capslock, numlock, scrolllock,
                 sent, dropped>>

\* the empty test: an empty ring returns the invalid entry at once
PopCheck ==
  /\ pc = "idle"
  /\ ~_kbd_ring_buffer_empty
  /\ pc' = "load"
  /\ UNCHANGED <<tail, key, got>> /\ UNCHANGED HandlerVars

PopLoad ==
  /\ pc = "load"
  /\ key' = buf[tail]
  /\ pc' = "adv"
  /\ UNCHANGED <<tail, got>> /\ UNCHANGED HandlerVars

\* the tail update without the wrap-around
PopAdvance_no_wrap ==
  /\ pc = "adv"
  /\ tail' = tail + 1
  /\ got' = Append(got, key)
  /\ pc' = "idle"
  /\ UNCHANGED key /\ UNCHANGED HandlerVars

PopAdvance ==
  /\ pc = "adv"
  /\ tail' = (tail + 1) % SIZE
  /\ got' = Append(got, key)
  /\ pc' = "idle"
  /\ UNCHANGED key /\ UNCHANGED HandlerVars

Reader == PopCheck \/ PopLoad \/ PopAdvance

Next == Irq \/ Reader

\* the reader polls for keys for as long as the system runs
Spec == Init /\ [][Next]_vars /\ WF_vars(Reader)

(***************************************************************************)
(* Properties                                                              *)
(***************************************************************************)
Entries == {Entry(k, a) : k \in Keys, a \in {" ", "1", "!", "0", "a", "A", NUL}}

TypeOK ==
  /\ buf \in [Slots -> Entries \cup {Invalid}]
  /\ head \in Slots /\ tail \in Slots
  /\ {shift, alt, ctrl, capslock, numlock, scrolllock} \subseteq BOOLEAN
  /\ pc \in {"idle", "load", "adv"}
  /\ key \in Entries \cup {Invalid}
  /\ sent \in Seq(Entries) /\ got \in Seq(Entries) /\ dropped \in Nat

\* the entries stored and not yet taken, oldest first
Pending ==
  [i \in 1..((head - tail + SIZE) % SIZE) |-> buf[(tail + i - 1) % SIZE]]

(* The reader returns the stored keys in the order they were typed, none  *)
(* lost, repeated or overwritten: what it has returned followed by what   *)
(* the ring holds is exactly what the handler stored.  It is about the    *)
(* full test of _kbd_ring_buffer_push against a pop that the interrupt    *)
(* splits between its empty test, its copy and its tail update.           *)
DeliveredInOrder == sent = got \o Pending

(* The ring implements a FIFO of SIZE - 1 keys: what it holds is the     *)
(* abstract queue, what the reader returned is what was taken, and a key *)
(* is dropped only when SIZE - 1 keys wait; the reader keeps taking keys *)
(* while any wait.  It is about the full test of _kbd_ring_buffer_push   *)
(* (one slot is kept free) and the split pop of kbd_getlastkey_buf.      *)
KQ == INSTANCE KeyQueue
        WITH q <- Pending, taken <- got, lost <- dropped,
             Msgs <- Entries, Cap <- SIZE - 1
KeyQueueSpec == KQ!Spec
==============================================================================
