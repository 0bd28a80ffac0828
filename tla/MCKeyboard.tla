------------------------------ MODULE MCKeyboard ------------------------------
(* The keyboard driver with a ring of three slots (two usable, so the full *)
(* test is reached after two keys and the indices wrap after three), three *)
(* stored keys at most, and one key of each kind the handler treats       *)
(* differently: each modifier and lock, a letter (shift and capslock), a  *)
(* keypad digit (numlock) and an unmapped code.                           *)
EXTENDS Keyboard

MCKeys == {"LSHIFT", "LALT", "LCTRL", "CAPSLOCK", "NUMLOCK", "SCROLLLOCK",
           "A", "KP_0", "UNKNOWN"}
==============================================================================
