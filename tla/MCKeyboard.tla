----------------------------- MODULE MCKeyboard -----------------------------
(***************************************************************************)
(* Instances of the keyboard driver for TLC.                               *)
(***************************************************************************)
EXTENDS Keyboard

\* No modifiers: the key buffer alone.
NoHolds  == {}
NoHoldOf == <<>>

\* Both shift keys.
ShiftKeys == {"lshift", "rshift"}
ShiftOf   == [k \in ShiftKeys |-> "shift"]
=============================================================================
