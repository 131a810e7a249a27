----------------------------- MODULE MCKeyboard -----------------------------
(***************************************************************************)
(* A keyboard with a letter, a digit and a modifier, pressed and released. *)
(***************************************************************************)
EXTENDS Keyboard

\* a pressed and released, caps lock, shift pressed and released, 1 pressed.
SomeKeys == {30, 158, CapsLock, ShiftDown, ShiftUp, 2}

\* a pressed, and held or pressed again.
OneKey == {30}
=============================================================================
