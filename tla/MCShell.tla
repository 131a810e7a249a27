------------------------------- MODULE MCShell ------------------------------
(***************************************************************************)
(* Lines for TLC: every command, its arguments, and a character that is    *)
(* neither.                                                                *)
(***************************************************************************)
EXTENDS Shell

SomeKeys == {"fetchme", "echo", "cursor", "panic", "sleep", "-", "e", "d", "5"}

\* A stack that was never used.
ZeroStack == {NUL}
=============================================================================
