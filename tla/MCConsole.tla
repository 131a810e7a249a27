------------------------------ MODULE MCConsole -----------------------------
(***************************************************************************)
(* A screen of three lines of three cells for TLC.                         *)
(***************************************************************************)
EXTENDS Console

AllChars == {"a", "NL", "TAB", "BS", "NUL"}
LettersAndLines == {"a", "NL"}
=============================================================================
