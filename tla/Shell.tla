-------------------------------- MODULE Shell -------------------------------
(***************************************************************************)
(* The shell of apps/shell.c: relics_shell reads characters into           *)
(* command_buf, runs the command in it at each new line, and clears what   *)
(* the line has used of the buffer.                                        *)
(*                                                                         *)
(* A cell of the buffer is a character, or one of the words the shell      *)
(* compares the start of the buffer with: "echo" stands for the five       *)
(* characters of "echo ", and so on.  So buf[7] is the third cell behind   *)
(* the word sleep and the second behind the word cursor.                   *)
(*                                                                         *)
(* getchark is in Keyboard, millisleep in Sleep and what is printed in     *)
(* Console; here they are steps.                                           *)
(***************************************************************************)
EXTENDS Integers, SequencesExt

CONSTANTS
    Size,       \* sizeof(command_buf), in cells
    Keys,       \* what is typed, other than new lines
    Garbage     \* what the cells of the uninitialised buffer may hold

ASSUME SizeAssumption == Size \in Nat \ {0}

VARIABLES
    command_buf,
    i,          \* the loop variable of relics_shell
    pc,         \* "read", "sleep", "clear"; "returned", "panic"
    line,       \* history: what was typed since the prompt
    ran         \* history: the command that was run, and on what

vars == <<command_buf, i, pc, line, ran>>

-----------------------------------------------------------------------------
NUL == "NUL"
Cells == 0 .. (Size - 1)
Digits == {"1", "2", "3", "4", "5", "6", "7", "8", "9"}

\* Is cell k of b within the buffer, and c?
Holds(b, k, c) == k \in Cells /\ b[k] = c

\* The string that starts at cell k, up to the first NUL; it runs over the end
\* of the buffer if there is none.
StringAt(b, k) ==
    LET ends == {e \in Cells : e >= k /\ b[e] = NUL}
        end == CHOOSE e \in ends : \A f \in ends : e <= f
    IN IF ends = {} THEN <<"overrun">>
       ELSE [j \in 1 .. (end - k) |-> b[k + j - 1]]

\* cursor_builtin.
Cursor(b) ==
    IF ~Holds(b, 2, "-") THEN "usage"
    ELSE IF Holds(b, 3, "e") THEN "enable"
    ELSE IF Holds(b, 3, "d") THEN "disable" ELSE "nothing"

\* sleep_builtin: the seconds to sleep, or "0" for no sleep.
Seconds(b) == IF 3 \in Cells /\ b[3] \in Digits THEN b[3] ELSE "0"

\* The command relics_shell finds in the buffer b, and its argument.
Command(b) ==
    CASE b[0] = "fetchme" -> <<"fetchme">>
      [] b[0] = "echo" -> <<"echo", StringAt(b, 1)>>
      [] b[0] = "cursor" -> <<"cursor", Cursor(b)>>
      [] b[0] = "panic" -> <<"panic">>
      [] b[0] = "sleep" -> <<"sleep", Seconds(b)>>
      [] OTHER -> <<"unknown", StringAt(b, 0)>>

\* What runs after the command: panic does not return, sleep takes its time.
NextPc(command) ==
    CASE command[1] = "panic" -> "panic"
      [] command[1] = "sleep" /\ command[2] # "0" -> "sleep"
      [] OTHER -> "clear"

\* Mutant: the first cell is left.
ClearedToOne(n) ==
    [k \in Cells |-> IF k > 0 /\ k <= n THEN NUL ELSE command_buf[k]]

\* The loop that clears the buffer, down from where the new line was typed.
ClearedTo(n) == [k \in Cells |-> IF k <= n THEN NUL ELSE command_buf[k]]

\* Mutant: the loop does not end with the buffer.
RoomForEver == TRUE

\* The condition of the loop that reads, behind its i++.
MoreRoom == i + 1 < Size

\* The buffer as a line alone would leave it.
BufferOf(l) == [k \in Cells |-> IF k < Len(l) THEN l[k + 1] ELSE NUL]

-----------------------------------------------------------------------------
Init ==
    /\ command_buf \in [Cells -> Garbage]
    /\ i = 0
    /\ pc = "read"
    /\ line = << >>
    /\ ran = << >>

\* A character other than a new line.  The loop ends with the buffer: the
\* shell returns to init_kernel, which halts.
ReadKey(c) ==
    /\ pc = "read"
    /\ command_buf' = [command_buf EXCEPT ![i] = c]
    /\ i' = i + 1
    /\ pc' = IF MoreRoom THEN "read" ELSE "returned"
    /\ line' = Append(line, c)
    /\ UNCHANGED ran

\* A new line: the command is run.
ReadNewLine ==
    /\ pc = "read"
    /\ ran' = Command(command_buf)
    /\ pc' = NextPc(Command(command_buf))
    /\ UNCHANGED <<command_buf, i, line>>

\* millisleep returns.
Wake ==
    /\ pc = "sleep"
    /\ pc' = "clear"
    /\ UNCHANGED <<command_buf, i, line, ran>>

\* Mutant: with an unsigned i the loop has no end.
ClearForEver ==
    /\ pc = "clear"
    /\ command_buf' = ClearedTo(i)
    /\ UNCHANGED <<i, pc, line, ran>>

\* The buffer is cleared, i is -1 and then 0 again, and the prompt printed.
Clear ==
    /\ pc = "clear"
    /\ command_buf' = ClearedTo(i)
    /\ i' = 0
    /\ pc' = "read"
    /\ line' = << >>
    /\ ran' = << >>

Next == (\E c \in Keys : ReadKey(c)) \/ ReadNewLine \/ Wake \/ Clear

Spec == Init /\ [][Next]_vars

\* The shell goes on, and millisleep returns (SleepReturns of Sleep).
FairSpec == Spec /\ WF_vars(Wake \/ Clear)

-----------------------------------------------------------------------------
\* The variables have their types.
TypeOK ==
    /\ command_buf \in [Cells -> Keys \cup Garbage \cup {NUL}]
    /\ i \in 0 .. Size
    /\ pc \in {"read", "sleep", "clear", "returned", "panic"}
    /\ line \in Seq(Keys)

\* The command that is run is the one that was typed, and its argument is what
\* was typed behind it: nothing of an earlier line, longer or shorter, is left
\* in the part of the buffer a command reads.
RunsWhatWasTyped == ran # << >> => ran = Command(BufferOf(line))

\* After a new line there is a prompt again, unless the line was panic.
PromptComesBack == pc \in {"sleep", "clear"} ~> pc = "read"
=============================================================================
