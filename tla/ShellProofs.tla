----------------------------- MODULE ShellProofs ----------------------------
(***************************************************************************)
(* For every size of the buffer and every set of keys: the shell stays     *)
(* within its buffer, whatever is on the stack when it starts; and on a    *)
(* stack of zeroes it runs what was typed.                                 *)
(***************************************************************************)
EXTENDS Shell, TLAPS

\* The next character has a cell; only a shell that has returned is at the end.
ShellTyped ==
    /\ TypeOK
    /\ pc \in {"read", "sleep", "clear"} => i < Size

LEMMA TypedStep == ShellTyped /\ [Next]_vars => ShellTyped'
<1> SUFFICES ASSUME ShellTyped, [Next]_vars PROVE ShellTyped'
  OBVIOUS
<1> USE SizeAssumption DEF ShellTyped, TypeOK
<1>1. ASSUME NEW c \in Keys, ReadKey(c) PROVE ShellTyped'
  <2>1. i \in Cells
    BY <1>1 DEF ReadKey, Cells
  <2>2. command_buf' \in [Cells -> Keys \cup Garbage \cup {NUL}]
    BY <1>1, <2>1 DEF ReadKey
  <2>3. line' \in Seq(Keys)
    BY <1>1 DEF ReadKey
  <2> QED BY <1>1, <2>2, <2>3 DEF ReadKey, MoreRoom
<1>2. CASE ReadNewLine
  <2>1. pc' \in {"sleep", "clear", "panic"}
    BY <1>2 DEF ReadNewLine, NextPc
  <2> QED BY <1>2, <2>1 DEF ReadNewLine
<1>3. CASE Wake
  BY <1>3 DEF Wake
<1>4. CASE Clear
  <2>1. command_buf' \in [Cells -> Keys \cup Garbage \cup {NUL}]
    BY <1>4 DEF Clear, ClearedTo
  <2> QED BY <1>4, <2>1 DEF Clear
<1>5. CASE UNCHANGED vars
  BY <1>5 DEF vars
<1> QED
  BY <1>1, <1>2, <1>3, <1>4, <1>5 DEF Next

\* relics_shell stores and reads within command_buf only, and what it runs or
\* waits for always leaves it one cell to read into.
THEOREM ShellStaysInBuffer == Spec => []TypeOK
<1>1. Init => ShellTyped
  BY SizeAssumption DEF Init, ShellTyped, TypeOK
<1>2. ShellTyped => TypeOK
  BY DEF ShellTyped
<1> QED
  BY <1>1, <1>2, TypedStep, PTL DEF Spec

-----------------------------------------------------------------------------
\* The buffer holds the line and nothing else until it is cleared, and what was
\* run was run on it.
BufferHoldsLine ==
    /\ line \in Seq(Keys)
    /\ i = Len(line)
    /\ command_buf = BufferOf(line)
    /\ pc \in {"read", "sleep", "clear", "returned", "panic"}
    /\ pc \in {"read", "sleep", "clear"} => i < Size
    /\ pc = "returned" => i = Size
    /\ pc \in {"read", "returned"} => ran = << >>
    /\ pc \notin {"read", "returned"} => ran = Command(BufferOf(line))

LEMMA ShellInit == Garbage = {NUL} /\ Init => BufferHoldsLine
<1> SUFFICES ASSUME Garbage = {NUL}, Init PROVE BufferHoldsLine
  OBVIOUS
<1>1. line \in Seq(Keys) /\ Len(line) = 0
  BY DEF Init
<1>2. command_buf = BufferOf(line)
  <2>1. command_buf \in [Cells -> {NUL}]
    BY DEF Init
  <2>2. \A k \in Cells : ~(k < 0)
    BY SizeAssumption DEF Cells
  <2> QED
    BY <1>1, <2>1, <2>2 DEF BufferOf
<1> QED
  BY <1>1, <1>2, SizeAssumption DEF Init, BufferHoldsLine

LEMMA ShellStep == BufferHoldsLine /\ [Next]_vars => BufferHoldsLine'
<1> SUFFICES ASSUME BufferHoldsLine, [Next]_vars PROVE BufferHoldsLine'
  OBVIOUS
<1>0. i \in Nat
  BY DEF BufferHoldsLine
<1>1. ASSUME NEW c \in Keys, ReadKey(c) PROVE BufferHoldsLine'
  <2>1. i \in Cells /\ i < Size
    BY <1>0, <1>1, SizeAssumption DEF BufferHoldsLine, ReadKey, Cells
  <2>2. line' = Append(line, c) /\ i' = i + 1 /\ ran' = ran
    BY <1>1 DEF ReadKey
  <2>3. /\ line' \in Seq(Keys)
        /\ Len(line') = i + 1
        /\ line'[i + 1] = c
        /\ \A k \in 1 .. i : line'[k] = line[k]
    BY <2>2 DEF BufferHoldsLine
  <2>4. command_buf' = [BufferOf(line) EXCEPT ![i] = c]
    BY <1>1 DEF ReadKey, BufferHoldsLine
  <2>5. command_buf' = BufferOf(line')
    <3>1. ASSUME NEW k \in Cells
          PROVE  [BufferOf(line) EXCEPT ![i] = c][k]
                     = IF k < Len(line') THEN line'[k + 1] ELSE NUL
      <4>1. k \in Nat /\ Len(line) = i
        BY SizeAssumption DEF Cells, BufferHoldsLine
      <4>2. CASE k = i
        BY <1>0, <2>1, <2>3, <4>1, <4>2 DEF BufferOf
      <4>3. CASE k < i
        <5>1. line'[k + 1] = line[k + 1]
          BY <1>0, <2>3, <4>1, <4>3
        <5> QED
          BY <1>0, <2>3, <4>1, <4>3, <5>1 DEF BufferOf
      <4>4. CASE k > i
        BY <1>0, <2>3, <4>1, <4>4 DEF BufferOf
      <4> QED
        BY <1>0, <4>1, <4>2, <4>3, <4>4
    <3>2. [BufferOf(line) EXCEPT ![i] = c]
              = [k \in Cells |-> [BufferOf(line) EXCEPT ![i] = c][k]]
      BY DEF BufferOf
    <3> QED
      BY <2>4, <3>1, <3>2 DEF BufferOf
  <2>6. pc' = IF i + 1 < Size THEN "read" ELSE "returned"
    BY <1>1 DEF ReadKey, MoreRoom
  <2>7. ran = << >> /\ pc' \in {"read", "returned"}
    BY <1>1, <2>6 DEF ReadKey, BufferHoldsLine
  <2> QED
    BY <1>0, <2>1, <2>2, <2>3, <2>5, <2>6, <2>7, SizeAssumption
    DEF BufferHoldsLine
<1>2. CASE ReadNewLine
  <2>1. ran' = Command(BufferOf(line)) /\ pc = "read"
    BY <1>2 DEF ReadNewLine, BufferHoldsLine
  <2>2. pc' \in {"sleep", "clear", "panic"}
    BY <1>2 DEF ReadNewLine, NextPc
  <2>3. command_buf' = command_buf /\ i' = i /\ line' = line
    BY <1>2 DEF ReadNewLine
  <2> QED
    BY <2>1, <2>2, <2>3 DEF BufferHoldsLine
<1>3. CASE Wake
  BY <1>3 DEF Wake, BufferHoldsLine
<1>4. CASE Clear
  <2>1. line' \in Seq(Keys) /\ Len(line') = 0
    BY <1>4 DEF Clear
  <2>2. command_buf' = BufferOf(line')
    <3>1. ASSUME NEW k \in Cells
          PROVE  (IF k <= i THEN NUL ELSE command_buf[k]) = NUL
      <4>1. k \in Nat /\ Len(line) = i
        BY SizeAssumption, <1>4 DEF Cells, BufferHoldsLine
      <4>2. command_buf[k] = IF k < Len(line) THEN line[k + 1] ELSE NUL
        BY <1>4 DEF Clear, BufferHoldsLine, BufferOf
      <4> QED
        BY <1>0, <4>1, <4>2
    <3>2. ClearedTo(i) = [k \in Cells |-> NUL]
      BY <3>1 DEF ClearedTo
    <3>3. \A k \in Cells : ~(k < Len(line'))
      BY <2>1, SizeAssumption DEF Cells
    <3>4. BufferOf(line') = [k \in Cells |-> NUL]
      BY <3>3 DEF BufferOf
    <3> QED
      BY <1>4, <3>2, <3>4 DEF Clear
  <2>3. pc' = "read" /\ i' = 0 /\ ran' = << >>
    BY <1>4 DEF Clear
  <2> QED
    BY <2>1, <2>2, <2>3, SizeAssumption DEF BufferHoldsLine
<1>5. CASE UNCHANGED vars
  BY <1>5 DEF vars, BufferHoldsLine
<1> QED
  BY <1>1, <1>2, <1>3, <1>4, <1>5 DEF Next

\* What is run is what was typed, on a stack that nobody has used before: no
\* command sees what an earlier line has left in command_buf.
THEOREM ShellRunsLines ==
  ASSUME Garbage = {NUL}
  PROVE  Spec => []RunsWhatWasTyped
<1>1. Init => BufferHoldsLine
  BY ShellInit
<1>2. BufferHoldsLine => RunsWhatWasTyped
  BY DEF BufferHoldsLine, RunsWhatWasTyped
<1> QED
  BY <1>1, <1>2, ShellStep, PTL DEF Spec
=============================================================================
