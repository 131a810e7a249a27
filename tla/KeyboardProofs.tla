--------------------------- MODULE KeyboardProofs ---------------------------
(***************************************************************************)
(* Keyboard implements InputSpec, for every set of scan codes and every    *)
(* number of interrupts.                                                   *)
(***************************************************************************)
EXTENDS Keyboard, TLAPS

\* What makes the promise inductive: whatever is in the mailbox, or loaded and
\* not yet returned, is a typed character the reader is not yet past.
Undelivered ==
    /\ most_recent_char # NUL <=> fresh # 0
    /\ fresh # 0 => /\ fresh = Len(typed)
                    /\ fresh > taken
                    /\ typed[fresh] = most_recent_char
    /\ pc = "clear" /\ tmp # NUL => /\ tmp_fresh > taken
                                    /\ typed[tmp_fresh] = tmp

KeyboardInv == TypeOK /\ Undelivered

\* The empty mailbox is one of the values to_character returns.
LEMMA NULIsChar == NUL \in Chars
<1>1. Plain[29] = NUL
  BY DEF Plain
<1> QED
  BY <1>1 DEF Chars

\* to_character returns a character of one of its two tables, or NUL.
LEMMA ToCharacterType == ASSUME NEW s PROVE to_character(s) \in Chars
BY NULIsChar DEF to_character, Chars

\* The invariant holds initially and is kept by every step.
LEMMA InductiveInit == Init => KeyboardInv
<1> SUFFICES ASSUME Init PROVE KeyboardInv
  OBVIOUS
<1>1. typed \in Seq(Chars) /\ Len(typed) = 0
  BY DEF Init
<1>2. {most_recent_char, tmp} \subseteq Chars /\ got \in Seq(Chars)
  BY NULIsChar DEF Init
<1>3. TypeOK
  <2>1. {char_pressed_state, is_shifted, is_alted, is_ctrled, is_caps_locked}
          \subseteq BOOLEAN
    BY Zenon DEF Init
  <2>2. {fresh, tmp_fresh, taken, called} \subseteq 0 .. Len(typed)
    BY <1>1 DEF Init
  <2>3. scans \in 0 .. MaxScans /\ pc \in {"away", "load", "clear"}
    BY MaxScansAssumption DEF Init
  <2> QED
    BY <1>1, <1>2, <2>1, <2>2, <2>3, Zenon DEF TypeOK
<1>4. Undelivered
  BY DEF Init, Undelivered
<1> QED
  BY <1>3, <1>4 DEF KeyboardInv

LEMMA InductiveStep == KeyboardInv /\ [Next]_vars => KeyboardInv'
<1> SUFFICES ASSUME KeyboardInv, [Next]_vars PROVE KeyboardInv'
  OBVIOUS
<1> USE NULIsChar, MaxScansAssumption DEF KeyboardInv, TypeOK
<1>1. ASSUME NEW s \in ScanCodes, Interrupt(s) PROVE KeyboardInv'
  <2> USE <1>1 DEF Interrupt
  <2>1. PICK c \in Chars : Deliver(c)
    BY ToCharacterType
  <2>2. {is_shifted', is_alted', is_ctrled', is_caps_locked',
         char_pressed_state'} \subseteq BOOLEAN
    BY DEF ModifierKey
  <2>3. most_recent_char' \in Chars /\ scans' \in 0 .. MaxScans
    BY <2>1 DEF Deliver
  <2>4. CASE c = NUL
    BY <2>1, <2>2, <2>3, <2>4 DEF Deliver, reader, Undelivered
  <2>5. CASE c # NUL
    <3>1. /\ typed' \in Seq(Chars)
          /\ Len(typed') = Len(typed) + 1
          /\ typed'[Len(typed) + 1] = c
          /\ \A i \in 1 .. Len(typed) : typed'[i] = typed[i]
      BY <2>1, <2>5 DEF Deliver
    <3>2. TypeOK'
      BY <2>1, <2>2, <2>3, <2>5, <3>1 DEF Deliver, reader
    <3>3. Undelivered'
      BY <2>1, <2>5, <3>1 DEF Deliver, reader, Undelivered
    <3> QED
      BY <3>2, <3>3
  <2> QED
    BY <2>4, <2>5
<1>2. CASE Call
  BY <1>2 DEF Call, mailbox, modifiers, Undelivered
<1>3. CASE Load
  BY <1>3 DEF Load, mailbox, modifiers, Undelivered
<1>4. CASE ClearAgain
  BY <1>4 DEF ClearAgain, Invalidate, modifiers, Undelivered
<1>5. CASE ClearReturn
  BY <1>5 DEF ClearReturn, Invalidate, modifiers, Undelivered
<1>6. CASE UNCHANGED vars
  BY <1>6 DEF vars, mailbox, modifiers, reader, Undelivered
<1> QED
  BY <1>1, <1>2, <1>3, <1>4, <1>5, <1>6 DEF Next, Step

\* The inductive invariant holds in every behaviour.
THEOREM KeyboardInvariant == Spec => []KeyboardInv
BY InductiveInit, InductiveStep, PTL DEF Spec

\* Every variable keeps its type.
THEOREM KeyboardTypeCorrect == Spec => []TypeOK
<1>1. KeyboardInv => TypeOK
  BY DEF KeyboardInv
<1> QED
  BY <1>1, KeyboardInvariant, PTL

\* getchark returns what was typed, in the order in which it was typed, and no
\* character twice, wherever interrupts fall between its load and its clear.
THEOREM ReaderKeepsPromise == Spec => Refines
<1>1. Init => Promise!Init
  BY DEF Init, Promise!Init
<1>2. KeyboardInv /\ [Next]_vars => [Promise!Next]_<<typed, taken, got>>
  <2> SUFFICES ASSUME KeyboardInv, [Next]_vars
               PROVE  [Promise!Next]_<<typed, taken, got>>
    OBVIOUS
  <2>1. ASSUME NEW s \in ScanCodes, Interrupt(s)
        PROVE  [Promise!Next]_<<typed, taken, got>>
    <3>1. to_character(s) \in Chars
      BY ToCharacterType
    <3> QED
      BY <2>1, <3>1 DEF Interrupt, Deliver, reader, Promise!Next, Promise!Type
  <2>2. CASE ClearReturn
    <3>1. tmp_fresh \in 1 .. Len(typed)
      BY <2>2 DEF ClearReturn, KeyboardInv, TypeOK, Undelivered
    <3> QED
      BY <2>2, <3>1
      DEF ClearReturn, KeyboardInv, Undelivered, Promise!Next, Promise!Take
  <2>3. CASE Call \/ Load \/ ClearAgain \/ UNCHANGED vars
    BY <2>3 DEF Call, Load, ClearAgain, vars, reader
  <2> QED
    BY <2>1, <2>2, <2>3 DEF Next, Step
<1> QED
  BY <1>1, <1>2, KeyboardInvariant, PTL DEF Spec, Refines, Promise!Spec
=============================================================================
