------------------------------ MODULE Keyboard ------------------------------
(***************************************************************************)
(* The path of a character from the keyboard to its reader: the interrupt  *)
(* handler kbd_irq_handler (util/idt.c) decodes a scan code with           *)
(* to_character and leaves the result in the one-place mailbox             *)
(* most_recent_char (util/ps2_keyboard.c), from which getchark             *)
(* (util/kio.c) polls it.                                                  *)
(*                                                                         *)
(* The handler runs with interrupts off and is one step.  The reader is    *)
(* not protected from it: get_most_recent_char loads the mailbox and       *)
(* clears it in two steps, and an interrupt may fall between them.         *)
(***************************************************************************)
EXTENDS Integers, Sequences

CONSTANTS
    ScanCodes,  \* the bytes the keyboard controller may deliver
    MaxScans    \* bound: interrupts in a behaviour

ASSUME ScanCodesAssumption == ScanCodes \subseteq 0 .. 255
ASSUME MaxScansAssumption == MaxScans \in Nat

VARIABLES
    most_recent_char,
    char_pressed_state,
    is_shifted, is_alted, is_ctrled, is_caps_locked,
    pc,         \* of getchark: "away", "load" or "clear"
    tmp,        \* tmp of get_most_recent_char
    scans,      \* interrupts so far
    typed,      \* history: the characters decoded so far
    fresh,      \* history: index in typed of the character in the mailbox
    tmp_fresh,  \* history: index in typed of the character in tmp
    taken,      \* history: index in typed of the last character returned
    got,        \* history: the characters returned so far
    called      \* history: Len(typed) when getchark was called

modifiers == <<is_shifted, is_alted, is_ctrled, is_caps_locked>>
mailbox == <<most_recent_char, fresh>>
reader == <<pc, tmp, tmp_fresh, taken, got, called>>
vars == <<mailbox, modifiers, char_pressed_state, scans, typed, reader>>

-----------------------------------------------------------------------------
NUL == "NUL"

\* The two switch statements of to_character, by scan code 1, 2, ..., 57.
Plain == <<
    "ESC", "1", "2", "3", "4", "5", "6", "7", "8", "9", "0", "-", "=",
    "BS", "TAB", "q", "w", "e", "r", "t", "y", "u", "i", "o", "p", "[",
    "]", "LF", NUL, "a", "s", "d", "f", "g", "h", "j", "k", "l", ";", "'",
    "BACKTICK", NUL, "\\", "z", "x", "c", "v", "b", "n", "m", ",", ".", "/", NUL,
    NUL, NUL, " " >>

Shifted == <<
    "ESC", "!", "@", "#", "$", "%", "^", "&", "*", "(", ")", "_", "+",
    "BS", "TAB", "Q", "W", "E", "R", "T", "Y", "U", "I", "O", "P", "{",
    "}", "LF", NUL, "A", "S", "D", "F", "G", "H", "J", "K", "L", ":", "\"",
    "~", NUL, "|", "Z", "X", "C", "V", "B", "N", "M", "<", ">", "?", NUL,
    NUL, NUL, " " >>

Chars == {Plain[s] : s \in 1 .. 57} \cup {Shifted[s] : s \in 1 .. 57}

CapsLock == 58
AltDown == 56
AltUp == 184
ShiftDown == 42
ShiftUp == 170
CtrlDown == 29
CtrlUp == 157

\* What to_character returns.  Its table for a modifier's code says NUL; every
\* code without an entry, a key release among them, gives NUL as well.
to_character(s) ==
    IF s \notin 1 .. 57 THEN NUL
    ELSE IF is_shifted = is_caps_locked THEN Plain[s] ELSE Shifted[s]

\* What to_character does to the four flags.
ModifierKey(s) ==
    /\ is_caps_locked' = IF s = CapsLock THEN ~is_caps_locked ELSE is_caps_locked
    /\ is_alted' = (s = AltDown \/ (is_alted /\ s # AltUp))
    /\ is_shifted' = (s = ShiftDown \/ (is_shifted /\ s # ShiftUp))
    /\ is_ctrled' = (s = CtrlDown \/ (is_ctrled /\ s # CtrlUp))

\* add_most_recent_char: the mailbox is overwritten, whatever it holds.
Deliver(c) ==
    /\ most_recent_char' = c
    /\ typed' = IF c = NUL THEN typed ELSE Append(typed, c)
    /\ fresh' = IF c = NUL THEN 0 ELSE Len(typed) + 1

\* Mutants: the mailbox is not emptied; it is given a value nobody tests for.
KeepValid == UNCHANGED mailbox
InvalidateWithEof == most_recent_char' = "EOF" /\ fresh' = 0

\* The clear of get_most_recent_char: the mailbox is emptied, whatever it holds.
Invalidate == most_recent_char' = NUL /\ fresh' = 0

-----------------------------------------------------------------------------
Init ==
    /\ most_recent_char = NUL /\ fresh = 0
    /\ char_pressed_state = FALSE
    /\ is_shifted = FALSE /\ is_alted = FALSE
    /\ is_ctrled = FALSE /\ is_caps_locked = FALSE
    /\ pc = "away" /\ tmp = NUL /\ tmp_fresh = 0
    /\ scans = 0
    /\ typed = << >> /\ taken = 0 /\ got = << >> /\ called = 0

\* kbd_irq_handler with scan code s.
Interrupt(s) ==
    /\ scans < MaxScans
    /\ scans' = scans + 1
    /\ char_pressed_state' = ~char_pressed_state
    /\ ModifierKey(s)
    /\ Deliver(to_character(s))
    /\ UNCHANGED reader

\* Somebody calls getchark.
Call ==
    /\ pc = "away"
    /\ pc' = "load"
    /\ called' = Len(typed)
    /\ UNCHANGED <<mailbox, modifiers, char_pressed_state, scans, typed, tmp,
                   tmp_fresh, taken, got>>

\* Mutant: the mailbox is cleared first and loaded then.
LoadAfterClear ==
    /\ pc = "load"
    /\ Invalidate
    /\ tmp' = NUL
    /\ tmp_fresh' = 0
    /\ pc' = "clear"
    /\ UNCHANGED <<modifiers, char_pressed_state, scans, typed, taken, got,
                   called>>

\* get_most_recent_char up to the load.
Load ==
    /\ pc = "load"
    /\ tmp' = most_recent_char
    /\ tmp_fresh' = fresh
    /\ pc' = "clear"
    /\ UNCHANGED <<mailbox, modifiers, char_pressed_state, scans, typed, taken,
                   got, called>>

\* The store of get_most_recent_char after a load of NUL: getchark goes round.
ClearAgain ==
    /\ pc = "clear"
    /\ tmp = NUL
    /\ Invalidate
    /\ pc' = "load"
    /\ UNCHANGED <<modifiers, char_pressed_state, scans, typed, tmp, tmp_fresh,
                   taken, got, called>>

\* The store of get_most_recent_char after a load of a character: getchark
\* returns it.
ClearReturn ==
    /\ pc = "clear"
    /\ tmp # NUL
    /\ Invalidate
    /\ pc' = "away"
    /\ taken' = tmp_fresh
    /\ got' = Append(got, tmp)
    /\ UNCHANGED <<modifiers, char_pressed_state, scans, typed, tmp, tmp_fresh,
                   called>>

Step == Load \/ ClearAgain \/ ClearReturn

Next == (\E s \in ScanCodes : Interrupt(s)) \/ Call \/ Step

Spec == Init /\ [][Next]_vars

\* getchark is a loop on a CPU that handlers always give back.
FairSpec == Spec /\ WF_vars(Step)

-----------------------------------------------------------------------------
\* The variables have their types, and the indices point into typed.
TypeOK ==
    /\ {most_recent_char, tmp} \subseteq Chars
    /\ {char_pressed_state, is_shifted, is_alted, is_ctrled, is_caps_locked}
          \subseteq BOOLEAN
    /\ pc \in {"away", "load", "clear"}
    /\ {typed, got} \subseteq Seq(Chars)
    /\ scans \in 0 .. MaxScans
    /\ {fresh, tmp_fresh, taken, called} \subseteq 0 .. Len(typed)

\* getchark keeps the promise of InputSpec: however interrupts fall between
\* its load and its clear, it returns what was typed, in order, none twice.
Promise == INSTANCE InputSpec

Refines == Promise!Spec

\* Once the keyboard is quiet, with a character in the mailbox and a reader
\* about to look, getchark returns.
QuietDelivered ==
    scans = MaxScans /\ most_recent_char # NUL /\ pc = "load" ~> pc = "away"

\* "keep waiting to get a char until one comes in, then grab it": a getchark
\* during which a character comes in returns.
GrabsWhatComesIn == pc # "away" /\ Len(typed) > called ~> pc = "away"
=============================================================================
