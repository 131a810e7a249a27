------------------------------- MODULE Console ------------------------------
(***************************************************************************)
(* The text console of util/kio.c: print_char writes glyphs to the video   *)
(* memory at vga_index, next_line_index counts the lines begun, and        *)
(* print_new_line scrolls once the last line of the screen has begun.      *)
(* Colours are left out: they are set once.                                *)
(*                                                                         *)
(* The history variable text is what a reader should see: the rows of the  *)
(* text printed since the screen was last cleared, a row that is full      *)
(* being followed by the next.  It is kept as long as the text is tidy.    *)
(***************************************************************************)
EXTENDS Integers, SequencesExt

CONSTANTS
    VGA_WIDTH, VGA_LENGTH,
    KIO_TABSIZE,
    Chars,      \* what is printed: glyphs, "NL", "TAB", "BS" and "NUL"
    MaxIndex,   \* bound: nothing is printed with vga_index at or above it
    MaxLine     \* bound: nor with next_line_index above it

ASSUME SizeAssumption ==
    /\ {VGA_WIDTH, VGA_LENGTH, KIO_TABSIZE, MaxIndex, MaxLine} \subseteq Nat \ {0}
    /\ VGA_LENGTH >= 2
    /\ VGA_WIDTH * VGA_LENGTH < 65536

VARIABLES
    mapped,             \* vga_buffer points to the video memory, not to NULL
    screen,             \* the cells of the video memory that are shown
    vga_index,
    next_line_index,
    cursor,             \* the cell update_cursor put the cursor on
    stray,              \* the last step wrote to memory that is not shown
    tidy, text          \* history

vars == <<mapped, screen, vga_index, next_line_index, cursor, stray, tidy, text>>

-----------------------------------------------------------------------------
Cells == 0 .. (VGA_WIDTH * VGA_LENGTH - 1)

\* Mutant: an int.
PlainInt(n) == n

UInt16(n) == n % 65536

\* What 16 bits hold.
UInt16s == {n \in Nat : n < 65536}

Glyphs == Chars \ {"NL", "TAB", "BS", "NUL"}

\* clear_vga_buffer: every cell is vga_entry(0).
Cleared == [k \in Cells |-> "blank"]

\* Mutant: the last line is not blanked.
ScrolledOnly ==
    [k \in Cells |-> IF k + VGA_WIDTH \in Cells THEN screen[k + VGA_WIDTH]
                     ELSE screen[k]]

\* scroll_vga_buffer.
Scrolled ==
    [k \in Cells |-> IF k + VGA_WIDTH \in Cells THEN screen[k + VGA_WIDTH]
                     ELSE "blank"]

\* The store vga_buffer[i] = e.
Store(i, e) ==
    IF mapped /\ i \in Cells
    THEN screen' = [screen EXCEPT ![i] = e] /\ stray' = FALSE
    ELSE UNCHANGED screen /\ stray' = TRUE

\* update_cursor, with the arguments all its callers pass.
update_cursor ==
    cursor' = UInt16(UInt16(next_line_index' - 1) * VGA_WIDTH
                     + (vga_index' % VGA_WIDTH))

\* Mutant: one line too late.
BelowBottom == next_line_index > VGA_LENGTH

\* print_new_line scrolls instead of going to the next line.
AtBottom == next_line_index >= VGA_LENGTH

\* print_char: the glyph just written filled its line.
LineFull == vga_index' % VGA_WIDTH = 0

-----------------------------------------------------------------------------
\* The text as a reader should see it: the last rows that fit the screen.
Visible(rows) ==
    IF Len(rows) <= VGA_LENGTH THEN rows
    ELSE SubSeq(rows, Len(rows) - VGA_LENGTH + 1, Len(rows))

WithNewLine(rows) == Visible(Append(rows, << >>))

WithGlyph(rows, c) ==
    LET row == Append(Last(rows), c)
        longer == Append(Front(rows), row)
    IN IF Len(row) = VGA_WIDTH THEN WithNewLine(longer) ELSE longer

\* A glyph keeps the text tidy unless it fills the last line of the screen.
FillsScreen ==
    Len(text) = VGA_LENGTH /\ Len(Last(text)) = VGA_WIDTH - 1

Untidy == tidy' = FALSE /\ text' = << << >> >>

\* Cell k holds the character at its place in the text.
Shows(k) ==
    LET y == (k \div VGA_WIDTH) + 1
        x == (k % VGA_WIDTH) + 1
    IN screen[k] = IF y <= Len(text) /\ x <= Len(text[y])
                   THEN text[y][x] ELSE "blank"

-----------------------------------------------------------------------------
\* The kernel starts with what the BIOS left on the screen.
Init ==
    /\ mapped = FALSE
    /\ screen = [k \in Cells |-> "bios"]
    /\ vga_index = 0
    /\ next_line_index = 1
    /\ cursor = 0
    /\ stray = FALSE
    /\ tidy = FALSE
    /\ text = << << >> >>

\* init_vga: the indices stay where earlier prints have left them.
InitVga ==
    /\ ~mapped
    /\ mapped' = TRUE
    /\ screen' = Cleared
    /\ stray' = FALSE
    /\ UNCHANGED <<vga_index, next_line_index, cursor, tidy, text>>

\* reset_video_memory: the cursor stays where it is.
ResetVideoMemory ==
    /\ mapped' = TRUE
    /\ screen' = Cleared
    /\ vga_index' = 0
    /\ next_line_index' = 1
    /\ stray' = FALSE
    /\ tidy' = TRUE
    /\ text' = << << >> >>
    /\ UNCHANGED cursor

\* print_char(0) returns at once.
PrintNul == stray' = FALSE /\ UNCHANGED <<mapped, screen, vga_index,
                                    next_line_index, cursor, tidy, text>>

PrintBackspace ==
    /\ vga_index' = UInt16(vga_index - 1)
    /\ Store(vga_index', "space")
    /\ UNCHANGED <<mapped, next_line_index>>
    /\ update_cursor
    /\ Untidy

PrintTab ==
    /\ vga_index' = UInt16(vga_index + KIO_TABSIZE)
    /\ stray' = FALSE
    /\ UNCHANGED <<mapped, screen, next_line_index>>
    /\ update_cursor
    /\ Untidy

\* print_new_line on the last line of the screen.  The buffer pointer is not
\* tested: unmapped, the scroll moves memory at address 0.
Scroll ==
    /\ AtBottom
    /\ screen' = IF mapped THEN Scrolled ELSE screen
    /\ stray' = ~mapped
    /\ vga_index' = (VGA_LENGTH - 1) * VGA_WIDTH
    /\ UNCHANGED next_line_index

\* print_new_line on any other line.
NextLine ==
    /\ ~AtBottom
    /\ vga_index' = UInt16(VGA_WIDTH * next_line_index)
    /\ next_line_index' = UInt16(next_line_index + 1)
    /\ stray' = FALSE
    /\ UNCHANGED screen

PrintNewLine ==
    /\ Scroll \/ NextLine
    /\ update_cursor
    /\ text' = IF tidy THEN WithNewLine(text) ELSE text
    /\ UNCHANGED <<mapped, tidy>>

PrintGlyph(c) ==
    /\ Store(vga_index, c)
    /\ vga_index' = UInt16(vga_index + 1)
    /\ next_line_index' = IF LineFull THEN UInt16(next_line_index + 1)
                          ELSE next_line_index
    /\ update_cursor
    /\ IF tidy /\ ~FillsScreen
       THEN tidy' = TRUE /\ text' = WithGlyph(text, c)
       ELSE Untidy
    /\ UNCHANGED mapped

\* print_char.
PrintChar(c) ==
    \/ c = "NUL" /\ PrintNul
    \/ c = "BS" /\ PrintBackspace
    \/ c = "TAB" /\ PrintTab
    \/ c = "NL" /\ PrintNewLine
    \/ c \in Glyphs /\ PrintGlyph(c)

InBounds == vga_index < MaxIndex /\ next_line_index <= MaxLine

Next ==
    \/ InitVga
    \/ ResetVideoMemory
    \/ InBounds /\ \E c \in Chars : PrintChar(c)

Spec == Init /\ [][Next]_vars

-----------------------------------------------------------------------------
\* The variables have their types.
TypeOK ==
    /\ {mapped, stray, tidy} \subseteq BOOLEAN
    /\ screen \in [Cells -> Glyphs \cup {"bios", "blank", "space"}]
    /\ {vga_index, next_line_index, cursor} \subseteq UInt16s
    /\ Len(text) \in 1 .. VGA_LENGTH

\* Since it was cleared, glyphs and new lines have been printed and the last
\* line of the screen never been filled: then the screen shows the text, row
\* by row, scrolled so that its last rows are there.
ShowsText == tidy => \A k \in Cells : Shows(k)

\* With such text the next glyph is written where it belongs, and that is on
\* the screen: vga_index and next_line_index agree on the line, and nothing has
\* been written outside the cells, however much has scrolled by.
IndicesAgree ==
    tidy => /\ vga_index = (Len(text) - 1) * VGA_WIDTH + Len(Last(text))
            /\ next_line_index = Len(text)
            /\ ~stray
=============================================================================
