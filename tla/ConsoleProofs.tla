---------------------------- MODULE ConsoleProofs ---------------------------
(***************************************************************************)
(* What print_char keeps between vga_index, next_line_index and the cells  *)
(* of the screen, for a screen of any size and any set of glyphs.          *)
(***************************************************************************)
EXTENDS Console, SequenceTheorems, TLAPS

Rows == Seq(Seq(Glyphs))

-----------------------------------------------------------------------------
(***************************************************************************)
(* Places on the screen.                                                   *)
(***************************************************************************)

LEMMA MulType == \A m, n \in Nat : m * n \in Nat
OBVIOUS

LEMMA MulMonotonic == \A m, n, w \in Nat : m <= n => m * w <= n * w
OBVIOUS

LEMMA MulPlusOne == \A m, w \in Nat : (m + 1) * w = m * w + w
OBVIOUS

LEMMA MulCommutes == \A m, n \in Nat : m * n = n * m
OBVIOUS

LEMMA Division ==
    \A k \in Nat, w \in Nat \ {0} :
        /\ k \div w \in Nat /\ k % w \in 0 .. (w - 1)
        /\ k = (k \div w) * w + (k % w)
OBVIOUS

LEMMA DivisionUnique ==
    ASSUME NEW w \in Nat \ {0}, NEW p \in Nat, NEW q \in Nat,
           NEW r \in 0 .. (w - 1), NEW s \in 0 .. (w - 1),
           p * w + r = q * w + s
    PROVE  p = q /\ r = s
OBVIOUS

LEMMA Sizes ==
    /\ VGA_WIDTH \in Nat \ {0} /\ VGA_LENGTH \in Nat /\ VGA_LENGTH >= 2
    /\ KIO_TABSIZE \in Nat
BY SizeAssumption

LEMMA ScreenSize ==
    /\ VGA_WIDTH * VGA_LENGTH \in Nat
    /\ VGA_WIDTH * VGA_LENGTH = VGA_LENGTH * VGA_WIDTH
    /\ VGA_WIDTH * VGA_LENGTH < 65536
    /\ VGA_LENGTH < 65536
<1>1. VGA_WIDTH \in Nat /\ VGA_LENGTH \in Nat
  BY Sizes
<1>2. VGA_WIDTH * VGA_LENGTH \in Nat /\ VGA_WIDTH * VGA_LENGTH = VGA_LENGTH * VGA_WIDTH
  BY <1>1, MulType, MulCommutes
<1>3. VGA_WIDTH * VGA_LENGTH < 65536
  BY SizeAssumption
<1>4. 1 * VGA_LENGTH <= VGA_WIDTH * VGA_LENGTH
  <2>1. 1 \in Nat /\ 1 <= VGA_WIDTH
    BY Sizes
  <2> QED BY <1>1, <2>1, MulMonotonic
<1>5. 1 * VGA_LENGTH = VGA_LENGTH
  BY <1>1
<1> QED BY <1>1, <1>2, <1>3, <1>4, <1>5

\* The place at a row and a column, and which of them are on the screen.
LEMMA PlaceOf ==
    ASSUME NEW q \in Nat, NEW r \in 0 .. (VGA_WIDTH - 1)
    PROVE  /\ q * VGA_WIDTH \in Nat
           /\ q * VGA_WIDTH + r \in Nat
           /\ (q * VGA_WIDTH + r) \div VGA_WIDTH = q
           /\ (q * VGA_WIDTH + r) % VGA_WIDTH = r
           /\ q * VGA_WIDTH + r \in Cells <=> q < VGA_LENGTH
<1>1. VGA_WIDTH \in Nat \ {0} /\ VGA_LENGTH \in Nat /\ r \in Nat /\ r < VGA_WIDTH
  BY Sizes
<1>2. q * VGA_WIDTH \in Nat
  BY <1>1, MulType
<1>3. q * VGA_WIDTH + r \in Nat
  BY <1>1, <1>2
<1> DEFINE k == q * VGA_WIDTH + r
           d == k \div VGA_WIDTH
           m == k % VGA_WIDTH
<1>4. d \in Nat /\ m \in 0 .. (VGA_WIDTH - 1) /\ k = d * VGA_WIDTH + m
  BY <1>1, <1>3, Division
<1>5. d = q /\ m = r
  <2>1. d * VGA_WIDTH + m = q * VGA_WIDTH + r
    BY <1>4
  <2> HIDE DEF d, m, k
  <2> QED BY <1>1, <1>4, <2>1, DivisionUnique
<1>6. ASSUME q < VGA_LENGTH
      PROVE  q * VGA_WIDTH + r < VGA_LENGTH * VGA_WIDTH
  <2>1. (q + 1) * VGA_WIDTH <= VGA_LENGTH * VGA_WIDTH
    <3>1. q + 1 \in Nat /\ q + 1 <= VGA_LENGTH
      BY <1>1, <1>6
    <3> QED BY <1>1, <3>1, MulMonotonic
  <2>2. (q + 1) * VGA_WIDTH = q * VGA_WIDTH + VGA_WIDTH
    BY <1>1, MulPlusOne
  <2>3. VGA_LENGTH * VGA_WIDTH \in Nat
    BY <1>1, MulType
  <2> QED BY <1>1, <1>2, <2>1, <2>2, <2>3
<1>7. ASSUME ~(q < VGA_LENGTH)
      PROVE  q * VGA_WIDTH + r >= VGA_LENGTH * VGA_WIDTH
  <2>1. VGA_LENGTH * VGA_WIDTH <= q * VGA_WIDTH
    <3>1. VGA_LENGTH <= q
      BY <1>1, <1>7
    <3> QED BY <1>1, <3>1, MulMonotonic
  <2>2. VGA_LENGTH * VGA_WIDTH \in Nat
    BY <1>1, MulType
  <2> QED BY <1>1, <1>2, <2>1, <2>2
<1>8. k \in Cells <=> q < VGA_LENGTH
  <2>1. k \in Cells <=> k < VGA_LENGTH * VGA_WIDTH
    <3> HIDE DEF k
    <3> QED BY <1>3, ScreenSize DEF Cells, k
  <2>2. CASE q < VGA_LENGTH
    BY <1>6, <2>1, <2>2
  <2>3. CASE ~(q < VGA_LENGTH)
    BY <1>1, <1>2, <1>7, <2>1, <2>3, ScreenSize
  <2> QED BY <2>2, <2>3
<1> QED BY <1>2, <1>3, <1>5, <1>8

\* The row and the column of a cell, and of the cell below.
LEMMA CellFacts ==
    ASSUME NEW k \in Cells
    PROVE  /\ k \in Nat
           /\ k \div VGA_WIDTH \in 0 .. (VGA_LENGTH - 1)
           /\ k % VGA_WIDTH \in 0 .. (VGA_WIDTH - 1)
           /\ k = (k \div VGA_WIDTH) * VGA_WIDTH + (k % VGA_WIDTH)
           /\ (k + VGA_WIDTH) \div VGA_WIDTH = (k \div VGA_WIDTH) + 1
           /\ (k + VGA_WIDTH) % VGA_WIDTH = k % VGA_WIDTH
           /\ k + VGA_WIDTH \in Cells <=> k \div VGA_WIDTH < VGA_LENGTH - 1
<1>1. k \in Nat
  BY DEF Cells
<1> DEFINE q == k \div VGA_WIDTH
           r == k % VGA_WIDTH
<1>2. q \in Nat /\ r \in 0 .. (VGA_WIDTH - 1) /\ k = q * VGA_WIDTH + r
  BY <1>1, Sizes, Division
<1> HIDE DEF q, r
<1>3. q < VGA_LENGTH
  BY <1>2, PlaceOf
<1>4. k + VGA_WIDTH = (q + 1) * VGA_WIDTH + r /\ q + 1 \in Nat
  <2>1. VGA_WIDTH \in Nat /\ r \in Nat
    BY <1>2, Sizes
  <2>2. q * VGA_WIDTH \in Nat
    BY <1>2, <2>1, MulType
  <2>3. (q + 1) * VGA_WIDTH = q * VGA_WIDTH + VGA_WIDTH
    BY <1>2, <2>1, MulPlusOne
  <2> QED BY <1>2, <2>1, <2>2, <2>3
<1>5. /\ (k + VGA_WIDTH) \div VGA_WIDTH = q + 1
      /\ (k + VGA_WIDTH) % VGA_WIDTH = r
      /\ k + VGA_WIDTH \in Cells <=> q + 1 < VGA_LENGTH
  BY <1>2, <1>4, PlaceOf
<1>6. q \in 0 .. (VGA_LENGTH - 1) /\ (q + 1 < VGA_LENGTH <=> q < VGA_LENGTH - 1)
  BY <1>2, <1>3, Sizes
<1> QED BY <1>1, <1>2, <1>5, <1>6 DEF q, r

\* A number of 16 bits.
LEMMA Word == /\ \A n \in Nat : n < 65536 => UInt16(n) = n
              /\ \A n \in Int : UInt16(n) \in UInt16s
              /\ UInt16s \subseteq Nat
<1>1. \A n \in Nat : n < 65536 => UInt16(n) = n
  BY DEF UInt16
<1>2. \A n \in Int : UInt16(n) \in UInt16s
  BY DEF UInt16, UInt16s
<1>3. UInt16s \subseteq Nat
  BY DEF UInt16s
<1> QED BY <1>1, <1>2, <1>3

-----------------------------------------------------------------------------
(***************************************************************************)
(* The text.                                                               *)
(***************************************************************************)

\* A new line adds an empty row, below the last ones that fit.
LEMMA NewLineRows ==
    ASSUME NEW rows \in Rows, Len(rows) \in 1 .. VGA_LENGTH
    PROVE  LET new == WithNewLine(rows)
           IN /\ new \in Rows
              /\ new[Len(new)] = << >>
              /\ Len(rows) < VGA_LENGTH =>
                     /\ Len(new) = Len(rows) + 1
                     /\ \A y \in 1 .. Len(rows) : new[y] = rows[y]
              /\ Len(rows) = VGA_LENGTH =>
                     /\ Len(new) = VGA_LENGTH
                     /\ \A y \in 1 .. (VGA_LENGTH - 1) : new[y] = rows[y + 1]
<1> DEFINE longer == Append(rows, << >>)
<1>1. /\ longer \in Rows
      /\ Len(longer) = Len(rows) + 1
      /\ longer[Len(rows) + 1] = << >>
      /\ \A y \in 1 .. Len(rows) : longer[y] = rows[y]
  <2>1. << >> \in Seq(Glyphs)
    OBVIOUS
  <2> QED BY <2>1 DEF Rows
<1> HIDE DEF longer
<1>2. CASE Len(rows) < VGA_LENGTH
  <2>1. WithNewLine(rows) = longer
    BY <1>1, <1>2, Sizes DEF WithNewLine, Visible, longer
  <2> QED BY <1>1, <1>2, <2>1
<1>3. CASE Len(rows) = VGA_LENGTH
  <2>1. WithNewLine(rows) = SubSeq(longer, 2, VGA_LENGTH + 1)
    BY <1>1, <1>3, Sizes DEF WithNewLine, Visible, longer
  <2>2. /\ SubSeq(longer, 2, VGA_LENGTH + 1) \in Rows
        /\ Len(SubSeq(longer, 2, VGA_LENGTH + 1)) = VGA_LENGTH
        /\ \A y \in 1 .. VGA_LENGTH :
               SubSeq(longer, 2, VGA_LENGTH + 1)[y] = longer[y + 1]
    BY <1>1, <1>3, Sizes, SubSeqProperties DEF Rows
  <2> HIDE DEF longer
  <2>3. \A y \in 1 .. (VGA_LENGTH - 1) : longer[y + 1] = rows[y + 1]
    BY <1>1, <1>3, Sizes
  <2> QED BY <1>1, <1>3, <2>1, <2>2, <2>3, Sizes
<1> QED BY <1>2, <1>3, Sizes

\* The rows with one more glyph in the last.
Longer(rows, c) == Append(Front(rows), Append(Last(rows), c))

LEMMA LongerRows ==
    ASSUME NEW rows \in Rows, Len(rows) \in 1 .. VGA_LENGTH, NEW c \in Glyphs
    PROVE  LET new == Longer(rows, c)
           IN /\ new \in Rows
              /\ Len(new) = Len(rows)
              /\ \A y \in 1 .. (Len(rows) - 1) : new[y] = rows[y]
              /\ new[Len(rows)] = Append(Last(rows), c)
<1>1. Last(rows) \in Seq(Glyphs) /\ Append(Last(rows), c) \in Seq(Glyphs)
  BY DEF Rows, Last
<1>2. /\ Front(rows) \in Rows /\ Len(Front(rows)) = Len(rows) - 1
      /\ \A y \in 1 .. (Len(rows) - 1) : Front(rows)[y] = rows[y]
  <2>1. rows \in Seq(Seq(Glyphs)) /\ Len(rows) \in Nat /\ 1 <= Len(rows)
    BY DEF Rows
  <2> DEFINE m == Len(rows) - 1
  <2>2. 1 \in 1 .. Len(rows) + 1 /\ m \in (1 - 1) .. Len(rows)
    BY <2>1
  <2>3. /\ SubSeq(rows, 1, m) \in Seq(Seq(Glyphs))
        /\ Len(SubSeq(rows, 1, m)) = (IF 1 <= m THEN m - 1 + 1 ELSE 0)
        /\ \A y \in 1 .. m - 1 + 1 : SubSeq(rows, 1, m)[y] = rows[1 + y - 1]
    BY <2>1, <2>2, SubSeqProperties
  <2>4. Front(rows) = SubSeq(rows, 1, m)
    BY DEF Front
  <2>5. m \in Nat
    BY <2>1
  <2> HIDE DEF m
  <2>6. (IF 1 <= m THEN m - 1 + 1 ELSE 0) = m /\ m - 1 + 1 = m
    BY <2>5
  <2>7. \A y \in 1 .. m : 1 + y - 1 = y
    BY <2>5
  <2> QED BY <2>3, <2>4, <2>5, <2>6, <2>7 DEF Rows, m
<1> QED BY <1>1, <1>2 DEF Longer, Rows

\* The text begins with one empty row.
LEMMA FreshText ==
    /\ << << >> >> \in Rows /\ Len(<< << >> >>) = 1
    /\ Last(<< << >> >>) = << >> /\ Len(<< >>) = 0
    /\ 1 \in 1 .. VGA_LENGTH /\ 0 < VGA_WIDTH
<1>1. << >> \in Seq(Glyphs)
  OBVIOUS
<1> QED BY <1>1, Sizes DEF Rows, Last

\* The cells hold what is at their places in the rows.
Row(k) == (k \div VGA_WIDTH) + 1
Column(k) == (k % VGA_WIDTH) + 1

InRows(rows, y, x) ==
    IF y <= Len(rows) /\ x <= Len(rows[y]) THEN rows[y][x] ELSE "blank"

Display(s, rows) == \A k \in Cells : s[k] = InRows(rows, Row(k), Column(k))

LEMMA ShowsDisplay == ShowsText <=> (tidy => Display(screen, text))
BY DEF ShowsText, Shows, Display, InRows, Row, Column

LEMMA RowFacts ==
    ASSUME NEW k \in Cells
    PROVE  /\ Row(k) \in Nat /\ Row(k) >= 1 /\ Row(k) <= VGA_LENGTH
           /\ Row(k) - 1 \in Nat
           /\ Column(k) \in Nat /\ Column(k) >= 1 /\ Column(k) <= VGA_WIDTH
           /\ Column(k) - 1 \in 0 .. (VGA_WIDTH - 1)
           /\ k = (Row(k) - 1) * VGA_WIDTH + (Column(k) - 1)
<1> DEFINE q == k \div VGA_WIDTH
           r == k % VGA_WIDTH
<1>1. /\ q \in 0 .. (VGA_LENGTH - 1) /\ r \in 0 .. (VGA_WIDTH - 1)
      /\ k = q * VGA_WIDTH + r
  BY CellFacts
<1>2. Row(k) = q + 1 /\ Column(k) = r + 1
  BY DEF Row, Column
<1> HIDE DEF q, r
<1>3. Row(k) - 1 = q /\ Column(k) - 1 = r
  BY <1>1, <1>2
<1> QED BY <1>1, <1>2, <1>3, Sizes

\* An empty row more is not seen.
LEMMA EmptyRowShows ==
    ASSUME NEW s, NEW rows \in Rows, NEW new \in Rows, Display(s, rows),
           Len(new) = Len(rows) + 1, new[Len(new)] = << >>,
           \A y \in 1 .. Len(rows) : new[y] = rows[y]
    PROVE  Display(s, new)
<1> SUFFICES ASSUME NEW k \in Cells
             PROVE  s[k] = InRows(new, Row(k), Column(k))
  BY DEF Display
<1>1. Row(k) \in Nat /\ Row(k) >= 1 /\ Column(k) \in Nat /\ Column(k) >= 1
  BY RowFacts
<1>2. s[k] = InRows(rows, Row(k), Column(k))
  BY DEF Display
<1>3. Len(rows) \in Nat
  BY DEF Rows
<1>4. CASE Row(k) <= Len(rows)
  <2>1. Row(k) <= Len(new) /\ new[Row(k)] = rows[Row(k)]
    BY <1>1, <1>3, <1>4
  <2> QED BY <1>2, <1>4, <2>1 DEF InRows
<1>5. CASE Row(k) = Len(rows) + 1
  <2>1. new[Row(k)] = << >> /\ ~(Column(k) <= Len(new[Row(k)]))
    BY <1>1, <1>5
  <2>2. ~(Row(k) <= Len(rows))
    BY <1>3, <1>5
  <2> QED BY <1>2, <2>1, <2>2 DEF InRows
<1>6. CASE Row(k) > Len(rows) + 1
  <2>1. ~(Row(k) <= Len(rows)) /\ ~(Row(k) <= Len(new))
    BY <1>1, <1>3, <1>6
  <2> QED BY <1>2, <2>1 DEF InRows
<1> QED BY <1>1, <1>3, <1>4, <1>5, <1>6

\* The glyph is seen where the last row ends.
LEMMA GlyphShows ==
    ASSUME NEW s \in [Cells -> Glyphs \cup {"bios", "blank", "space"}],
           NEW rows \in Rows, Len(rows) \in 1 .. VGA_LENGTH,
           NEW l \in 0 .. (VGA_WIDTH - 1), l = Len(Last(rows)),
           NEW at, at = (Len(rows) - 1) * VGA_WIDTH + l,
           NEW c \in Glyphs, Display(s, rows)
    PROVE  Display([s EXCEPT ![at] = c], Longer(rows, c))
<1> DEFINE new == Longer(rows, c)
           n == Len(rows)
           t == [s EXCEPT ![at] = c]
<1>1. /\ n \in Nat /\ n >= 1 /\ n - 1 \in Nat /\ n <= VGA_LENGTH
      /\ l \in Nat /\ l < VGA_WIDTH
  BY Sizes
<1>2. Last(rows) = rows[n] /\ Last(rows) \in Seq(Glyphs) /\ Len(rows[n]) = l
  BY <1>1 DEF Last, Rows
<1>3. /\ Len(new) = n
      /\ \A y \in 1 .. (n - 1) : new[y] = rows[y]
      /\ Len(new[n]) = l + 1 /\ new[n][l + 1] = c
      /\ \A x \in 1 .. l : new[n][x] = rows[n][x]
  <2>1. /\ Len(new) = n /\ \A y \in 1 .. (n - 1) : new[y] = rows[y]
        /\ new[n] = Append(Last(rows), c)
    BY LongerRows
  <2>2. /\ Len(Append(Last(rows), c)) = l + 1 /\ Append(Last(rows), c)[l + 1] = c
        /\ \A x \in 1 .. l : Append(Last(rows), c)[x] = Last(rows)[x]
    BY <1>2
  <2> QED BY <1>2, <2>1, <2>2
<1> SUFFICES ASSUME NEW k \in Cells
             PROVE  t[k] = InRows(new, Row(k), Column(k))
  BY DEF Display
<1>4. /\ Row(k) \in Nat /\ Row(k) >= 1 /\ Row(k) - 1 \in Nat
      /\ Column(k) \in Nat /\ Column(k) >= 1
      /\ Column(k) - 1 \in 0 .. (VGA_WIDTH - 1)
      /\ k = (Row(k) - 1) * VGA_WIDTH + (Column(k) - 1)
  BY RowFacts
<1>5. s[k] = InRows(rows, Row(k), Column(k))
  BY DEF Display
<1>6. t[k] = IF k = at THEN c ELSE s[k]
  OBVIOUS
<1> HIDE DEF new, t
<1>7. k = at <=> Row(k) = n /\ Column(k) = l + 1
  <2>1. ASSUME k = at PROVE Row(k) - 1 = n - 1 /\ Column(k) - 1 = l
    <3> DEFINE p == Row(k) - 1
               q == n - 1
               r == Column(k) - 1
    <3>1. p * VGA_WIDTH + r = q * VGA_WIDTH + l
      BY <1>4, <2>1
    <3>2. p \in Nat /\ q \in Nat /\ r \in 0 .. (VGA_WIDTH - 1)
      BY <1>1, <1>4
    <3> HIDE DEF p, q, r
    <3>3. p = q /\ r = l
      BY <3>1, <3>2, Sizes, DivisionUnique
    <3> QED BY <3>3 DEF p, q, r
  <2>2. ASSUME Row(k) = n, Column(k) = l + 1 PROVE k = at
    <3>1. Column(k) - 1 = l
      BY <1>1, <2>2
    <3> QED BY <1>4, <2>2, <3>1
  <2>3. Row(k) - 1 = n - 1 /\ Column(k) - 1 = l => Row(k) = n /\ Column(k) = l + 1
    BY <1>1, <1>4
  <2> QED BY <2>1, <2>2, <2>3
<1>8. CASE Row(k) = n
  <2>0. Row(k) <= Len(new) /\ Row(k) <= Len(rows)
    BY <1>1, <1>3, <1>8
  <2>1. CASE Column(k) = l + 1
    <3>1. t[k] = c /\ Column(k) <= Len(new[Row(k)]) /\ new[Row(k)][Column(k)] = c
      BY <1>1, <1>3, <1>6, <1>7, <1>8, <2>1
    <3> QED BY <2>0, <3>1 DEF InRows
  <2>2. CASE Column(k) <= l
    <3>1. t[k] = s[k]
      BY <1>1, <1>4, <1>6, <1>7, <2>2
    <3>2. Column(k) <= Len(new[Row(k)]) /\ Column(k) <= Len(rows[Row(k)])
      BY <1>1, <1>2, <1>3, <1>4, <1>8, <2>2
    <3>3. new[Row(k)][Column(k)] = rows[Row(k)][Column(k)]
      BY <1>1, <1>3, <1>4, <1>8, <2>2
    <3> QED BY <1>5, <2>0, <3>1, <3>2, <3>3 DEF InRows
  <2>3. CASE Column(k) > l + 1
    <3>1. t[k] = s[k]
      BY <1>1, <1>4, <1>6, <1>7, <2>3
    <3>2. ~(Column(k) <= Len(new[Row(k)])) /\ ~(Column(k) <= Len(rows[Row(k)]))
      BY <1>1, <1>2, <1>3, <1>4, <1>8, <2>3
    <3> QED BY <1>5, <3>1, <3>2 DEF InRows
  <2> QED BY <1>1, <1>4, <2>1, <2>2, <2>3
<1>9. CASE Row(k) < n
  <2>1. t[k] = s[k]
    BY <1>1, <1>4, <1>6, <1>7, <1>9
  <2>2. /\ new[Row(k)] = rows[Row(k)]
        /\ Row(k) <= Len(new) /\ Row(k) <= Len(rows)
    BY <1>1, <1>3, <1>4, <1>9
  <2> QED BY <1>5, <2>1, <2>2 DEF InRows
<1>10. CASE Row(k) > n
  <2>1. t[k] = s[k]
    BY <1>1, <1>4, <1>6, <1>7, <1>10
  <2>2. ~(Row(k) <= Len(new)) /\ ~(Row(k) <= Len(rows))
    BY <1>1, <1>3, <1>4, <1>10
  <2> QED BY <1>5, <2>1, <2>2 DEF InRows
<1> QED BY <1>1, <1>4, <1>8, <1>9, <1>10

\* The rows that scroll are seen one line up.
LEMMA ScrollShows ==
    ASSUME NEW rows \in Rows, Len(rows) = VGA_LENGTH, Display(screen, rows)
    PROVE  Display(Scrolled, WithNewLine(rows))
<1> DEFINE new == WithNewLine(rows)
<1>1. /\ Len(new) = VGA_LENGTH /\ new[VGA_LENGTH] = << >>
      /\ \A y \in 1 .. (VGA_LENGTH - 1) : new[y] = rows[y + 1]
  <2>1. Len(rows) \in 1 .. VGA_LENGTH
    BY Sizes
  <2> QED BY <2>1, NewLineRows
<1> HIDE DEF new
<1> SUFFICES ASSUME NEW k \in Cells
             PROVE  Scrolled[k] = InRows(new, Row(k), Column(k))
  BY DEF Display, new
<1>2. /\ Row(k) \in Nat /\ Row(k) >= 1 /\ Row(k) <= VGA_LENGTH
      /\ Column(k) \in Nat /\ Column(k) >= 1
  BY RowFacts
<1>3. Scrolled[k] = IF k + VGA_WIDTH \in Cells THEN screen[k + VGA_WIDTH]
                    ELSE "blank"
  BY DEF Scrolled
<1>4. /\ k \div VGA_WIDTH \in Nat
      /\ Row(k + VGA_WIDTH) = Row(k) + 1 /\ Column(k + VGA_WIDTH) = Column(k)
      /\ k + VGA_WIDTH \in Cells <=> Row(k) < VGA_LENGTH
  <2>1. /\ k \div VGA_WIDTH \in 0 .. (VGA_LENGTH - 1)
        /\ (k + VGA_WIDTH) \div VGA_WIDTH = (k \div VGA_WIDTH) + 1
        /\ (k + VGA_WIDTH) % VGA_WIDTH = k % VGA_WIDTH
        /\ k + VGA_WIDTH \in Cells <=> k \div VGA_WIDTH < VGA_LENGTH - 1
    BY CellFacts
  <2>2. k \div VGA_WIDTH < VGA_LENGTH - 1 <=> (k \div VGA_WIDTH) + 1 < VGA_LENGTH
    BY <2>1, Sizes
  <2> QED BY <2>1, <2>2 DEF Row, Column
<1>5. CASE Row(k) < VGA_LENGTH
  <2>1. screen[k + VGA_WIDTH] = InRows(rows, Row(k) + 1, Column(k))
    BY <1>4, <1>5 DEF Display
  <2>2. new[Row(k)] = rows[Row(k) + 1] /\ Row(k) <= Len(new) /\ Row(k) + 1 <= Len(rows)
    BY <1>1, <1>2, <1>5, Sizes
  <2> QED BY <1>3, <1>4, <1>5, <2>1, <2>2 DEF InRows
<1>6. CASE Row(k) = VGA_LENGTH
  <2>1. Scrolled[k] = "blank"
    BY <1>2, <1>3, <1>4, <1>6, Sizes
  <2>2. ~(Column(k) <= Len(new[Row(k)]))
    BY <1>1, <1>2, <1>6
  <2> QED BY <2>1, <2>2 DEF InRows
<1> QED BY <1>2, <1>5, <1>6, Sizes

-----------------------------------------------------------------------------
(***************************************************************************)
(* The steps.                                                              *)
(***************************************************************************)

ScreenType == [Cells -> Glyphs \cup {"bios", "blank", "space"}]

\* TypeOK, and the text.
ConsoleTyped ==
    /\ mapped \in BOOLEAN /\ stray \in BOOLEAN /\ tidy \in BOOLEAN
    /\ screen \in ScreenType
    /\ vga_index \in UInt16s /\ next_line_index \in UInt16s /\ cursor \in UInt16s
    /\ text \in Rows /\ Len(text) \in 1 .. VGA_LENGTH
    /\ Len(Last(text)) < VGA_WIDTH

\* Where the text is tidy, there is a buffer, and the indices agree with it.
Tidy ==
    /\ mapped /\ ~stray
    /\ vga_index = (Len(text) - 1) * VGA_WIDTH + Len(Last(text))
    /\ next_line_index = Len(text)
    /\ Display(screen, text)

ConsoleInv == ConsoleTyped /\ (tidy => Tidy)

LEMMA UInt16Type == \A n \in Int : UInt16(n) \in UInt16s
BY Word

LEMMA UInt16sNat == UInt16s \subseteq Nat
BY Word

LEMMA SmallFits == \A n \in Nat : n < 65536 => n \in UInt16s
<1> SUFFICES ASSUME NEW n \in Nat, n < 65536 PROVE n \in UInt16s
  OBVIOUS
<1>1. UInt16(n) = n /\ UInt16(n) \in UInt16s
  BY Word
<1> QED BY <1>1

LEMMA CursorType ==
    ASSUME vga_index' \in UInt16s, next_line_index' \in UInt16s, update_cursor
    PROVE  cursor' \in UInt16s
<1>1. vga_index' \in Nat /\ next_line_index' \in Nat
  BY Word
<1>2. vga_index' % VGA_WIDTH \in Nat
  <2>1. vga_index' % VGA_WIDTH \in 0 .. (VGA_WIDTH - 1)
    BY <1>1, Sizes, Division
  <2> QED BY <2>1, Sizes
<1>3. UInt16(next_line_index' - 1) \in Nat
  <2>1. next_line_index' - 1 \in Int
    BY <1>1
  <2>2. UInt16(next_line_index' - 1) \in UInt16s
    BY <2>1, UInt16Type
  <2> QED BY <2>2, UInt16sNat
<1>4. UInt16(next_line_index' - 1) * VGA_WIDTH \in Nat
  BY <1>3, Sizes, MulType
<1>5. UInt16(next_line_index' - 1) * VGA_WIDTH + (vga_index' % VGA_WIDTH) \in Int
  BY <1>2, <1>4
<1> QED BY <1>5, UInt16Type DEF update_cursor

LEMMA StoreType ==
    ASSUME screen \in ScreenType, NEW n, NEW e \in Glyphs \cup {"space"}, Store(n, e)
    PROVE  screen' \in ScreenType /\ stray' \in BOOLEAN
<1>1. CASE mapped /\ n \in Cells
  <2>1. screen' = [screen EXCEPT ![n] = e] /\ stray' = FALSE
    BY <1>1 DEF Store
  <2> QED BY <2>1 DEF ScreenType
<1>2. CASE ~(mapped /\ n \in Cells)
  <2>1. screen' = screen /\ stray' = TRUE
    BY <1>2 DEF Store
  <2> QED BY <2>1
<1> QED BY <1>1, <1>2

LEMMA UntidyText ==
    ASSUME Untidy
    PROVE  /\ tidy' = FALSE
           /\ text' \in Rows /\ Len(text') \in 1 .. VGA_LENGTH
           /\ Len(Last(text')) < VGA_WIDTH
BY FreshText DEF Untidy

LEMMA InitConsole == Init => ConsoleInv
<1> SUFFICES ASSUME Init PROVE ConsoleInv
  OBVIOUS
<1>1. screen \in ScreenType
  BY DEF Init, ScreenType
<1>2. 0 \in UInt16s /\ 1 \in UInt16s
  BY DEF UInt16s
<1> QED BY <1>1, <1>2, FreshText DEF Init, ConsoleInv, ConsoleTyped

LEMMA InitVgaKeeps == ConsoleInv /\ InitVga => ConsoleInv'
<1> SUFFICES ASSUME ConsoleInv, InitVga PROVE ConsoleInv'
  OBVIOUS
<1>1. ~tidy /\ ~tidy'
  BY DEF InitVga, ConsoleInv, Tidy
<1>2. screen' \in ScreenType
  BY DEF InitVga, Cleared, ScreenType
<1> QED BY <1>1, <1>2 DEF InitVga, ConsoleInv, ConsoleTyped

LEMMA ClearedShows == Display(Cleared, << << >> >>)
<1> SUFFICES ASSUME NEW k \in Cells
             PROVE  Cleared[k] = InRows(<< << >> >>, Row(k), Column(k))
  BY DEF Display
<1>1. Row(k) \in Nat /\ Row(k) >= 1 /\ Column(k) \in Nat /\ Column(k) >= 1
  BY RowFacts
<1>2. Row(k) <= 1 => ~(Column(k) <= Len(<< << >> >>[Row(k)]))
  BY <1>1
<1> QED BY <1>2 DEF InRows, Cleared

LEMMA ResetKeeps == ConsoleInv /\ ResetVideoMemory => ConsoleInv'
<1> SUFFICES ASSUME ConsoleInv, ResetVideoMemory PROVE ConsoleInv'
  OBVIOUS
<1>1. screen' \in ScreenType
  BY DEF ResetVideoMemory, Cleared, ScreenType
<1>2. 0 \in UInt16s /\ 1 \in UInt16s
  BY DEF UInt16s
<1>3. ConsoleTyped'
  BY <1>1, <1>2, FreshText DEF ResetVideoMemory, ConsoleInv, ConsoleTyped
<1>4. Tidy'
  <2>1. 0 = (1 - 1) * VGA_WIDTH + 0
    BY Sizes
  <2> QED BY <2>1, FreshText, ClearedShows DEF ResetVideoMemory, Tidy
<1> QED BY <1>3, <1>4 DEF ConsoleInv

LEMMA NulKeeps == ConsoleInv /\ PrintNul => ConsoleInv'
<1> SUFFICES ASSUME ConsoleInv, PrintNul PROVE ConsoleInv'
  OBVIOUS
<1>1. ConsoleTyped'
  BY DEF PrintNul, ConsoleInv, ConsoleTyped
<1>2. Tidy => Tidy'
  BY DEF PrintNul, Tidy
<1>3. tidy' = tidy
  BY DEF PrintNul
<1> QED BY <1>1, <1>2, <1>3 DEF ConsoleInv

LEMMA BackspaceKeeps == ConsoleInv /\ PrintBackspace => ConsoleInv'
<1> SUFFICES ASSUME ConsoleInv, PrintBackspace PROVE ConsoleInv'
  OBVIOUS
<1>1. vga_index' \in UInt16s
  <2>1. vga_index - 1 \in Int
    BY Word DEF ConsoleInv, ConsoleTyped
  <2> QED BY <2>1, UInt16Type DEF PrintBackspace
<1>2. next_line_index' \in UInt16s
  BY DEF PrintBackspace, ConsoleInv, ConsoleTyped
<1>3. screen' \in ScreenType /\ stray' \in BOOLEAN
  BY StoreType DEF PrintBackspace, ConsoleInv, ConsoleTyped
<1>4. cursor' \in UInt16s
  BY <1>1, <1>2, CursorType DEF PrintBackspace
<1> QED BY <1>1, <1>2, <1>3, <1>4, UntidyText
        DEF PrintBackspace, ConsoleInv, ConsoleTyped

LEMMA TabKeeps == ConsoleInv /\ PrintTab => ConsoleInv'
<1> SUFFICES ASSUME ConsoleInv, PrintTab PROVE ConsoleInv'
  OBVIOUS
<1>1. vga_index' \in UInt16s
  <2>1. vga_index + KIO_TABSIZE \in Int
    BY Word, Sizes DEF ConsoleInv, ConsoleTyped
  <2> QED BY <2>1, UInt16Type DEF PrintTab
<1>2. next_line_index' \in UInt16s
  BY DEF PrintTab, ConsoleInv, ConsoleTyped
<1>3. cursor' \in UInt16s
  BY <1>1, <1>2, CursorType DEF PrintTab
<1> QED BY <1>1, <1>2, <1>3, UntidyText DEF PrintTab, ConsoleInv, ConsoleTyped

\* Places in a tidy text.
LEMMA TidyFacts ==
    ASSUME ConsoleTyped
    PROVE  /\ Len(text) \in Nat /\ Len(text) >= 1 /\ Len(text) <= VGA_LENGTH
           /\ Len(text) - 1 \in Nat /\ Len(text) - 1 < VGA_LENGTH
           /\ Len(text) < 65536
           /\ Last(text) \in Seq(Glyphs)
           /\ Len(Last(text)) \in Nat
           /\ Len(Last(text)) \in 0 .. (VGA_WIDTH - 1)
           /\ (Len(text) - 1) * VGA_WIDTH + Len(Last(text)) \in Cells
           /\ (Len(text) - 1) * VGA_WIDTH \in Nat
<1>1. /\ Len(text) \in Nat /\ Len(text) >= 1 /\ Len(text) <= VGA_LENGTH
      /\ Len(text) - 1 \in Nat /\ Len(text) - 1 < VGA_LENGTH
  BY Sizes DEF ConsoleTyped
<1>2. Last(text) \in Seq(Glyphs)
  BY <1>1 DEF ConsoleTyped, Rows, Last
<1>3. Len(Last(text)) \in Nat /\ Len(Last(text)) < VGA_WIDTH
  BY <1>2 DEF ConsoleTyped
<1>4. Len(Last(text)) \in 0 .. (VGA_WIDTH - 1)
  BY <1>3, Sizes
<1>5. /\ (Len(text) - 1) * VGA_WIDTH + Len(Last(text)) \in Cells
      /\ (Len(text) - 1) * VGA_WIDTH \in Nat
  BY <1>1, <1>4, PlaceOf
<1>6. Len(text) < 65536
  BY <1>1, ScreenSize, Sizes
<1> QED BY <1>1, <1>2, <1>3, <1>4, <1>5, <1>6

LEMMA NewLineTyped ==
    ASSUME ConsoleTyped, PrintNewLine
    PROVE  ConsoleTyped'
<1> USE DEF ConsoleTyped
<1>1. /\ vga_index' \in UInt16s /\ next_line_index' \in UInt16s
      /\ screen' \in ScreenType /\ stray' \in BOOLEAN
  <2>1. CASE Scroll
    <3>1. (VGA_LENGTH - 1) * VGA_WIDTH \in UInt16s
      <4> DEFINE q == VGA_LENGTH - 1
                 m == q * VGA_WIDTH
      <4>1. q \in Nat /\ q < VGA_LENGTH /\ 0 \in 0 .. (VGA_WIDTH - 1)
        BY Sizes
      <4> HIDE DEF q
      <4>2. m \in Nat /\ m + 0 \in Cells
        BY <4>1, PlaceOf
      <4> HIDE DEF m
      <4>3. m \in Nat /\ m < 65536
        BY <4>2, ScreenSize DEF Cells
      <4>4. m \in UInt16s
        BY <4>3, SmallFits
      <4> QED BY <4>4 DEF m, q
    <3>2. Scrolled \in ScreenType
      <4>1. ASSUME NEW k \in Cells
            PROVE  Scrolled[k] \in Glyphs \cup {"bios", "blank", "space"}
        BY <4>1 DEF Scrolled, ScreenType
      <4> QED BY <4>1 DEF Scrolled, ScreenType
    <3>3. screen' \in ScreenType
      BY <2>1, <3>2 DEF Scroll
    <3>4. stray' \in BOOLEAN
      BY <2>1, Zenon DEF Scroll
    <3> QED BY <2>1, <3>1, <3>3, <3>4 DEF Scroll
  <2>2. CASE NextLine
    <3>1. next_line_index \in Nat /\ next_line_index + 1 \in Int
      BY Word
    <3>2. VGA_WIDTH * next_line_index \in Int
      <4>1. VGA_WIDTH * next_line_index \in Nat
        BY <3>1, Sizes, MulType
      <4> QED BY <4>1
    <3> QED BY <2>2, <3>1, <3>2, UInt16Type DEF NextLine
  <2> QED BY <2>1, <2>2 DEF PrintNewLine
<1>2. cursor' \in UInt16s
  BY <1>1, CursorType DEF PrintNewLine
<1>3. text' \in Rows /\ Len(text') \in 1 .. VGA_LENGTH /\ Len(Last(text')) < VGA_WIDTH
  <2> DEFINE new == WithNewLine(text)
  <2>1. CASE tidy
    <3>1. text' = new
      BY <2>1 DEF PrintNewLine
    <3>2. new \in Rows /\ new[Len(new)] = << >> /\ Len(new) \in 1 .. VGA_LENGTH
      BY NewLineRows, TidyFacts, Sizes
    <3> HIDE DEF new
    <3> QED BY <3>1, <3>2, FreshText DEF Last
  <2>2. CASE ~tidy
    BY <2>2 DEF PrintNewLine
  <2> QED BY <2>1, <2>2
<1> QED BY <1>1, <1>2, <1>3 DEF PrintNewLine

LEMMA NewLineTidy ==
    ASSUME ConsoleTyped, tidy, Tidy, PrintNewLine
    PROVE  Tidy'
<1> DEFINE n == Len(text)
           new == WithNewLine(text)
<1>1. /\ n \in Nat /\ n >= 1 /\ n <= VGA_LENGTH /\ n < 65536
      /\ text \in Rows /\ n \in 1 .. VGA_LENGTH
  BY TidyFacts DEF ConsoleTyped
<1>2. mapped /\ next_line_index = n /\ Display(screen, text)
  BY DEF Tidy
<1>3. text' = new /\ mapped'
  BY <1>2 DEF PrintNewLine
<1>4. /\ new \in Rows /\ new[Len(new)] = << >>
      /\ n < VGA_LENGTH => /\ Len(new) = n + 1
                           /\ \A y \in 1 .. n : new[y] = text[y]
      /\ n = VGA_LENGTH => Len(new) = VGA_LENGTH
  BY <1>1, NewLineRows
<1> HIDE DEF n, new
<1>5. Last(new) = << >> /\ Len(Last(new)) = 0
  BY <1>4 DEF Last
<1>6. CASE n = VGA_LENGTH
  <2>1. Scroll
    BY <1>1, <1>2, <1>6 DEF PrintNewLine, NextLine, AtBottom
  <2>2. /\ screen' = Scrolled /\ ~stray'
        /\ vga_index' = (VGA_LENGTH - 1) * VGA_WIDTH /\ next_line_index' = n
    BY <1>2, <2>1 DEF Scroll
  <2>3. Display(Scrolled, new)
    BY <1>1, <1>2, <1>6, ScrollShows DEF n, new
  <2>4. Len(new) = VGA_LENGTH
    BY <1>4, <1>6
  <2>5. (VGA_LENGTH - 1) * VGA_WIDTH = (VGA_LENGTH - 1) * VGA_WIDTH + 0
    <3>1. (VGA_LENGTH - 1) * VGA_WIDTH \in Nat
      <4>1. VGA_LENGTH - 1 \in Nat
        BY Sizes
      <4> QED BY <4>1, Sizes, MulType
    <3> QED BY <3>1
  <2> QED BY <1>3, <1>5, <1>6, <2>2, <2>3, <2>4, <2>5 DEF Tidy
<1>7. CASE n < VGA_LENGTH
  <2>1. NextLine
    BY <1>1, <1>2, <1>7, Sizes DEF PrintNewLine, Scroll, AtBottom
  <2>2. n + 1 < 65536 /\ n + 1 \in Nat
    BY <1>1, <1>7, ScreenSize, Sizes
  <2>3. n * VGA_WIDTH \in Nat /\ n * VGA_WIDTH < 65536 /\ VGA_WIDTH * n = n * VGA_WIDTH
    <3>1. VGA_WIDTH * n = n * VGA_WIDTH
      BY <1>1, Sizes, MulCommutes
    <3>2. 0 \in 0 .. (VGA_WIDTH - 1)
      BY Sizes
    <3> DEFINE m == n * VGA_WIDTH
    <3>3. m \in Nat /\ m + 0 \in Cells
      BY <1>1, <1>7, <3>2, PlaceOf
    <3> HIDE DEF m
    <3>4. m < 65536
      BY <3>3, ScreenSize DEF Cells
    <3> QED BY <3>1, <3>3, <3>4 DEF m
  <2>4. vga_index' = n * VGA_WIDTH
    <3>1. vga_index' = UInt16(n * VGA_WIDTH)
      BY <1>2, <2>1, <2>3 DEF NextLine
    <3> QED BY <2>3, <3>1, Word
  <2>5. next_line_index' = n + 1
    <3>1. next_line_index' = UInt16(n + 1)
      BY <1>2, <2>1 DEF NextLine
    <3> QED BY <2>2, <3>1, Word
  <2>6. screen' = screen /\ ~stray'
    BY <2>1 DEF NextLine
  <2>7. Len(new) = n + 1 /\ \A y \in 1 .. n : new[y] = text[y]
    BY <1>4, <1>7
  <2>8. Display(screen, new)
    BY <1>1, <1>2, <1>4, <2>7, EmptyRowShows DEF n
  <2>9. n * VGA_WIDTH = (Len(new) - 1) * VGA_WIDTH + Len(Last(new))
    <3>1. Len(new) - 1 = n
      BY <1>1, <2>7
    <3> QED BY <1>5, <2>3, <3>1
  <2> QED BY <1>3, <2>4, <2>5, <2>6, <2>7, <2>8, <2>9 DEF Tidy
<1> QED BY <1>1, <1>6, <1>7, Sizes

LEMMA GlyphTyped ==
    ASSUME ConsoleTyped, NEW c \in Glyphs, PrintGlyph(c)
    PROVE  ConsoleTyped'
<1> USE DEF ConsoleTyped
<1>1. vga_index' \in UInt16s
  <2>1. vga_index + 1 \in Int
    BY UInt16sNat
  <2> QED BY <2>1, UInt16Type DEF PrintGlyph
<1>2. next_line_index' \in UInt16s
  <2>1. next_line_index + 1 \in Int
    BY UInt16sNat
  <2> QED BY <2>1, UInt16Type DEF PrintGlyph
<1>3. cursor' \in UInt16s
  BY <1>1, <1>2, CursorType DEF PrintGlyph
<1>4. screen' \in ScreenType /\ stray' \in BOOLEAN
  BY StoreType DEF PrintGlyph
<1>5. /\ tidy' \in BOOLEAN
      /\ text' \in Rows /\ Len(text') \in 1 .. VGA_LENGTH /\ Len(Last(text')) < VGA_WIDTH
  <2>1. CASE tidy /\ ~FillsScreen
    <3> DEFINE row == Append(Last(text), c)
               longer == Longer(text, c)
    <3>1. /\ longer \in Rows /\ Len(longer) = Len(text)
          /\ longer[Len(text)] = row
      BY LongerRows
    <3>2. Len(row) \in Nat /\ Len(row) <= VGA_WIDTH
      BY TidyFacts, Sizes
    <3>3. tidy' = TRUE /\ text' = IF Len(row) = VGA_WIDTH THEN WithNewLine(longer)
                                  ELSE longer
      BY <2>1 DEF PrintGlyph, WithGlyph, Longer
    <3> HIDE DEF row, longer
    <3>4. CASE Len(row) = VGA_WIDTH
      <4> DEFINE new == WithNewLine(longer)
      <4>1. new \in Rows /\ new[Len(new)] = << >> /\ Len(new) \in 1 .. VGA_LENGTH
        BY <3>1, NewLineRows, TidyFacts, Sizes
      <4>2. text' = new
        BY <3>3, <3>4
      <4> HIDE DEF new
      <4> QED BY <3>3, <4>1, <4>2, FreshText DEF Last
    <3>5. CASE Len(row) # VGA_WIDTH
      BY <3>1, <3>2, <3>3, <3>5, Sizes DEF Last
    <3> QED BY <3>4, <3>5
  <2>2. CASE ~(tidy /\ ~FillsScreen)
    BY <2>2, UntidyText DEF PrintGlyph
  <2> QED BY <2>1, <2>2
<1> QED BY <1>1, <1>2, <1>3, <1>4, <1>5 DEF PrintGlyph

LEMMA GlyphTidy ==
    ASSUME ConsoleTyped, tidy, Tidy, NEW c \in Glyphs, PrintGlyph(c), tidy'
    PROVE  Tidy'
<1> DEFINE n == Len(text)
           l == Len(Last(text))
           longer == Longer(text, c)
           at == (n - 1) * VGA_WIDTH + l
<1>1. /\ n \in Nat /\ n >= 1 /\ n <= VGA_LENGTH /\ n < 65536 /\ n \in 1 .. VGA_LENGTH
      /\ n - 1 \in Nat /\ text \in Rows
      /\ l \in Nat /\ l < VGA_WIDTH /\ l \in 0 .. (VGA_WIDTH - 1)
      /\ (n - 1) * VGA_WIDTH \in Nat /\ at \in Cells
      /\ Last(text) \in Seq(Glyphs)
  BY TidyFacts, Sizes DEF ConsoleTyped
<1>2. mapped /\ vga_index = at /\ next_line_index = n /\ Display(screen, text)
  BY DEF Tidy
<1>3. ~FillsScreen
  BY DEF PrintGlyph, Untidy
<1>4. Len(Append(Last(text), c)) = l + 1
  BY <1>1
<1>5. text' = IF l + 1 = VGA_WIDTH THEN WithNewLine(longer) ELSE longer
  BY <1>3, <1>4 DEF PrintGlyph, WithGlyph, Longer
<1>6. /\ longer \in Rows /\ Len(longer) = n
      /\ Last(longer) = Append(Last(text), c)
  <2>1. longer \in Rows /\ Len(longer) = n /\ longer[n] = Append(Last(text), c)
    BY <1>1, LongerRows
  <2> HIDE DEF longer
  <2> QED BY <2>1 DEF Last
<1>7. screen' = [screen EXCEPT ![at] = c] /\ ~stray' /\ mapped'
  BY <1>1, <1>2 DEF PrintGlyph, Store
<1>8. Display(screen', longer)
  <2>1. screen \in [Cells -> Glyphs \cup {"bios", "blank", "space"}]
    BY DEF ConsoleTyped, ScreenType
  <2>2. l = Len(Last(text)) /\ at = (Len(text) - 1) * VGA_WIDTH + l
    OBVIOUS
  <2>3. Len(text) \in 1 .. VGA_LENGTH /\ l \in 0 .. (VGA_WIDTH - 1)
    BY <1>1
  <2>4. text \in Rows /\ Display(screen, text)
    BY <1>1, <1>2
  <2> HIDE DEF at, l, n
  <2>5. Display([screen EXCEPT ![at] = c], Longer(text, c))
    BY <2>1, <2>2, <2>3, <2>4, GlyphShows
  <2> QED BY <1>7, <2>5
<1>9. n = VGA_LENGTH => l + 1 < VGA_WIDTH
  BY <1>1, <1>3, Sizes DEF FillsScreen
<1>10. vga_index' = at + 1
  <2>1. at \in Nat /\ at + 1 < 65536
    <3> HIDE DEF at
    <3> QED BY <1>1, ScreenSize DEF Cells
  <2>2. vga_index' = UInt16(at + 1)
    BY <1>2 DEF PrintGlyph
  <2> HIDE DEF at
  <2> QED BY <2>1, <2>2, Word
<1> HIDE DEF n, l, longer
<1>11. CASE l + 1 = VGA_WIDTH
  <2> DEFINE new == WithNewLine(longer)
  <2>1. n < VGA_LENGTH
    BY <1>1, <1>9, <1>11, Sizes
  <2>2. /\ new \in Rows /\ new[Len(new)] = << >>
        /\ Len(new) = n + 1 /\ \A y \in 1 .. n : new[y] = longer[y]
    BY <1>1, <1>6, <2>1, NewLineRows
  <2>3. text' = new
    BY <1>5, <1>11
  <2> HIDE DEF new
  <2>4. Display(screen', new)
    BY <1>6, <1>8, <2>2, EmptyRowShows
  <2>5. at + 1 = n * VGA_WIDTH
    <3>1. n * VGA_WIDTH = (n - 1) * VGA_WIDTH + VGA_WIDTH
      <4> DEFINE p == n - 1
      <4>1. p \in Nat /\ n = p + 1
        BY <1>1
      <4> HIDE DEF p
      <4>2. (p + 1) * VGA_WIDTH = p * VGA_WIDTH + VGA_WIDTH
        BY <4>1, Sizes, MulPlusOne
      <4> QED BY <4>1, <4>2 DEF p
    <3> QED BY <1>1, <1>11, <3>1, Sizes
  <2>6. LineFull
    <3>1. n * VGA_WIDTH \in Nat /\ (n * VGA_WIDTH + 0) % VGA_WIDTH = 0
      <4>1. 0 \in 0 .. (VGA_WIDTH - 1)
        BY Sizes
      <4> QED BY <1>1, <4>1, PlaceOf
    <3> QED BY <1>10, <2>5, <3>1 DEF LineFull
  <2>7. next_line_index' = n + 1
    <3>1. n + 1 \in Nat /\ n + 1 < 65536
      BY <1>1, <2>1, ScreenSize, Sizes
    <3> QED BY <1>2, <2>6, <3>1, Word DEF PrintGlyph
  <2>8. vga_index' = (Len(new) - 1) * VGA_WIDTH + Len(Last(new))
    <3>1. Len(new) - 1 = n /\ Len(Last(new)) = 0
      BY <1>1, <2>2 DEF Last
    <3>2. n * VGA_WIDTH \in Nat
      BY <1>1, Sizes, MulType
    <3> QED BY <1>10, <2>5, <3>1, <3>2
  <2> QED BY <1>7, <2>2, <2>3, <2>4, <2>7, <2>8 DEF Tidy
<1>12. CASE l + 1 # VGA_WIDTH
  <2>1. text' = longer
    BY <1>5, <1>12
  <2>2. l + 1 \in 0 .. (VGA_WIDTH - 1)
    BY <1>1, <1>12, Sizes
  <2>3. at + 1 = (n - 1) * VGA_WIDTH + (l + 1)
    BY <1>1
  <2>4. ~LineFull
    <3> DEFINE p == n - 1
               r == l + 1
    <3>1. (p * VGA_WIDTH + r) % VGA_WIDTH = r
      <4> HIDE DEF p, r
      <4> QED BY <1>1, <2>2, PlaceOf DEF p, r
    <3>2. r # 0
      BY <1>1
    <3> QED BY <1>10, <2>3, <3>1, <3>2 DEF LineFull
  <2>5. next_line_index' = n
    BY <1>2, <2>4 DEF PrintGlyph
  <2>6. Len(Last(longer)) = l + 1
    BY <1>4, <1>6
  <2> QED BY <1>6, <1>7, <1>8, <1>10, <2>1, <2>3, <2>5, <2>6 DEF Tidy
<1> QED BY <1>11, <1>12

-----------------------------------------------------------------------------
LEMMA NextKeeps == ConsoleInv /\ [Next]_vars => ConsoleInv'
<1> SUFFICES ASSUME ConsoleInv, [Next]_vars PROVE ConsoleInv'
  OBVIOUS
<1>1. CASE InitVga
  BY <1>1, InitVgaKeeps
<1>2. CASE ResetVideoMemory
  BY <1>2, ResetKeeps
<1>3. ASSUME NEW c \in Chars, PrintChar(c)
      PROVE  ConsoleInv'
  <2>1. CASE PrintNul
    BY <2>1, NulKeeps
  <2>2. CASE PrintBackspace
    BY <2>2, BackspaceKeeps
  <2>3. CASE PrintTab
    BY <2>3, TabKeeps
  <2>4. CASE PrintNewLine
    <3>1. tidy' = tidy
      BY <2>4 DEF PrintNewLine
    <3> QED BY <2>4, <3>1, NewLineTyped, NewLineTidy DEF ConsoleInv
  <2>5. CASE c \in Glyphs /\ PrintGlyph(c)
    <3>1. tidy' => tidy
      BY <2>5 DEF PrintGlyph, Untidy
    <3> QED BY <2>5, <3>1, GlyphTyped, GlyphTidy DEF ConsoleInv
  <2> QED BY <1>3, <2>1, <2>2, <2>3, <2>4, <2>5 DEF PrintChar
<1>4. CASE UNCHANGED vars
  <2>1. ConsoleTyped'
    BY <1>4 DEF vars, ConsoleInv, ConsoleTyped
  <2>2. (Tidy => Tidy') /\ tidy' = tidy
    BY <1>4 DEF vars, Tidy
  <2> QED BY <2>1, <2>2 DEF ConsoleInv
<1> QED BY <1>1, <1>2, <1>3, <1>4 DEF Next

LEMMA ConsoleInvariant == Spec => []ConsoleInv
BY InitConsole, NextKeeps, PTL DEF Spec

\* The variables have their types; the indices never leave their 16 bits, and
\* no glyph gets into a row of the text that is full.
THEOREM ConsoleTypeCorrect == Spec => []TypeOK
<1>1. ConsoleInv => TypeOK
  BY DEF ConsoleInv, ConsoleTyped, TypeOK, ScreenType
<1> QED BY <1>1, ConsoleInvariant, PTL

\* On a screen of any size print_char writes a tidy text where it belongs,
\* however much has scrolled by: vga_index and next_line_index, which nothing
\* ties together but its branches, go on meaning the same place.
THEOREM ConsoleIndicesAgree == Spec => []IndicesAgree
<1>1. ConsoleInv => IndicesAgree
  BY DEF ConsoleInv, Tidy, IndicesAgree
<1> QED BY <1>1, ConsoleInvariant, PTL

\* The screen shows a tidy text, row by row, its last rows where they are too
\* many: no cell is left over from a row that has scrolled away.
THEOREM ConsoleShowsText == Spec => []ShowsText
<1>1. ConsoleInv => ShowsText
  BY ShowsDisplay DEF ConsoleInv, Tidy
<1> QED BY <1>1, ConsoleInvariant, PTL
=============================================================================
