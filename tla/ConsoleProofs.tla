---------------------------- MODULE ConsoleProofs ----------------------------
(***************************************************************************)
(* The console of any size shows the end of what was printed: it           *)
(* implements the roll of paper of module Paper.                           *)
(***************************************************************************)
EXTENDS Console, TLAPS

Char == Glyphs \cup {Blank}

-----------------------------------------------------------------------------
\* Arithmetic of rows and columns.

LEMMA Sizes == W \in Nat /\ H \in Nat /\ W >= 1 /\ H >= 1
BY ConsoleAssumption

\* The row that begins at or before a position, less than a row before it.
LEMMA RowOf ==
    ASSUME NEW p \in Nat, NEW w \in Nat \ {0}, NEW row \in Nat, row * w <= p, p < row * w + w
    PROVE  p \div w = row
BY SMT

LEMMA RowStart ==
    ASSUME NEW w \in Nat \ {0}, NEW row \in Nat
    PROVE  (row * w) % w = 0
<1>1. row * w \in Nat
  BY SMT
<1>2. (row * w) \div w = row
  BY <1>1, RowOf
<1>3. \A p \in Nat : p % w = p - (p \div w) * w
  BY SMT
<1> QED
  BY <1>1, <1>2, <1>3

LEMMA CellOnScreen ==
    ASSUME NEW x \in 0 .. W - 1, NEW y \in 0 .. H - 1
    PROVE  y * W + x \in Cells
<1>1. y * W \in Nat /\ (H - 1 - y) * W \in Nat /\ W * H \in Nat
  BY Sizes
<1>2. (H - 1 - y) * W = W * H - W - y * W
  BY Sizes
<1>3. y * W + x <= W * H - 1
  BY <1>1, <1>2, Sizes
<1> QED
  BY <1>1, <1>3, Sizes DEF Cells

LEMMA NextRow ==
    ASSUME NEW y \in Nat
    PROVE  (y + 1) * W = y * W + W /\ y * W \in Nat
BY Sizes

LEMMA FirstRow == W * H \in Nat /\ W <= W * H /\ \A c \in 0 .. W - 1 : c \in Cells
<1>1. W * H \in Nat /\ W * (H - 1) \in Nat /\ W * H = W * (H - 1) + W
  BY Sizes
<1> QED
  BY <1>1, Sizes DEF Cells

-----------------------------------------------------------------------------
\* What the end of put_char does, for any cell and character.
LEMMA FinishTyped ==
    ASSUME TypeOK,
           NEW cell \in Int, NEW char \in Char, NEW x \in 0 .. W - 1, NEW y \in 0 .. H,
           Finish(cell, char, x, y)
    PROVE  /\ cursor_x' = x /\ cursor_y' \in 0 .. H - 1
           /\ vram' \in [Cells -> Char] /\ crtc' \in Cells /\ gone' \in Seq(Char)
           /\ strays' = IF cell \in Cells THEN strays ELSE strays + 1
<1> DEFINE cells == Stored(cell, char)
<1>1. cells \in [Cells -> Char]
  BY DEF Stored, TypeOK, Char
<1> HIDE DEF cells
<1>2. Scrolled(cells) \in [Cells -> Char]
  BY <1>1 DEF Scrolled, Char
<1>3. FirstLine(cells) \in Seq(Char)
  <2>1. \A i \in 1 .. W : cells[i - 1] \in Char
    BY <1>1, FirstRow, Sizes
  <2>2. FirstLine(cells) \in [1 .. W -> Char]
    BY <2>1 DEF FirstLine
  <2> QED
    BY <2>2, Sizes
<1>4. cursor_x' = x /\ cursor_y' = IF BelowScreen(y) THEN y - 1 ELSE y
  BY DEF Finish
<1>5. cursor_y' \in 0 .. H - 1
  BY <1>4, Sizes DEF BelowScreen
<1>6. crtc' \in Cells
  <2>1. crtc' = cursor_y' * W + x
    BY DEF Finish
  <2> QED
    BY <1>5, <2>1, CellOnScreen
<1>7. vram' \in [Cells -> Char]
  BY <1>1, <1>2 DEF Finish, cells
<1>8. gone' \in Seq(Char)
  <2>1. gone \in Seq(Char)
    BY DEF TypeOK, Char
  <2> QED
    BY <1>3, <2>1 DEF Finish, cells
<1> QED
  BY <1>4, <1>5, <1>6, <1>7, <1>8 DEF Finish

\* The cell of the roll that cell c of the screen is.
OnRoll(c) == Len(gone) + c

\* Writing a cell of the screen, and scrolling if the cursor left it, changes one cell of
\* the roll and adds only blank ones.
LEMMA FinishShown ==
    ASSUME TypeOK,
           NEW cell \in Cells, NEW char \in Char, NEW x \in 0 .. W - 1, NEW y \in 0 .. H,
           Finish(cell, char, x, y)
    PROVE  /\ DOMAIN Shown = 0 .. Len(gone) + W * H - 1
           /\ DOMAIN Shown \subseteq DOMAIN Shown'
           /\ \A c \in DOMAIN Shown : Shown'[c] = IF c = OnRoll(cell) THEN char ELSE Shown[c]
           /\ \A c \in DOMAIN Shown' \ DOMAIN Shown : Shown'[c] = Blank
           /\ Len(gone') + Here' = Len(gone) + y * W + x
           /\ Len(gone') = Len(gone) \/ Len(gone') = Len(gone) + W
<1> DEFINE L == Len(gone)
           cells == Stored(cell, char)
<1>1. L \in Nat /\ gone \in Seq(Char) /\ W * H \in Nat /\ W \in Nat /\ W >= 1 /\ W <= W * H
  BY Sizes, FirstRow DEF TypeOK, Char
<1>2. cells \in [Cells -> Char] /\ \A c \in Cells : cells[c] = IF c = cell THEN char ELSE vram[c]
  BY DEF Stored, TypeOK, Char
<1>3. DOMAIN Shown = 0 .. L + W * H - 1
  BY DEF Shown
<1>4. DOMAIN Shown' = 0 .. Len(gone') + W * H - 1
  BY DEF Shown
<1>5. \A c \in DOMAIN Shown : Shown[c] = IF c < L THEN gone[c + 1] ELSE vram[c - L]
  BY DEF Shown
<1>6. \A c \in DOMAIN Shown' :
          Shown'[c] = IF c < Len(gone') THEN gone'[c + 1] ELSE vram'[c - Len(gone')]
  BY DEF Shown
<1>7. cell \in 0 .. W * H - 1 /\ OnRoll(cell) = L + cell
  BY DEF Cells, OnRoll
<1>8. \A c \in DOMAIN Shown : c >= L => c - L \in Cells
  BY <1>1, <1>3 DEF Cells
<1> HIDE DEF cells, L
<1>9. CASE ~BelowScreen(y)
  <2>1. cursor_x' = x /\ cursor_y' = y /\ vram' = cells /\ gone' = gone
    BY <1>9 DEF Finish, cells
  <2>2. Len(gone') = L
    BY <2>1 DEF L
  <2>3. ASSUME NEW c \in DOMAIN Shown
        PROVE  Shown'[c] = IF c = OnRoll(cell) THEN char ELSE Shown[c]
    <3>1. c \in Int /\ Shown'[c] = IF c < L THEN gone[c + 1] ELSE cells[c - L]
      BY <1>3, <1>4, <1>6, <2>1, <2>2
    <3>2. CASE c < L
      BY <1>1, <1>5, <1>7, <3>1, <3>2
    <3>3. CASE c >= L
      <4>1. c - L \in Cells /\ Shown'[c] = cells[c - L] /\ Shown[c] = vram[c - L]
        BY <1>1, <1>5, <1>8, <3>1, <3>3
      <4>2. c - L = cell <=> c = OnRoll(cell)
        BY <1>1, <1>7, <3>1
      <4> QED
        BY <1>2, <4>1, <4>2
    <3> QED
      BY <1>1, <3>1, <3>2, <3>3
  <2>4. Len(gone') + Here' = L + y * W + x
    <3>1. y * W \in Nat
      BY Sizes
    <3> QED
      BY <1>1, <2>1, <2>2, <3>1 DEF Here
  <2> QED
    BY <1>3, <1>4, <2>2, <2>3, <2>4 DEF L
<1>10. CASE BelowScreen(y)
  <2>1. /\ cursor_x' = x /\ cursor_y' = y - 1
        /\ vram' = Scrolled(cells) /\ gone' = gone \o FirstLine(cells)
    BY <1>10 DEF Finish, cells
  <2>2. /\ FirstLine(cells) \in Seq(Char) /\ Len(FirstLine(cells)) = W
        /\ \A i \in 1 .. W : FirstLine(cells)[i] = cells[i - 1]
    <3>1. \A i \in 1 .. W : cells[i - 1] \in Char
      BY <1>2, FirstRow, Sizes
    <3>2. FirstLine(cells) \in [1 .. W -> Char]
      BY <3>1 DEF FirstLine
    <3> QED
      BY <3>2, Sizes DEF FirstLine
  <2>3. /\ Len(gone') = L + W
        /\ \A i \in 1 .. L + W :
               gone'[i] = IF i <= L THEN gone[i] ELSE FirstLine(cells)[i - L]
    <3>1. \A s, t \in Seq(Char) :
              /\ Len(s \o t) = Len(s) + Len(t)
              /\ \A i \in 1 .. Len(s) + Len(t) :
                     (s \o t)[i] = IF i <= Len(s) THEN s[i] ELSE t[i - Len(s)]
      OBVIOUS
    <3>2. /\ Len(gone \o FirstLine(cells)) = L + W
          /\ \A i \in 1 .. L + W : (gone \o FirstLine(cells))[i] =
                 IF i <= L THEN gone[i] ELSE FirstLine(cells)[i - L]
      BY Zenon, <1>1, <2>2, <3>1 DEF L
    <3> QED
      BY Zenon, <2>1, <3>2
  <2>4. ASSUME NEW c \in DOMAIN Shown
        PROVE  Shown'[c] = IF c = OnRoll(cell) THEN char ELSE Shown[c]
    <3>1. c \in Nat /\ c \in DOMAIN Shown' /\ c < L + W * H
      BY <1>1, <1>3, <1>4, <2>3
    <3>2. CASE c < L
      <4>1. c + 1 \in 1 .. L + W /\ c + 1 <= L /\ c < L + W
        BY <1>1, <3>1, <3>2
      <4>2. Shown'[c] = gone[c + 1]
        BY <1>6, <2>3, <3>1, <4>1
      <4> QED
        BY <1>1, <1>5, <1>7, <3>1, <3>2, <4>2
    <3>3. CASE c >= L
      <4>1. c - L \in Cells /\ Shown[c] = vram[c - L]
        BY <1>1, <1>5, <1>8, <3>1, <3>3
      <4>2. Shown'[c] = cells[c - L]
        <5>1. CASE c < L + W
          <6>1. c + 1 \in 1 .. L + W /\ ~(c + 1 <= L) /\ (c + 1) - L \in 1 .. W
            BY <1>1, <3>1, <3>3, <5>1
          <6>2. Shown'[c] = FirstLine(cells)[(c + 1) - L]
            <7>1. Shown'[c] = gone'[c + 1]
              BY <1>6, <2>3, <3>1, <5>1
            <7>2. gone'[c + 1] = FirstLine(cells)[(c + 1) - L]
              BY Zenon, <2>3, <6>1
            <7> QED
              BY Zenon, <7>1, <7>2
          <6>3. ((c + 1) - L) - 1 = c - L
            BY <1>1, <3>1
          <6> QED
            BY <2>2, <6>1, <6>2, <6>3
        <5>2. CASE c >= L + W
          <6>1. c - (L + W) \in Cells /\ c - (L + W) + W = c - L
            BY <1>1, <3>1, <5>2 DEF Cells
          <6>2. Shown'[c] = Scrolled(cells)[c - (L + W)]
            BY <1>1, <1>6, <2>1, <2>3, <3>1, <5>2
          <6> QED
            BY <4>1, <6>1, <6>2 DEF Scrolled
        <5> QED
          BY <1>1, <3>1, <5>1, <5>2
      <4>3. c - L = cell <=> c = OnRoll(cell)
        BY <1>1, <1>7, <3>1
      <4> QED
        BY <1>2, <4>1, <4>2, <4>3
    <3> QED
      BY <1>1, <3>1, <3>2, <3>3
  <2>5. ASSUME NEW c \in DOMAIN Shown' \ DOMAIN Shown PROVE Shown'[c] = Blank
    <3>1. c \in Nat /\ c >= L + W * H /\ c < L + W + W * H
      BY <1>1, <1>3, <1>4, <2>3
    <3>2. c - (L + W) \in Cells /\ c - (L + W) + W \notin Cells
      BY <1>1, <3>1 DEF Cells
    <3>3. Shown'[c] = Scrolled(cells)[c - (L + W)]
      BY <1>1, <1>6, <2>1, <2>3, <3>1
    <3> QED
      BY <3>2, <3>3 DEF Scrolled
  <2>6. Len(gone') + Here' = L + y * W + x
    <3>1. y * W \in Nat /\ (y - 1) * W = y * W - W
      BY Sizes
    <3> QED
      BY <1>1, <2>1, <2>3, <3>1 DEF Here
  <2>7. DOMAIN Shown \subseteq DOMAIN Shown'
    BY <1>1, <1>3, <1>4, <2>3
  <2> QED
    BY <1>3, <2>3, <2>4, <2>5, <2>6, <2>7 DEF L
<1> QED
  BY <1>9, <1>10

-----------------------------------------------------------------------------
\* The cells of the screen hold whole lines, and so does what scrolled off it.
WholeLines == \E k \in Nat : Len(gone) = k * W

IInv == TypeOK /\ WholeLines

\* Every call of put_char either leaves the screen alone, writes one cell of the screen,
\* or is a backspace at its first cell.
LEMMA PutCharCases ==
    ASSUME TypeOK, PutChar
    PROVE  \/ Return
           \/ \E cell \in Cells, char \in Char, x \in 0 .. W - 1, y \in 0 .. H :
                 Finish(cell, char, x, y)
           \/ cursor_x = 0 /\ cursor_y = 0 /\ Finish(Here - 1, Blank, W - 1, 0)
<1>1. cursor_x \in 0 .. W - 1 /\ cursor_y \in 0 .. H - 1
  BY DEF TypeOK
<1>2. Here \in Cells
  BY <1>1, CellOnScreen DEF Here
<1>3. Blank \in Char /\ \A glyph \in Glyphs : glyph \in Char
  BY DEF Char
<1>4. CASE NewLine
  <2>1. 0 \in 0 .. W - 1 /\ cursor_y + 1 \in 0 .. H
    BY <1>1, Sizes
  <2> QED
    BY <1>2, <1>3, <1>4, <2>1 DEF NewLine
<1>5. CASE Backspace
  <2>1. CASE cursor_x > 0 /\ Finish(Here - 1, Blank, cursor_x - 1, cursor_y)
    <3>1. cursor_x - 1 \in 0 .. W - 1 /\ cursor_y \in 0 .. H
      BY <1>1, <2>1, Sizes
    <3>2. cursor_y * W + (cursor_x - 1) \in Cells
      BY <1>1, <3>1, CellOnScreen
    <3>3. cursor_y * W + (cursor_x - 1) = Here - 1
      BY <1>1, Sizes DEF Here
    <3>4. Here - 1 \in Cells
      BY Zenon, <3>2, <3>3
    <3> QED
      BY <1>3, <2>1, <3>1, <3>4
  <2>2. CASE /\ cursor_x = 0 /\ cursor_y # 0
             /\ Finish(Here - 1, Blank, W - 1, IF cursor_y = 0 THEN 0 ELSE cursor_y - 1)
    <3>1. W - 1 \in 0 .. W - 1 /\ cursor_y - 1 \in 0 .. H - 1 /\ cursor_y - 1 \in 0 .. H
      BY <1>1, <2>2, Sizes
    <3>2. (cursor_y - 1) * W + (W - 1) \in Cells
      BY <3>1, CellOnScreen
    <3>3. (cursor_y - 1) * W + (W - 1) = Here - 1
      BY <1>1, <2>2, Sizes DEF Here
    <3>4. Here - 1 \in Cells
      BY Zenon, <3>2, <3>3
    <3>5. Finish(Here - 1, Blank, W - 1, cursor_y - 1)
      BY <2>2
    <3> QED
      BY <1>3, <3>1, <3>4, <3>5
  <2>3. CASE /\ cursor_x = 0 /\ cursor_y = 0
             /\ Finish(Here - 1, Blank, W - 1, IF cursor_y = 0 THEN 0 ELSE cursor_y - 1)
    BY <2>3
  <2> QED
    BY <1>5, <2>1, <2>2, <2>3 DEF Backspace
<1>6. ASSUME NEW glyph \in Glyphs, Printable(glyph) PROVE
          \E cell \in Cells, char \in Char, x \in 0 .. W - 1, y \in 0 .. H :
              Finish(cell, char, x, y)
  <2>1. CASE ~LineFull(cursor_x + 1) /\ Finish(Here, glyph, cursor_x + 1, cursor_y)
    <3>1. cursor_x + 1 \in 0 .. W - 1 /\ cursor_y \in 0 .. H
      BY <1>1, <2>1, Sizes DEF LineFull
    <3> QED
      BY <1>2, <1>3, <2>1, <3>1
  <2>2. CASE LineFull(cursor_x + 1) /\ Finish(Here, glyph, 0, cursor_y + 1)
    <3>1. 0 \in 0 .. W - 1 /\ cursor_y + 1 \in 0 .. H
      BY <1>1, Sizes
    <3> QED
      BY <1>2, <1>3, <2>2, <3>1
  <2> QED
    BY <1>6, <2>1, <2>2 DEF Printable
<1> QED
  BY <1>4, <1>5, <1>6 DEF PutChar


\* A backspace at the first cell of the screen stores outside it and moves to the end of
\* the first line.
LEMMA StrayStep ==
    ASSUME TypeOK, cursor_x = 0, cursor_y = 0, Finish(Here - 1, Blank, W - 1, 0)
    PROVE  /\ cursor_x' = W - 1 /\ cursor_y' = 0 /\ vram' = vram /\ gone' = gone
           /\ strays' = strays + 1 /\ crtc' \in Cells
<1>1. Here = 0 /\ Here - 1 \notin Cells
  <2>1. 0 * W = 0
    BY Sizes
  <2> QED
    BY <2>1 DEF Here, Cells
<1>2. ~BelowScreen(0)
  BY Sizes DEF BelowScreen
<1>3. /\ cursor_x' = W - 1 /\ cursor_y' = 0 /\ vram' = vram /\ gone' = gone
      /\ strays' = strays + 1 /\ crtc' = cursor_y' * W + (W - 1)
  BY <1>1, <1>2 DEF Finish, Stored
<1>4. W - 1 \in 0 .. W - 1 /\ 0 \in 0 .. H - 1
  BY Sizes
<1>5. 0 * W + (W - 1) \in Cells
  BY <1>4, CellOnScreen
<1> QED
  BY <1>3, <1>5

LEMMA TypeInv ==
    ASSUME TypeOK, PutChar
    PROVE  TypeOK'
<1>1. printed' = printed + 1 /\ printed < MaxText
  BY DEF PutChar
<1>2. MaxText \in Nat /\ printed \in 0 .. MaxText /\ strays \in 0 .. printed
  BY ConsoleAssumption DEF TypeOK
<1>3. printed' \in 0 .. MaxText /\ strays \in 0 .. printed' /\ strays + 1 \in 0 .. printed'
  BY <1>1, <1>2
<1>4. CASE Return
  <2>1. /\ cursor_x' = cursor_x /\ cursor_y' = cursor_y /\ vram' = vram /\ gone' = gone
        /\ strays' = strays /\ crtc' = Here
    BY <1>4 DEF Return
  <2>2. Here \in Cells
    BY CellOnScreen DEF TypeOK, Here
  <2> QED
    BY <1>3, <2>1, <2>2 DEF TypeOK
<1>5. CASE \E cell \in Cells, char \in Char, x \in 0 .. W - 1, y \in 0 .. H :
              Finish(cell, char, x, y)
  <2>1. PICK cell \in Cells, char \in Char, x \in 0 .. W - 1, y \in 0 .. H :
            Finish(cell, char, x, y)
    BY <1>5
  <2>2. cell \in Int
    BY DEF Cells
  <2>3. /\ cursor_x' = x /\ cursor_y' \in 0 .. H - 1 /\ vram' \in [Cells -> Char]
        /\ crtc' \in Cells /\ gone' \in Seq(Char) /\ strays' = strays
    BY <2>1, <2>2, FinishTyped
  <2> QED
    BY <1>3, <2>3 DEF TypeOK, Char
<1>6. CASE cursor_x = 0 /\ cursor_y = 0 /\ Finish(Here - 1, Blank, W - 1, 0)
  <2>1. W - 1 \in 0 .. W - 1 /\ 0 \in 0 .. H - 1
    BY Sizes
  <2> QED
    BY <1>3, <1>6, <2>1, StrayStep DEF TypeOK
<1> QED
  BY <1>4, <1>5, <1>6, PutCharCases

LEMMA LinesInv ==
    ASSUME IInv, PutChar
    PROVE  WholeLines'
<1>1. PICK k \in Nat : Len(gone) = k * W
  BY DEF IInv, WholeLines
<1>2. k + 1 \in Nat /\ (k + 1) * W = k * W + W
  BY Sizes
<1>3. Len(gone') = Len(gone) \/ Len(gone') = Len(gone) + W
  <2>1. CASE Return
    BY <2>1 DEF Return
  <2>2. CASE \E cell \in Cells, char \in Char, x \in 0 .. W - 1, y \in 0 .. H :
                Finish(cell, char, x, y)
    BY <2>2, FinishShown DEF IInv
  <2>3. CASE cursor_x = 0 /\ cursor_y = 0 /\ Finish(Here - 1, Blank, W - 1, 0)
    BY <2>3, StrayStep DEF IInv
  <2> QED
    BY <2>1, <2>2, <2>3, PutCharCases DEF IInv
<1>4. Len(gone') = k * W \/ Len(gone') = (k + 1) * W
  BY Zenon, <1>1, <1>2, <1>3
<1> QED
  BY Zenon, <1>2, <1>4 DEF WholeLines

LEMMA InitInv == Init => IInv
<1> SUFFICES ASSUME Init PROVE IInv
  OBVIOUS
<1>1. 0 \in 0 .. W - 1 /\ 0 \in 0 .. H - 1 /\ 0 \in Cells /\ MaxText \in Nat
  BY Sizes, FirstRow, ConsoleAssumption
<1>2. TypeOK
  BY <1>1 DEF Init, TypeOK
<1>3. Len(gone) = 0 * W
  BY Sizes DEF Init
<1> QED
  BY <1>2, <1>3 DEF IInv, WholeLines

LEMMA Inductive == Spec => []IInv
<1>1. IInv /\ [PutChar]_vars => IInv'
  <2> SUFFICES ASSUME IInv, [PutChar]_vars PROVE IInv'
    OBVIOUS
  <2>1. CASE PutChar
    BY <2>1, TypeInv, LinesInv DEF IInv
  <2>2. CASE UNCHANGED vars
    BY <2>2 DEF IInv, TypeOK, WholeLines, vars, screen
  <2> QED
    BY <2>1, <2>2
<1> QED
  BY <1>1, InitInv, PTL DEF Spec

-----------------------------------------------------------------------------
\* The cursor stays on the screen and the screen holds characters.
THEOREM TypeCorrect == Spec => []TypeOK
BY Inductive, PTL DEF IInv

\* put_char stores outside video memory only for a backspace at the first cell.
THEOREM StraysAtHome == Spec => StraysOnlyAtHome
<1>1. ASSUME IInv, [PutChar]_vars, strays' # strays
      PROVE  cursor_x = 0 /\ cursor_y = 0 /\ cursor_x' = W - 1
  <2>1. PutChar
    BY <1>1 DEF vars
  <2>2. CASE Return
    BY <1>1, <2>2 DEF Return
  <2>3. CASE \E cell \in Cells, char \in Char, x \in 0 .. W - 1, y \in 0 .. H :
                Finish(cell, char, x, y)
    BY <1>1, <2>3 DEF Finish
  <2>4. CASE cursor_x = 0 /\ cursor_y = 0 /\ Finish(Here - 1, Blank, W - 1, 0)
    BY <1>1, <2>4, StrayStep DEF IInv
  <2> QED
    BY <1>1, <2>1, <2>2, <2>3, <2>4, PutCharCases DEF IInv
<1>2. IInv /\ [PutChar]_vars =>
          [strays' # strays => cursor_x = 0 /\ cursor_y = 0 /\ cursor_x' = W - 1]_vars
  BY <1>1
<1> QED
  BY <1>2, Inductive, PTL DEF Spec, StraysOnlyAtHome

-----------------------------------------------------------------------------
\* The refinement: what one written cell does to the ink on the roll.
LEMMA InkAfter ==
    ASSUME TypeOK,
           NEW cell \in Cells, NEW char \in Char, NEW x \in 0 .. W - 1, NEW y \in 0 .. H,
           Finish(cell, char, x, y)
    PROVE  /\ At' = Len(gone) + y * W + x
           /\ Ink' = {p \in Ink : p[1] # OnRoll(cell)}
                       \cup (IF char = Blank THEN {} ELSE {<<OnRoll(cell), char>>})
<1> DEFINE r == OnRoll(cell)
           Kept == {p \in Ink : p[1] # r}
           New == IF char = Blank THEN {} ELSE {<<r, char>>}
<1>1. /\ DOMAIN Shown = 0 .. Len(gone) + W * H - 1
      /\ DOMAIN Shown \subseteq DOMAIN Shown'
      /\ \A c \in DOMAIN Shown : Shown'[c] = IF c = r THEN char ELSE Shown[c]
      /\ \A c \in DOMAIN Shown' \ DOMAIN Shown : Shown'[c] = Blank
      /\ Len(gone') + Here' = Len(gone) + y * W + x
  BY FinishShown
<1>2. r \in DOMAIN Shown
  <2>1. Len(gone) \in Nat /\ cell \in 0 .. W * H - 1 /\ W * H \in Nat
    BY FirstRow DEF TypeOK, Cells
  <2> QED
    BY <1>1, <2>1 DEF OnRoll
<1>3. \A p : p \in Ink <=> \E c \in DOMAIN Shown : Shown[c] # Blank /\ p = <<c, Shown[c]>>
  BY DEF Ink
<1>4. \A p : p \in Ink' <=> \E c \in DOMAIN Shown' : Shown'[c] # Blank /\ p = <<c, Shown'[c]>>
  BY DEF Ink
<1> HIDE DEF r
<1>5. ASSUME NEW p \in Ink' PROVE p \in Kept \cup New
  <2>1. PICK c \in DOMAIN Shown' : Shown'[c] # Blank /\ p = <<c, Shown'[c]>>
    BY <1>4
  <2>2. c \in DOMAIN Shown /\ Shown'[c] = IF c = r THEN char ELSE Shown[c]
    BY <1>1, <2>1
  <2>3. CASE c = r
    <3>1. char # Blank /\ p = <<r, char>>
      BY <2>1, <2>2, <2>3
    <3> QED
      BY <3>1
  <2>4. CASE c # r
    <3>1. Shown[c] # Blank /\ p = <<c, Shown[c]>> /\ p[1] = c
      BY <2>1, <2>2, <2>4
    <3>2. p \in Ink
      BY <1>3, <2>2, <3>1
    <3> QED
      BY <2>4, <3>1, <3>2
  <2> QED
    BY <2>3, <2>4
<1>6. ASSUME NEW p \in Kept PROVE p \in Ink'
  <2>1. p \in Ink /\ p[1] # r
    OBVIOUS
  <2>2. PICK c \in DOMAIN Shown : Shown[c] # Blank /\ p = <<c, Shown[c]>>
    BY <1>3, <2>1
  <2>3. c # r
    BY <2>1, <2>2
  <2>4. c \in DOMAIN Shown' /\ Shown'[c] = Shown[c]
    BY <1>1, <2>3
  <2> QED
    BY <1>4, <2>2, <2>4
<1>7. ASSUME NEW p \in New PROVE p \in Ink'
  <2>1. char # Blank /\ p = <<r, char>>
    OBVIOUS
  <2>2. r \in DOMAIN Shown' /\ Shown'[r] = char
    BY <1>1, <1>2
  <2> QED
    BY <1>4, <2>1, <2>2
<1>8. Ink' = Kept \cup New
  BY <1>5, <1>6, <1>7
<1> QED
  BY <1>1, <1>8 DEF At, r

\* Each case of put_char is a step of the roll.
LEMMA StepsRefine ==
    ASSUME IInv, PutChar
    PROVE  Roll!Next \/ UNCHANGED <<Ink, At>>
<1>1. cursor_x \in 0 .. W - 1 /\ cursor_y \in 0 .. H - 1 /\ TypeOK
  BY DEF IInv, TypeOK
<1>2. PICK k \in Nat : Len(gone) = k * W
  BY DEF IInv, WholeLines
<1>3. /\ cursor_y * W \in Nat /\ k * W \in Nat /\ (cursor_y + 1) * W = cursor_y * W + W
      /\ At = k * W + cursor_y * W + cursor_x
      /\ At = (k + cursor_y) * W + cursor_x /\ k + cursor_y \in Nat
  BY <1>1, <1>2, Sizes DEF At, Here
<1>4. Here \in Cells /\ OnRoll(Here) = At
  BY <1>1, CellOnScreen DEF Here, OnRoll, At
<1>5. Blank \in Char /\ \A glyph \in Glyphs : glyph \in Char /\ glyph # Blank
  BY ConsoleAssumption DEF Char
<1>6. CASE Return
  <2>1. cursor_x' = cursor_x /\ cursor_y' = cursor_y /\ vram' = vram /\ gone' = gone
    BY <1>6 DEF Return
  <2>2. Shown' = Shown
    BY <2>1 DEF Shown
  <2> QED
    BY <2>1, <2>2 DEF Ink, At, Here
<1>7. ASSUME NEW glyph \in Glyphs, Printable(glyph) PROVE Roll!Next
  <2>1. PICK x \in 0 .. W - 1, y \in 0 .. H :
            Finish(Here, glyph, x, y) /\ y * W + x = cursor_y * W + cursor_x + 1
    <3>1. CASE ~LineFull(cursor_x + 1) /\ Finish(Here, glyph, cursor_x + 1, cursor_y)
      <4>1. cursor_x + 1 \in 0 .. W - 1 /\ cursor_y \in 0 .. H
        BY <1>1, <3>1, Sizes DEF LineFull
      <4>2. cursor_y * W + (cursor_x + 1) = cursor_y * W + cursor_x + 1
        BY <1>1, <1>3
      <4> QED
        BY <3>1, <4>1, <4>2
    <3>2. CASE LineFull(cursor_x + 1) /\ Finish(Here, glyph, 0, cursor_y + 1)
      <4>1. 0 \in 0 .. W - 1 /\ cursor_y + 1 \in 0 .. H
        BY <1>1, Sizes
      <4>2. cursor_x + 1 = W
        BY <1>1, <3>2, Sizes DEF LineFull
      <4>3. (cursor_y + 1) * W + 0 = cursor_y * W + cursor_x + 1
        BY <1>1, <1>3, <4>2
      <4> QED
        BY <3>2, <4>1, <4>3
    <3> QED
      BY <1>7, <3>1, <3>2 DEF Printable
  <2>2. /\ At' = Len(gone) + y * W + x
        /\ Ink' = {p \in Ink : p[1] # At} \cup {<<At, glyph>>}
    <3>1. /\ At' = Len(gone) + y * W + x
          /\ Ink' = {p \in Ink : p[1] # OnRoll(Here)}
                      \cup (IF glyph = Blank THEN {} ELSE {<<OnRoll(Here), glyph>>})
      BY <1>1, <1>4, <1>5, <2>1, InkAfter
    <3> QED
      BY <1>4, <1>5, <3>1
  <2>3. At' = At + 1
    <3>1. y * W \in Nat /\ x \in Nat /\ cursor_x \in Nat
      BY <1>1, Sizes
    <3>2. At' = k * W + y * W + x
      BY <1>2, <2>2
    <3>3. \A a, b, c, d, e \in Nat : b + c = d + e + 1 => a + b + c = a + d + e + 1
      OBVIOUS
    <3> HIDE DEF At
    <3> QED
      BY <1>3, <2>1, <3>1, <3>2, <3>3
  <2>4. Roll!Type(glyph)
    BY <2>2, <2>3 DEF Roll!Type, Roll!Without
  <2> QED
    BY <2>4 DEF Roll!Next
<1>8. CASE NewLine
  <2>1. 0 \in 0 .. W - 1 /\ cursor_y + 1 \in 0 .. H
    BY <1>1, Sizes
  <2>2. /\ At' = Len(gone) + (cursor_y + 1) * W + 0
        /\ Ink' = {p \in Ink : p[1] # OnRoll(Here)}
                    \cup (IF Blank = Blank THEN {} ELSE {<<OnRoll(Here), Blank>>})
    BY <1>1, <1>4, <1>5, <1>8, <2>1, InkAfter DEF NewLine
  <2>3. Ink' = {p \in Ink : p[1] # At}
    BY <1>4, <2>2
  <2>4. At \div W = k + cursor_y
    <3>1. (k + cursor_y) * W \in Nat /\ W \in Nat \ {0}
      BY <1>3, Sizes
    <3>2. At \in Nat /\ (k + cursor_y) * W <= At /\ At < (k + cursor_y) * W + W
      BY <1>1, <1>3, <3>1
    <3> QED
      BY <1>3, <3>1, <3>2, RowOf
  <2>5. (k + cursor_y + 1) * W = k * W + (cursor_y + 1) * W
    BY <1>1, Sizes
  <2>6. At' = (At \div W + 1) * W
    <3>1. At' = k * W + (cursor_y + 1) * W
      BY <1>1, <1>2, <1>3, <2>2, Sizes
    <3> QED
      BY <2>4, <2>5, <3>1
  <2> QED
    BY <2>3, <2>6 DEF Roll!Next, Roll!NewLine, Roll!Without
<1>9. CASE Backspace
  <2>1. ASSUME NEW x \in 0 .. W - 1, NEW y \in 0 .. H - 1,
               Finish(Here - 1, Blank, x, y), y * W + x = Here - 1
        PROVE  Roll!Next
    <3>1. Here - 1 \in Cells /\ y \in 0 .. H
      <4>1. y * W + x \in Cells
        BY CellOnScreen
      <4> QED
        BY <2>1, <4>1, Sizes
    <3>2. /\ At' = Len(gone) + y * W + x
          /\ Ink' = {p \in Ink : p[1] # OnRoll(Here - 1)}
                      \cup (IF Blank = Blank THEN {} ELSE {<<OnRoll(Here - 1), Blank>>})
      BY <1>1, <1>5, <2>1, <3>1, InkAfter
    <3>3. OnRoll(Here - 1) = At - 1
      BY <1>1, <1>2, <1>3 DEF OnRoll, At, Here
    <3>4. At' = At - 1
      <4>1. y * W \in Nat
        BY Sizes
      <4>2. Here \in Int /\ Len(gone) \in Nat
        BY <1>1, <1>2, <1>3 DEF Here
      <4> QED
        BY <2>1, <3>2, <4>1, <4>2 DEF At
    <3>5. Ink' = {p \in Ink : p[1] # At - 1}
      BY <3>2, <3>3
    <3> QED
      BY <3>4, <3>5 DEF Roll!Next, Roll!Erase, Roll!Without
  <2>2. CASE cursor_x > 0 /\ Finish(Here - 1, Blank, cursor_x - 1, cursor_y)
    <3>1. cursor_x - 1 \in 0 .. W - 1
      BY <1>1, <2>2, Sizes
    <3>2. cursor_y * W + (cursor_x - 1) = Here - 1
      BY <1>1, <1>3 DEF Here
    <3> QED
      BY <1>1, <2>1, <2>2, <3>1, <3>2
  <2>3. CASE cursor_x = 0 /\ cursor_y # 0 /\ Finish(Here - 1, Blank, W - 1, cursor_y - 1)
    <3>1. W - 1 \in 0 .. W - 1 /\ cursor_y - 1 \in 0 .. H - 1
      BY <1>1, <2>3, Sizes
    <3>2. (cursor_y - 1) * W + (W - 1) = Here - 1
      BY <1>1, <2>3, Sizes DEF Here
    <3> QED
      BY <2>1, <2>3, <3>1, <3>2
  <2>4. CASE cursor_x = 0 /\ cursor_y = 0 /\ Finish(Here - 1, Blank, W - 1, 0)
    <3>1. cursor_x' = W - 1 /\ cursor_y' = 0 /\ vram' = vram /\ gone' = gone
      BY <1>1, <2>4, StrayStep
    <3>2. Ink' = Ink
      BY <3>1 DEF Ink, Shown
    <3>3. 0 * W = 0
      BY Sizes
    <3>4. At = k * W /\ At' = k * W + (W - 1)
      BY <1>2, <1>3, <2>4, <3>1, <3>3, Sizes DEF At, Here
    <3>5. At % W = 0
      BY <3>4, RowStart, Sizes
    <3>6. At' = At + W - 1
      BY <1>3, <3>4, Sizes
    <3> QED
      BY <3>2, <3>5, <3>6 DEF Roll!Next, Roll!Turn
  <2> QED
    BY <1>9, <2>2, <2>3, <2>4 DEF Backspace
<1> QED
  BY <1>6, <1>7, <1>8, <1>9 DEF PutChar

\* The screen of any size shows the last lines of an endless roll of paper: wrapping,
\* scrolling and erasing over the end of a line lose and move nothing.
THEOREM Refinement == Spec => ImplementsPaper
<1>1. Init => Roll!Init
  <2> SUFFICES ASSUME Init PROVE Roll!Init
    OBVIOUS
  <2>1. TypeOK /\ Len(gone) = 0 /\ Here = 0
    <3>1. 0 * W = 0
      BY Sizes
    <3> QED
      BY <3>1, InitInv DEF Init, IInv, Here
  <2>2. At = 0
    BY <2>1 DEF At
  <2>3. \A c \in DOMAIN Shown : c \in Nat /\ Shown[c] \in Char
    BY <2>1, FirstRow DEF Shown, TypeOK, Cells, Char
  <2>4. \A p \in Ink : \E c \in DOMAIN Shown : Shown[c] # Blank /\ p = <<c, Shown[c]>>
    BY DEF Ink
  <2>5. \A p \in Ink : p[1] \in Nat /\ p[2] \in Glyphs
    BY <2>3, <2>4 DEF Char
  <2>6. \A p, q \in Ink : p[1] = q[1] => p = q
    BY <2>4
  <2> QED
    BY <2>2, <2>5, <2>6 DEF Roll!Init
<1>2. IInv /\ [PutChar]_vars => [Roll!Next]_<<Ink, At>>
  <2> SUFFICES ASSUME IInv, [PutChar]_vars PROVE [Roll!Next]_<<Ink, At>>
    OBVIOUS
  <2>1. CASE PutChar
    BY <2>1, StepsRefine
  <2>2. CASE UNCHANGED vars
    BY <2>2 DEF vars, screen, Ink, At, Shown, Here
  <2> QED
    BY <2>1, <2>2
<1> QED
  BY <1>1, <1>2, Inductive, PTL DEF Spec, Roll!Spec, ImplementsPaper
=============================================================================
