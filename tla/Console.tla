------------------------------ MODULE Console ------------------------------
(***************************************************************************)
(* The x86 text console, arch/x86/lib/print.c: put_char writes a character *)
(* to video memory, moves the cursor, scrolls and tells the display        *)
(* controller where the cursor is.  printk and panic_spin print through    *)
(* it, one character after the other, and nothing else writes the screen.  *)
(*                                                                         *)
(* A cell is numbered cursor_y * W + cursor_x, as the code addresses it;   *)
(* the attribute bytes, which are always COLOR_DEFAULT, are left out.      *)
(***************************************************************************)
EXTENDS Integers, Sequences

CONSTANTS
    W, H,               \* SCREEN_WIDTH, SCREEN_HEIGHT
    Glyphs,             \* the characters without a case of their own in put_char
    Blank,              \* the character '\0'
    MaxText             \* bound on the characters printed

ASSUME ConsoleAssumption ==
    W \in Nat \ {0} /\ H \in Nat \ {0} /\ MaxText \in Nat /\ Blank \notin Glyphs

VARIABLES
    cursor_x, cursor_y,
    vram,
    crtc,               \* the cursor position the display controller holds
    gone,               \* history: the cells scrolled off the screen, oldest first
    strays,             \* history: the writes outside the screen
    printed             \* history: the characters printed

screen == <<cursor_x, cursor_y, vram, crtc>>
vars == <<screen, gone, strays, printed>>

Cells == 0 .. W * H - 1

-----------------------------------------------------------------------------
\* Definitions marked `slip' are not the code's: each is a plausible mistake in the
\* definition that follows it, and some property must tell the two apart.

\* The cell the cursor is at.
Here == cursor_y * W + cursor_x

\* The cursor starts at the first cell of a screen that still shows something.
Init ==
    /\ cursor_x = 0 /\ cursor_y = 0 /\ crtc = 0
    /\ \E glyph \in Glyphs \cup {Blank} : vram = [c \in Cells |-> glyph]
    /\ gone = <<>> /\ strays = 0 /\ printed = 0

\* A store at a cell, which may be one that is not on the screen.
Stored(cell, char) == IF cell \in Cells THEN [vram EXCEPT ![cell] = char] ELSE vram

\* scroll_sceen(SCREEN_DOWN): lines move up by one, the last is cleared.
LastLineKept(cells) ==                                                 \* slip
    [c \in Cells |-> IF c + W \in Cells THEN cells[c + W] ELSE cells[c]]
Scrolled(cells) ==
    [c \in Cells |-> IF c + W \in Cells THEN cells[c + W] ELSE Blank]

FirstLine(cells) == [i \in 1 .. W |-> cells[i - 1]]

BelowScreen(y) == y > H - 1

\* The end of put_char: a character moves the cursor down by one line at most, so the
\* loop scrolls once; then flush.
Finish(cell, char, x, y) ==
    LET down == BelowScreen(y)
        cells == Stored(cell, char)
    IN  /\ cursor_x' = x
        /\ cursor_y' = IF down THEN y - 1 ELSE y
        /\ vram' = IF down THEN Scrolled(cells) ELSE cells
        /\ gone' = IF down THEN gone \o FirstLine(cells) ELSE gone
        /\ strays' = IF cell \in Cells THEN strays ELSE strays + 1
        /\ crtc' = cursor_y' * W + x

\* The four cases of put_char.
Return == crtc' = Here /\ UNCHANGED <<cursor_x, cursor_y, vram, gone, strays>>

NewLine == Finish(Here, Blank, 0, cursor_y + 1)

\* The guard `cursor_x >= 0 && cursor_y >= 0' is always true.
Backspace ==
    \/ /\ cursor_x > 0
       /\ Finish(Here - 1, Blank, cursor_x - 1, cursor_y)
    \/ /\ cursor_x = 0
       /\ Finish(Here - 1, Blank, W - 1, IF cursor_y = 0 THEN 0 ELSE cursor_y - 1)

NoWrap(x) == FALSE                                                     \* slip
LineFull(x) == x > W - 1

Printable(glyph) ==
    \/ ~LineFull(cursor_x + 1) /\ Finish(Here, glyph, cursor_x + 1, cursor_y)
    \/ LineFull(cursor_x + 1) /\ Finish(Here, glyph, 0, cursor_y + 1)

PutChar ==
    /\ printed < MaxText /\ printed' = printed + 1
    /\ Return \/ NewLine \/ Backspace \/ \E glyph \in Glyphs : Printable(glyph)

Spec == Init /\ [][PutChar]_vars

-----------------------------------------------------------------------------
TypeOK ==
    /\ cursor_x \in 0 .. W - 1 /\ cursor_y \in 0 .. H - 1
    /\ vram \in [Cells -> Glyphs \cup {Blank}]
    /\ crtc \in Cells
    /\ gone \in Seq(Glyphs \cup {Blank})
    /\ strays \in 0 .. printed
    /\ printed \in 0 .. MaxText

\* put_char writes outside video memory only for a backspace at the first cell of the
\* screen, where `vram - 2' is the cell before it.
StraysOnlyAtHome ==
    [][strays' # strays => cursor_x = 0 /\ cursor_y = 0 /\ cursor_x' = W - 1]_vars

\* What was printed: the lines that scrolled off, then those on the screen.
Shown == [c \in 0 .. Len(gone) + W * H - 1 |->
              IF c < Len(gone) THEN gone[c + 1] ELSE vram[c - Len(gone)]]

Ink == {<<c, Shown[c]>> : c \in {d \in DOMAIN Shown : Shown[d] # Blank}}
At == Len(gone) + Here

Roll == INSTANCE Paper WITH ink <- Ink, at <- At

\* The screen shows the last lines of what a console without an edge would have typed:
\* wrapping, scrolling and erasing over the end of a line lose and move nothing.
ImplementsPaper == Roll!Spec
=============================================================================
