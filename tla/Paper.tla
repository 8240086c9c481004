------------------------------- MODULE Paper -------------------------------
(***************************************************************************)
(* What a console promises: it types on an endless roll of paper, W cells  *)
(* to a line.  `ink' is the set of cells that carry a glyph, `at' the cell *)
(* that is typed next; cells are numbered from the first line on.          *)
(***************************************************************************)
EXTENDS Integers

CONSTANTS
    W,                  \* cells of a line
    Glyphs              \* what can be typed

VARIABLES ink, at

Without(cell) == {c \in ink : c[1] # cell}

Init ==
    /\ at = 0
    /\ ink \subseteq {c \in ink : c[1] \in Nat /\ c[2] \in Glyphs}
    /\ \A c, d \in ink : c[1] = d[1] => c = d

Type(glyph) == ink' = Without(at) \cup {<<at, glyph>>} /\ at' = at + 1

NewLine == ink' = Without(at) /\ at' = (at \div W + 1) * W

Erase == ink' = Without(at - 1) /\ at' = at - 1

\* The lines above the screen are out of reach: at its first cell there is nothing to
\* erase, and the console goes to the end of the line.
Turn == at % W = 0 /\ at' = at + W - 1 /\ UNCHANGED ink

Next == (\E glyph \in Glyphs : Type(glyph)) \/ NewLine \/ Erase \/ Turn

Spec == Init /\ [][Next]_<<ink, at>>
=============================================================================
