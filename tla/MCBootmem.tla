----------------------------- MODULE MCBootmem -----------------------------
(* Bootmem on nodes of five and seven pages of four bytes.                 *)
EXTENDS Bootmem

\* Whole and partial pages, an overlap, a region past the end of the node.
MCRegions == {[addr |-> 0, size |-> 14], [addr |-> 7, size |-> 17],
              [addr |-> 9, size |-> 2], [addr |-> 21, size |-> 8]}
=============================================================================
