----------------------------- MODULE MCKallsyms -----------------------------
(* A text at 10-12, kernel_text_end at 13, and a text for initialisation at *)
(* 14-16, with up to two symbols more, of every kind and at every place     *)
(* that differ, with names shorter than NameLen, just as long and longer,   *)
(* and lines that are none of the kernel's symbols.  Codes 0-11 are:        *)
(* none, t, w, U, a, b, _, s, e, i, $, A.                                   *)
EXTENDS KallsymsTable

Line(addr, type, name, moves) == [addr |-> addr, type |-> type, name |-> name, moves |-> moves]

MCRanges == <<[start_sym |-> <<7>>, end_sym |-> <<8>>], [start_sym |-> <<9, 7>>, end_sym |-> <<9, 8>>],
              [start_sym |-> <<9, 4>>, end_sym |-> <<9, 5>>]>>
MCGenerated == {<<9, 9>>, <<9, 9, 4>>}
MCProvided == {<<6, 6, 5>>}
MCKept == {<<5>>}
MCTextStart == <<7, 7>>
MCTextEnd == <<8, 8>>

\* Names with a part in common, a repeated part, underscores, one that the linker gives,
\* one that is as long as a name may be and begins with another, as does that of a symbol
\* of the initialisation.
Names == {<<4, 5>>, <<4, 4, 4>>, <<6, 4, 5>>, <<6, 6, 5>>, <<4, 4, 4, 4>>}

\* What lies at the end of the text may belong to it or move by 2; what follows moves by 2
\* and, behind the initialisation, perhaps by more.
Moves(addr, inits, rest) ==
    IF addr < 12 THEN {0} ELSE IF addr = 12 THEN {0, inits}
    ELSE IF addr < 16 THEN {inits} ELSE IF addr = 16 THEN {inits, rest} ELSE {rest}

Extra(inits, rest) ==
    UNION {{Line(addr, type, name, m) : m \in Moves(addr, inits, rest)} :
               addr \in {0, 10, 11, 12, 16, 17}, type \in {1, 2}, name \in Names}

Fixed(inits) ==
    <<Line(0, 3, <<4>>, 0), Line(9, 11, <<4>>, 0), Line(9, 11, <<5>>, 0),
      Line(10, 1, MCTextStart, 0), Line(10, 1, <<7>>, 0), Line(11, 1, <<10, 4>>, 0),
      Line(11, 1, <<4, 5, 4, 5, 4>>, 0), Line(12, 1, <<8>>, 0),
      Line(13, 1, MCTextEnd, inits), Line(14, 1, <<9, 7>>, inits),
      Line(14, 1, <<4, 4, 4, 5>>, inits), Line(16, 1, <<9, 8>>, inits)>>

\* nm sorts by address; of lines at one address the last of ours comes last.
Sorted(lines) == SortSeq(lines, LAMBDA l, k : l.addr < k.addr)

MCMaps ==
    UNION {{Sorted(Fixed(m[1]) \o x) :
               x \in {<<>>} \cup {<<e>> : e \in Extra(m[1], m[2])}
                      \cup {<<e, Line(e.addr, 1, n, e.moves)>> : e \in Extra(m[1], m[2]), n \in {<<4, 4, 4>>, <<6, 4, 5>>}}} :
           m \in {<<0, 0>>, <<0, 3>>, <<2, 2>>, <<2, 3>>}}
=============================================================================
