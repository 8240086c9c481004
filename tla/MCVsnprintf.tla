---------------------------- MODULE MCVsnprintf ----------------------------
(* Formats of one directive in every combination of what it can say that   *)
(* changes another part of it, and some of several; words as long as they  *)
(* need be for a value of each type not to fit the one below it.           *)
EXTENDS Vsnprintf, TLC

\* What C prescribes, and what the comments of the source say where they differ from it.
P == INSTANCE PrintfText WITH ZeroPrefix <- FALSE
Commented == INSTANCE PrintfText WITH ZeroPrefix <- TRUE

MCBits == [q \in {"H", "h", "", "l", "L"} |->
               CASE q = "H" -> 2 [] q = "h" -> 3 [] q = "" -> 4 [] q = "l" -> 5 [] q = "L" -> 6]

\* U+00E9, U+20AC, U+FFFD and U+1F600.
MCUtf8 == (<<"a">> :> <<"a">>) @@ (<<"00E9">> :> <<"C3", "A9">>)
            @@ (<<"20AC">> :> <<"E2", "82", "AC">>) @@ (<<"FFFD">> :> <<"EF", "BF", "BD">>)
            @@ (<<"D83D", "DE00">> :> <<"F0", "9F", "98", "80">>)

Seqs(n, S) == UNION {[1 .. k -> S] : k \in 0 .. n}

\* Widths and precisions, written in the format and passed for a `*'.
Widths == {P!Without, P!Given(<<"7">>, 7), P!Star(-7)}
Precs == {P!Without, P!Given(<<>>, 0), P!Given(<<"4">>, 4), P!Star(-2)}

FlagSeqs == {<<>>, <<"0">>, <<"#">>, <<"+">>, <<" ">>, <<"-">>, <<"0", "#">>, <<"0", "+">>,
          <<"-", "0">>, <<" ", "+">>}

Numbers == {P!Dir(fl, wd, pr, <<>>, cv, [num |-> v]) : fl \in FlagSeqs, wd \in Widths, pr \in Precs,
                 cv \in {"d", "o", "x", "u"}, v \in {0, 6, -3}}
Casts == {P!Dir(<<>>, P!Without, P!Without, q, cv, [num |-> v]) :
              q \in {<<>>, <<"h">>, <<"h", "h">>, <<"l">>, <<"l", "l">>},
              cv \in {"d", "i", "u", "X", "p"}, v \in -32 .. 31}
Narrow == {P!Dir(fl, wd, pr, <<>>, "s", [str |-> s]) : fl \in {<<>>, <<"-">>, <<"0">>},
              wd \in {P!Without, P!Given(<<"7">>, 7)}, pr \in Precs \cup {P!Given(<<"5">>, 5)},
              s \in {Null, <<>>, <<"a", "b", "c", "d", "e">>}}
Wide == {P!Dir(fl, wd, pr, <<"l">>, "s", [str |-> s]) : fl \in {<<>>, <<"-">>},
              wd \in {P!Without, P!Given(<<"7">>, 7)},
              pr \in {P!Without} \cup {P!Given(<<ToString(n)>>, n) : n \in 0 .. 7},
              s \in Seqs(2, {"a", "00E9", "20AC", "D83D", "DE00"})}
Chars == {P!Dir(fl, wd, pr, <<>>, "c", [chr |-> "a"]) : fl \in {<<>>, <<"-">>}, wd \in Widths, pr \in Precs}
           \cup {P!Dir(<<>>, wd, pr, <<"l">>, "c", [chr |-> c]) : wd \in Widths, pr \in Precs,
                    c \in {"", "a", "20AC", "D83D", "DE00"}}

Unknown == P!Dir(<<"#">>, P!Without, P!Without, <<>>, "y", [num |-> 0])
Name == P!Dir(<<>>, P!Without, P!Without, <<>>, "s", [str |-> <<"x", "y">>])
Euro == P!Dir(<<>>, P!Without, P!Without, <<"l">>, "s", [str |-> <<"20AC", "00E9">>])
Mixed == Seqs(3, {P!Char("a"), P!Percent, Name, Euro, Unknown})

\* The one departure from C: `%#x' of zero.  The text meant is then the commented one, which
\* has an 0x that C's has not; everywhere else they are the same.
ZeroHex(p) == /\ p.kind = "dir" /\ p.conv \in {"x", "X", "p"} /\ P!Flag(p, "#")
              /\ P!Value(p) = 0 /\ ~(P!Limit(p) /\ p.prec.n = 0)

ASSUME DepartsFromC ==
    \A p \in Numbers \cup Casts : ZeroHex(p) <=> P!Padded(p) # Commented!Padded(p)

Text(parts) == IF \E i \in DOMAIN parts : ZeroHex(parts[i]) THEN Commented!Meant(parts)
               ELSE P!Meant(parts)

Call(parts, size) == [fmt |-> P!Format(parts), args |-> P!Passed(parts), size |-> size,
                      meant |-> Text(parts)]

MCCalls == {Call(<<p>>, 20) : p \in Numbers \cup Casts}
             \cup {Call(<<p>>, n) : p \in Narrow \cup Chars, n \in {4, 20}}
             \cup {Call(<<P!Char("a"), p>>, n) : p \in Wide, n \in 0 .. 8}
             \cup {Call(m, n) : m \in Mixed, n \in {0, 1, 2, 5, 20}}
=============================================================================
