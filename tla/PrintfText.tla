----------------------------- MODULE PrintfText -----------------------------
(***************************************************************************)
(* What a call of the printf family asks for: the text of each part of its *)
(* format.  A part is a character by itself, or a directive with its       *)
(* argument; Format and Passed are how its caller writes it.  A text is a  *)
(* sequence of characters, a character a sequence of octets.               *)
(*                                                                         *)
(* The text is the one C prescribes.  Where C leaves a call undefined, it  *)
(* is the one the comments of drivers/firmware/efi/libstub/vsprintf.c      *)
(* describe: the text ends at a conversion that is none (lines 400-407),   *)
(* half a pair of surrogates is U+FFFD (255-260) and is not counted where  *)
(* it may be a pair that does not fit (227-232), and a null string has a   *)
(* name.  There is one call C defines and those comments define otherwise, *)
(* a hexadecimal zero with `#': ZeroPrefix says which of them is meant.    *)
(***************************************************************************)
EXTENDS Integers, Sequences, SequencesExt, FiniteSetsExt

CONSTANTS
    Bits, PointerSize, High, Low, Utf8, Null,   \* see Vsnprintf
    ZeroPrefix          \* FALSE: C, where 0x is put before a result that is not zero; TRUE:
                        \* vsprintf.c:435-439, where it is left out only if there is no digit

\* A character, `%%', and a directive: its flags as they are written, its width and its
\* precision, its qualifier and conversion, its argument.
Char(c) == [kind |-> "char", c |-> c]
Percent == [kind |-> "percent"]
Dir(flags, width, prec, qual, conv, arg) ==
    [kind |-> "dir", flags |-> flags, width |-> width, prec |-> prec, qual |-> qual,
     conv |-> conv, arg |-> arg]

\* A number that is not given, one in the format, one passed for a `*'.
Without == [text |-> <<>>, args |-> <<>>, n |-> -1]
Given(text, n) == [text |-> text, args |-> <<>>, n |-> n]
Star(n) == [text |-> <<"*">>, args |-> <<[num |-> n]>>, n |-> n]

Valid(p) == p.conv \in {"c", "s", "o", "p", "x", "X", "d", "i", "u"}

Format(parts) ==
    FlattenSeq([i \in DOMAIN parts |->
        LET p == parts[i]
        IN  CASE p.kind = "char" -> <<p.c>>
              [] p.kind = "percent" -> <<"%", "%">>
              [] p.kind = "dir" -> <<"%">> \o p.flags \o p.width.text
                     \o (IF p.prec = Without THEN <<>> ELSE <<".">> \o p.prec.text)
                     \o p.qual \o <<p.conv>>])

Passed(parts) ==
    FlattenSeq([i \in DOMAIN parts |->
        IF parts[i].kind # "dir" THEN <<>>
        ELSE parts[i].width.args \o parts[i].prec.args \o <<parts[i].arg>>])

-----------------------------------------------------------------------------
\* Text of n times an octet.
Times(n, c) == [i \in 1 .. n |-> <<c>>]
Width(text) == Len(FlattenSeq(text))

Type(p) ==
    IF p.conv = "p" \/ p.qual = <<"l">> THEN "l"
    ELSE CASE p.qual = <<>> -> ""
           [] p.qual = <<"h">> -> "h"
           [] p.qual = <<"h", "h">> -> "H"
           [] p.qual = <<"l", "l">> -> "L"

\* The value of the type the directive names that its argument is congruent to.
Value(p) ==
    LET range == 2 ^ Bits[Type(p)]
        half == range \div 2
    IN  CHOOSE v \in IF p.conv \in {"d", "i"} THEN -half .. half - 1 ELSE 0 .. range - 1 :
            (v - p.arg.num) % range = 0

Glyphs(p) ==
    IF p.conv = "X"
    THEN <<"0", "1", "2", "3", "4", "5", "6", "7", "8", "9", "A", "B", "C", "D", "E", "F">>
    ELSE <<"0", "1", "2", "3", "4", "5", "6", "7", "8", "9", "a", "b", "c", "d", "e", "f">>

\* The digits of n: as many as needed, and at least `least' of them.
Numeral(n, base, least, glyphs) ==
    LET count == CHOOSE k \in least .. least + 64 :
                     n < base ^ k /\ (k = least \/ n >= base ^ (k - 1))
    IN  [i \in 1 .. count |-> <<glyphs[1 + ((n \div base ^ (count - i)) % base)]>>]

Flag(p, c) == \E i \in DOMAIN p.flags : p.flags[i] = c
LeftJustified(p) == Flag(p, "-") \/ (p.width # Without /\ p.width.n < 0)
FieldWidth(p) == IF p.width = Without THEN 0 ELSE IF p.width.n < 0 THEN -p.width.n ELSE p.width.n
Limit(p) == p.prec # Without /\ p.prec.n >= 0

\* A number: its sign or prefix, then its digits, in the base and with the least count the
\* directive says.  `#' makes an octal number start with 0 and puts 0x before a hexadecimal
\* one.
Numbers(p) ==
    LET v == Value(p)
        n == IF v < 0 THEN -v ELSE v
        base == CASE p.conv = "o" -> 8 [] p.conv \in {"x", "X", "p"} -> 16 [] OTHER -> 10
        least == IF Limit(p) THEN p.prec.n ELSE IF p.conv = "p" THEN 2 * PointerSize ELSE 1
        plain == Numeral(n, base, least, Glyphs(p))
        digits == IF p.conv = "o" /\ Flag(p, "#") /\ (plain = <<>> \/ plain[1] # <<"0">>)
                  THEN <<<<"0">>>> \o plain ELSE plain
        sign == IF p.conv \notin {"d", "i"} THEN <<>>
                ELSE IF v < 0 THEN Times(1, "-")
                ELSE IF Flag(p, "+") THEN Times(1, "+")
                ELSE IF Flag(p, " ") THEN Times(1, " ") ELSE <<>>
        prefix == IF /\ base = 16 /\ Flag(p, "#")
                     /\ n # 0 \/ (ZeroPrefix /\ digits # <<>>)
                  THEN <<<<"0">>, <<IF p.conv = "X" THEN "X" ELSE "x">>>> ELSE <<>>
        room == FieldWidth(p) - Len(sign) - Len(prefix) - Len(digits)
    IN  sign \o prefix
          \o (IF Flag(p, "0") /\ ~LeftJustified(p) /\ ~Limit(p) THEN Times(room, "0") ELSE <<>>)
          \o digits

\* A wide string: each pair of surrogates is one character, a surrogate without its other
\* half is shown as U+FFFD.
Starts(s) == {i \in DOMAIN s : ~(i > 1 /\ s[i] \in Low /\ s[i - 1] \in High)}
WideChars(s) ==
    LET starts == SetToSortSeq(Starts(s), <)
    IN  [k \in DOMAIN starts |->
            LET i == starts[k]
            IN  IF s[i] \in High /\ i < Len(s) /\ s[i + 1] \in Low THEN Utf8[<<s[i], s[i + 1]>>]
                ELSE IF s[i] \in High \cup Low THEN Utf8[<<"FFFD">>] ELSE Utf8[<<s[i]>>]]

\* The first characters of a text that take no more octets than the precision says.  A high
\* surrogate without its other half is left out when it would take the last octets: the
\* formatter does not read on to see whether it is a pair.
Cut(p, text, alone) ==
    IF ~Limit(p) THEN text
    ELSE SubSeq(text, 1,
             Max({n \in 0 .. Len(text) :
                     /\ Width(SubSeq(text, 1, n)) <= p.prec.n
                     /\ \A k \in 1 .. n : alone[k] => Width(SubSeq(text, 1, k)) < p.prec.n}))

Narrow(s) == [i \in DOMAIN s |-> <<s[i]>>]
Never(text) == [k \in DOMAIN text |-> FALSE]

Strings(p) ==
    IF p.arg.str = Null
    THEN IF Limit(p) /\ p.prec.n < 6 THEN <<>> ELSE Narrow(<<"(", "n", "u", "l", "l", ")">>)
    ELSE IF p.qual = <<"l">>
    THEN LET starts == SetToSortSeq(Starts(p.arg.str), <)
         IN  Cut(p, WideChars(p.arg.str),
                 [k \in DOMAIN starts |->
                     LET i == starts[k]
                     IN  p.arg.str[i] \in High /\ ~(i < Len(p.arg.str) /\ p.arg.str[i + 1] \in Low)])
    ELSE Cut(p, Narrow(p.arg.str), Never(p.arg.str))

\* A wide character that is a terminator is no text.
Chars(p) ==
    IF p.qual # <<"l">> THEN <<<<p.arg.chr>>>>
    ELSE IF p.arg.chr = "" THEN <<>> ELSE WideChars(<<p.arg.chr>>)

Body(p) == CASE p.conv = "c" -> Chars(p) [] p.conv = "s" -> Strings(p) [] OTHER -> Numbers(p)

Padded(p) ==
    LET body == Body(p)
        pad == Times(FieldWidth(p) - Width(body), " ")
    IN  IF LeftJustified(p) THEN body \o pad ELSE pad \o body

\* The text ends before the first directive that is none.
Meant(parts) ==
    LET bad == {i \in DOMAIN parts : parts[i].kind = "dir" /\ ~Valid(parts[i])}
        end == IF bad = {} THEN Len(parts) ELSE Min(bad) - 1
    IN  FlattenSeq([i \in 1 .. end |->
            CASE parts[i].kind = "char" -> <<<<parts[i].c>>>>
              [] parts[i].kind = "percent" -> <<<<"%">>>>
              [] parts[i].kind = "dir" -> Padded(parts[i])])
=============================================================================
