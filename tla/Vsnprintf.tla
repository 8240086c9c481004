----------------------------- MODULE Vsnprintf -----------------------------
(***************************************************************************)
(* vsnprintf of drivers/firmware/efi/libstub/vsprintf.c, which printk and  *)
(* efi_printk call with a buffer of 256 bytes on their stack.  A step      *)
(* reads one character or one directive of the format, or writes one       *)
(* character of the text.                                                  *)
(*                                                                         *)
(* An octet is a string: a character of ASCII stands for itself, "" is the *)
(* terminator, an octet of a longer encoding is written in hexadecimal.    *)
(* The words of a wide string are written the same way.                    *)
(***************************************************************************)
EXTENDS Integers, Sequences, SequencesExt, FiniteSetsExt

CONSTANTS
    Calls,              \* [fmt, args, size, meant]: the calls, and the text each asks for
    Bits,               \* the width of char, short, int, long and long long, by qualifier
    PointerSize,        \* sizeof(void *)
    One, Two,           \* the words whose encoding takes one and two octets
    High, Low,          \* the high and the low surrogates
    Utf8,               \* the encoding of a word, and of a pair of surrogates
    Null                \* a null pointer

ASSUME CallsAssumption == \A c \in Calls : c.size \in Nat
ASSUME Utf8Assumption == \A key \in DOMAIN Utf8 : Utf8[key] \in Seq(STRING) \ {<<>>}

Nul == ""
Running == -1
IntMax == 2147483647

VARIABLES
    call,               \* the arguments of the call
    f, a,               \* the next character of the format and the next argument
    todo,               \* the octets to write next
    words, w, len,      \* then the wide string, its next word, the octets it still takes
    right,              \* then so many spaces
    buf, pos,
    ret,                \* the result, or Running
    strays,             \* history: stores outside the buffer
    shown, kept, cut    \* history: the text that fits, its length, whether more was written

place == <<f, a>>
field == <<todo, words, w, len, right>>
store == <<buf, pos, strays, shown, kept, cut>>
vars == <<call, place, field, store, ret>>

-----------------------------------------------------------------------------
\* Definitions marked `slip' are not the code's: each is a plausible mistake in the
\* definition that follows it, and some property must tell the two apart.

\* Reading the format, which ends with a zero.
Fmt(i) == IF i <= Len(call.fmt) THEN call.fmt[i] ELSE Nul

\* The argument of a number, a character or a pointer to a string: [num |-> n] and so on.
Arg(i) == call.args[i]

FlagChars == {"-", "+", " ", "#", "0"}
SmallDigits == <<"0", "1", "2", "3", "4", "5", "6", "7", "8", "9", "a", "b", "c", "d", "e", "f">>
LargeDigits == <<"0", "1", "2", "3", "4", "5", "6", "7", "8", "9", "A", "B", "C", "D", "E", "F">>
Digit == [d \in ToSet(SubSeq(SmallDigits, 1, 10)) |->
              CHOOSE n \in 0 .. 9 : SmallDigits[n + 1] = d]

\* The first character from i on that is not in S.
Past(i, S) ==
    LET past[j \in 1 .. Len(call.fmt) + 1] == IF Fmt(j) \in S THEN past[j + 1] ELSE j
    IN  past[i]

\* get_int: a number in digits, the next argument, or zero.
Number(digits) == FoldLeft(LAMBDA n, d : 10 * n + Digit[d], 0, digits)

GetInt(i, arg) ==
    LET end == Past(i, DOMAIN Digit)
    IN  IF Fmt(i) = "*" THEN [n |-> Arg(arg).num, at |-> i + 1, arg |-> arg + 1]
        ELSE [n |-> Number(SubSeq(call.fmt, i, end - 1)), at |-> end, arg |-> arg]

\* The qualifier at character i: how many letters, and the one they stand for.
Letters(i) == IF Fmt(i) \notin {"h", "l"} THEN 0 ELSE IF Fmt(i + 1) = Fmt(i) THEN 2 ELSE 1
Qualifier(i) == CASE Letters(i) = 0 -> ""
                  [] Letters(i) = 1 -> Fmt(i)
                  [] Letters(i) = 2 -> [h |-> "H", l |-> "L"][Fmt(i)]

\* A zero flag means nothing to a field that is left justified or has a precision.
ZerosAnyway(flags, prec) == flags                                      \* slip
WithoutZeros(flags, prec) ==
    IF "-" \in flags \/ prec >= 0 THEN flags \ {"0"} ELSE flags

\* The directive whose flags start at character i, and what follows it.
Directive(i) ==
    LET width == GetInt(Past(i, FlagChars), a)
        prec == IF Fmt(width.at) = "." THEN GetInt(width.at + 1, width.arg)
                ELSE [width EXCEPT !.n = -1]
        flags == {Fmt(j) : j \in i .. Past(i, FlagChars) - 1}
                   \cup (IF width.n < 0 THEN {"-"} ELSE {})
        conv == prec.at + Letters(prec.at)
    IN  [flags |-> WithoutZeros(flags, prec.n),
         width |-> IF width.n < 0 THEN -width.n ELSE width.n,
         prec |-> prec.n,
         qual |-> Qualifier(prec.at),
         conv |-> Fmt(conv),
         at |-> conv + 1, arg |-> prec.arg]

-----------------------------------------------------------------------------
\* Numbers.

Signed == {"d", "i"}
Base == [c \in {"o", "p", "x", "X", "d", "i", "u"} |->
             IF c = "o" THEN 8 ELSE IF c \in {"p", "x", "X"} THEN 16 ELSE 10]

\* get_number: the argument cast to the type the directive names.
Cast(d, v) ==
    LET range == 2 ^ Bits[IF d.conv = "p" THEN "l" ELSE d.qual]
        low == v % range
    IN  IF d.conv \in Signed /\ 2 * low >= range THEN low - range ELSE low

\* get_sign, then number: a sign and the digits of an unsigned long long, none for zero.
Sign(d, num) ==
    IF d.conv \notin Signed THEN ""
    ELSE IF num < 0 THEN "-"
    ELSE IF "+" \in d.flags THEN "+" ELSE IF " " \in d.flags THEN " " ELSE ""

Digits(n, base, glyphs) ==
    LET count == CHOOSE k \in 0 .. Bits["L"] : n < base ^ k /\ (k > 0 => n >= base ^ (k - 1))
    IN  [i \in 1 .. count |-> glyphs[1 + ((n \div base ^ (count - i)) % base)]]

Magnitude(d, num) ==
    Digits((IF num < 0 THEN -num ELSE num) % 2 ^ Bits["L"], Base[d.conv],
           IF d.conv = "X" THEN LargeDigits ELSE SmallDigits)

HexPrefix(d, prec) == "#" \in d.flags /\ Base[d.conv] = 16 /\ prec > 0

Precision(d, count) ==
    LET asked == IF d.prec >= 0 THEN d.prec ELSE IF d.conv = "p" THEN 2 * PointerSize ELSE 1
        prec == Max({asked, count})
    IN  IF "#" \in d.flags /\ d.conv = "o" /\ prec = count THEN prec + 1 ELSE prec

\* What a number writes before its digits, and after them, in the order of the code.
Blanks(n) == [i \in 1 .. n |-> " "]
Zeros(n) == [i \in 1 .. n |-> "0"]

NumberField(d, v) ==
    LET num == Cast(d, v)
        sign == IF Sign(d, num) = "" THEN <<>> ELSE <<Sign(d, num)>>
        digits == Magnitude(d, num)
        prec == Precision(d, Len(digits))
        prefix == IF HexPrefix(d, prec) THEN <<"0", IF d.conv = "X" THEN "X" ELSE "x">> ELSE <<>>
        width == d.width - Len(sign) - Len(prefix)
        prec2 == IF "0" \in d.flags THEN Max({prec, width}) ELSE prec
    IN  [head |-> sign \o prefix \o Zeros(prec2 - Len(digits)) \o digits,
         words |-> <<>>, len |-> 0, pad |-> width - prec2]

-----------------------------------------------------------------------------
\* Characters and strings.

\* strnlen.
NarrowField(d, s) ==
    LET n == IF d.prec >= 0 THEN Min({d.prec, Len(s)}) ELSE Len(s)
    IN  [head |-> SubSeq(s, 1, n), words |-> <<>>, len |-> 0, pad |-> d.width - n]

Word(s, i) == IF i <= Len(s) THEN s[i] ELSE Nul

\* utf16s_utf8nlen: the octets of the longest part of s that takes at most max of them.
\* A high surrogate that would fill the rest is left out unread.
NeverThree(word) == IF word \in One THEN 1 ELSE 2                       \* slip
WideCount(word) == IF word \in One THEN 1 ELSE IF word \in Two THEN 2 ELSE 3

Unread(s, i, n, max) == Word(s, i) \in High /\ n + 3 = max

IsPair(s, i) == Word(s, i) \in High /\ Word(s, i + 1) \in Low

WideLen(s, max) ==
    LET count[i \in 1 .. Len(s) + 1, n \in 0 .. 4 * Len(s)] ==
            LET clen == WideCount(Word(s, i))
            IN  IF i > Len(s) \/ n + clen > max \/ Unread(s, i, n, max) THEN n
                ELSE IF IsPair(s, i) THEN count[i + 2, n + 4] ELSE count[i + 1, n + clen]
    IN  count[1, 0]

WideField(d, s, max) ==
    [head |-> <<>>, words |-> s, len |-> WideLen(s, max), pad |-> d.width - WideLen(s, max)]

\* The text of a directive: `c' ignores the precision, and a string that is not there has
\* a name if there is room for it.
StringField(d, s) ==
    IF s = Null
    THEN NarrowField(d, IF d.prec \in 0 .. 5 THEN <<>> ELSE <<"(", "n", "u", "l", "l", ")">>)
    ELSE IF d.qual = "l" THEN WideField(d, s, IF d.prec >= 0 THEN d.prec ELSE IntMax)
    ELSE NarrowField(d, s)

CharField(d, c) ==
    IF d.qual = "l" THEN WideField(d, IF c = Nul THEN <<>> ELSE <<c>>, IntMax)
    ELSE NarrowField([d EXCEPT !.prec = 1], <<c>>)

Field(d) ==
    CASE d.conv = "c" -> CharField(d, Arg(d.arg).chr)
      [] d.conv = "s" -> StringField(d, Arg(d.arg).str)
      [] d.conv \in DOMAIN Base -> NumberField(d, Arg(d.arg).num)

-----------------------------------------------------------------------------
\* Writing.

\* PUTC: every character counts, the buffer keeps those it has room for.
RoomAtEnd(i) == i <= call.size                                         \* slip
Room(i) == i < call.size

\* A character of several octets is written only if its end and a terminator fit; a
\* terminator takes its place otherwise.
EndFits(end) == end <= call.size                                       \* slip
Fits(end) == end < call.size

Written(char) ==
    LET end == pos + Len(char)
    IN  IF Len(char) > 1 /\ Fits(end) THEN [i \in pos .. end - 1 |-> char[(i - pos) + 1]]
        ELSE [i \in {j \in {pos} : Room(j)} |-> IF Len(char) = 1 THEN char[1] ELSE Nul]

Stored(cells) == /\ buf' = [i \in DOMAIN buf |-> IF i \in DOMAIN cells THEN cells[i] ELSE buf[i]]
                 /\ strays' = strays \cup (DOMAIN cells \ DOMAIN buf)

\* The text that fits grows until a character does not fit with a terminator behind it.
Shown(char) ==
    IF ~cut /\ kept + Len(char) < call.size
    THEN /\ shown' = [i \in 0 .. (kept + Len(char)) - 1 |->
                          IF i < kept THEN shown[i] ELSE char[(i - kept) + 1]]
         /\ kept' = kept + Len(char) /\ UNCHANGED cut
    ELSE cut' = TRUE /\ UNCHANGED <<shown, kept>>

Put(char) == Stored(Written(char)) /\ pos' = pos + Len(char) /\ Shown(char)

-----------------------------------------------------------------------------
Start(c) ==
    /\ call = c /\ f = 1 /\ a = 1
    /\ todo = <<>> /\ words = <<>> /\ w = 1 /\ len = 0 /\ right = 0
    /\ buf = [i \in 0 .. c.size - 1 |-> Null] /\ pos = 0 /\ ret = Running
    /\ strays = {} /\ shown = <<>> /\ kept = 0 /\ cut = FALSE

Init == \E c \in Calls : Start(c)

Between == ret = Running /\ todo = <<>> /\ len = 0 /\ right = 0

\* A character that is not a directive, or a `%%'.
Plain ==
    /\ Between /\ Fmt(f) # Nul
    /\ Fmt(f) # "%" \/ Fmt(f + 1) = "%"
    /\ LET i == IF Fmt(f) = "%" THEN f + 1 ELSE f IN Put(<<Fmt(i)>>) /\ f' = i + 1
    /\ UNCHANGED <<call, a, field, ret>>

\* A directive: what it writes is decided before any of it is written.
Begin ==
    /\ Between /\ Fmt(f) = "%" /\ Fmt(f + 1) # "%"
    /\ \E d \in {Directive(f + 1)} :
           /\ d.conv \in {"c", "s"} \cup DOMAIN Base
           /\ \E x \in {Field(d)} :
                  LET left == "-" \in d.flags
                  IN  /\ todo' = Blanks(IF left THEN 0 ELSE x.pad) \o x.head
                      /\ words' = x.words /\ w' = 1 /\ len' = x.len
                      /\ right' = IF left /\ x.pad > 0 THEN x.pad ELSE 0
           /\ f' = d.at /\ a' = d.arg + 1
    /\ UNCHANGED <<call, store, ret>>

PutNext ==
    /\ todo # <<>>
    /\ Put(<<Head(todo)>>) /\ todo' = Tail(todo)
    /\ UNCHANGED <<call, place, words, w, len, right, ret>>

\* utf16_to_utf32 and the octets of its result; behind the string there is its terminator,
\* and what lies behind that is read as one too.
Pair(i) == Word(words, i) \in High /\ Word(words, i + 1) \in Low
WideChar(i) ==
    LET key == IF Pair(i) THEN <<Word(words, i), Word(words, i + 1)>>
               ELSE IF Word(words, i) \in High \cup Low THEN <<"FFFD">> ELSE <<Word(words, i)>>
    IN  IF key \in DOMAIN Utf8 THEN Utf8[key] ELSE <<Nul>>

\* `len' counts down the octets that utf16s_utf8nlen counted up, and is a size_t: where the
\* two decoders disagree on a character it wraps round and the loop goes on.
SizeRange == 2 ^ Bits["l"]

PutWide ==
    /\ todo = <<>> /\ len # 0
    /\ Put(WideChar(w)) /\ len' = (len - Len(WideChar(w))) % SizeRange
    /\ w' = IF Pair(w) THEN w + 2 ELSE w + 1
    /\ UNCHANGED <<call, place, todo, words, right, ret>>

PutRight ==
    /\ todo = <<>> /\ len = 0 /\ right > 0
    /\ Put(<<" ">>) /\ right' = right - 1
    /\ UNCHANGED <<call, place, todo, words, w, len, ret>>

\* The end of the format, or a directive that is none: the text ends there.
Bad(i) == Fmt(i) = "%" /\ Fmt(i + 1) # "%" /\ Directive(i + 1).conv \notin {"c", "s"} \cup DOMAIN Base

TerminatorAt == IF pos < call.size - 1 THEN pos ELSE call.size - 1

Return ==
    /\ Between
    /\ Fmt(f) = Nul \/ Bad(f)
    /\ Stored([i \in {j \in {TerminatorAt} : call.size > 0} |-> Nul])
    /\ ret' = pos
    /\ UNCHANGED <<call, place, field, pos, shown, kept, cut>>

Next == Plain \/ Begin \/ PutNext \/ PutWide \/ PutRight \/ Return

Spec == Init /\ [][Next]_vars

-----------------------------------------------------------------------------
\* No store is outside the buffer, whatever the text and the size.
InBuffer == strays = {}

\* What the buffer holds is the text as far as it fits, and a terminator behind it.
HoldsWhatFits ==
    /\ \A i \in 0 .. kept - 1 : i \in DOMAIN buf /\ buf[i] = shown[i]
    /\ ret # Running /\ call.size > 0 => kept \in DOMAIN buf /\ buf[kept] = Nul

\* The text is the one that the call means, whole characters of it are shown, and the
\* result is its length, whatever part of it fits; no word behind the terminator of a wide
\* string is read, as it would be if `len' wrapped round.
Fitting(text, size) ==
    LET ends == [n \in 0 .. Len(text) |-> Len(FlattenSeq(SubSeq(text, 1, n)))]
    IN  SubSeq(text, 1, Max({n \in DOMAIN ends : n = 0 \/ ends[n] < size}))
AsMeant ==
    /\ w \in 1 .. Len(words) + 1
    /\ ret # Running =>
           /\ ret = Len(FlattenSeq(call.meant))
           /\ [i \in 1 .. kept |-> shown[i - 1]] = FlattenSeq(Fitting(call.meant, call.size))
=============================================================================
