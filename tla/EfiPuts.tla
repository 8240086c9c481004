------------------------------ MODULE EfiPuts ------------------------------
(***************************************************************************)
(* efi_puts of drivers/firmware/efi/libstub/printk.c: a UTF-8 string goes  *)
(* to the firmware's console as UTF-16, in pieces that fit a buffer on the *)
(* stack.  One step is one turn of the loop.                               *)
(***************************************************************************)
EXTENDS Integers, Sequences, SequencesExt, FiniteSets

CONSTANTS
    Lim,                \* ARRAY_SIZE(buf)
    Texts,              \* texts, as sequences of Unicode characters
    Strays              \* strings that are not the encoding of a text, as sequences of octets

\* The octets of a string; a zero ends it.
StrOctet == 1 .. 255

ASSUME PutsAssumption == Lim \in Nat /\ Lim >= 3
ASSUME StraysAssumption == Strays \subseteq Seq(StrOctet)

VARIABLES
    str,                \* the string, without its terminating zero
    s8,                 \* the octet to read next
    buf,                \* the first pos words of the buffer
    out,                \* the pieces given to efi_char16_puts
    seen,               \* history: the last octet looked at
    meant               \* history: the text the string encodes, a set of at most one

vars == <<str, s8, buf, out, seen, meant>>

Octet(i) == IF i <= Len(str) THEN str[i] ELSE 0

-----------------------------------------------------------------------------
\* Characters, octets and words: what UTF-8 and UTF-16 are.

Surrogate(c) == c \in 55296 .. 57343

\* The octets a character is encoded in, and the least character that takes n octets.
Octets(c) == IF c < 128 THEN 1 ELSE IF c < 2048 THEN 2 ELSE IF c < 65536 THEN 3 ELSE 4

Trail(c, unit) == 128 + ((c \div unit) % 64)

Utf8(c) ==
    IF Octets(c) = 1 THEN <<c>>
    ELSE IF Octets(c) = 2 THEN <<192 + c \div 64, Trail(c, 1)>>
    ELSE IF Octets(c) = 3 THEN <<224 + c \div 4096, Trail(c, 64), Trail(c, 1)>>
    ELSE <<240 + c \div 262144, Trail(c, 4096), Trail(c, 64), Trail(c, 1)>>

Utf16(c) ==
    IF c < 65536 THEN <<c>>
    ELSE <<55296 + (c - 65536) \div 1024, 56320 + ((c - 65536) % 1024)>>

Encoded(text) == FlattenSeq([i \in DOMAIN text |-> Utf8(text[i])])

\* A text has no zero in it: the string that encodes it ends at its end.
ASSUME TextsAssumption == \A text \in Texts : Encoded(text) \in Seq(StrOctet)

\* The console wants a carriage return before a line feed.
LineFeed == 10
CarriageReturn == 13
Wanted(text) ==
    FlattenSeq([i \in DOMAIN text |->
        IF text[i] = LineFeed THEN <<CarriageReturn, LineFeed>> ELSE Utf16(text[i])])

-----------------------------------------------------------------------------
\* Definitions marked `slip' are not the code's: each is a plausible mistake in the
\* definition that follows it, and some property must tell the two apart.

\* utf8_to_utf32: the leading one bits of the first octet give the length.
Leads == {128, 192, 224, 240, 248, 252, 254, 255}
LeadingOnes(octet) == Cardinality({lead \in Leads : lead <= octet})

\* The trailing octets that follow octet i, up to the first that is not one.
TrailingOctets(i, n) ==
    Cardinality({k \in 1 .. n - 1 : \A j \in 1 .. k : Octet(i + j) \div 64 = 2})

\* The bits of n octets from octet i on.
Low(i) == Octet(i) % 64
Bits(i, n) ==
    IF n = 2 THEN (Octet(i) % 32) * 64 + Low(i + 1)
    ELSE IF n = 3 THEN (Octet(i) % 16) * 4096 + Low(i + 1) * 64 + Low(i + 2)
    ELSE (Octet(i) % 8) * 262144 + Low(i + 1) * 4096 + Low(i + 2) * 64 + Low(i + 3)

\* `(c32 & 0xf800) == 0xd800' compares five bits of the character's low word.
LooksLikeSurrogate(c) == (c % 65536) \div 2048 = 27

Valid(c, n) == c <= 1114111 /\ ~LooksLikeSurrogate(c) /\ Octets(c) = n

\* The character at octet i, and the octets it takes: the first octet by itself when the
\* octets are not an encoding.
Decoded(i) ==
    LET n == LeadingOnes(Octet(i))
        alone == [char |-> Octet(i), octets |-> 1]
    IN  IF n \notin 2 .. 4 \/ TrailingOctets(i, n) < n - 1 THEN alone
        ELSE IF Valid(Bits(i, n), n) THEN [char |-> Bits(i, n), octets |-> n]
        ELSE alone

\* The last octet utf8_to_utf32 looks at: the first that is no trailing octet.
LookedAtAll(i) ==                                                      \* slip
    LET n == LeadingOnes(Octet(i)) IN IF n \notin 2 .. 4 THEN i ELSE i + n - 1
LookedAt(i) ==
    LET n == LeadingOnes(Octet(i))
        trailing == TrailingOctets(i, n)
    IN  IF n \notin 2 .. 4 THEN i
        ELSE IF trailing < n - 1 THEN i + trailing + 1 ELSE i + n - 1

\* The words for a character; the first of a pair is computed from the character itself.
FirstOfPair(c) == 55296 + c \div 1024                                  \* slip
HighWord(c) == 55296 - 64 + c \div 1024
Words(c) == IF c < 65536 THEN <<c>> ELSE <<HighWord(c), 56320 + (c % 1024)>>

Before(octet) == IF octet = LineFeed THEN <<CarriageReturn>> ELSE <<>>

\* The buffer is sent when the next turn might not fit.
NoRoomForPair(pos) == pos >= Lim - 1                                   \* slip
Full(pos) == pos >= Lim - 2

Init ==
    /\ \/ \E text \in Texts : str = Encoded(text) /\ meant = {text}
       \/ str \in Strays /\ meant = {}
    /\ s8 = 1 /\ buf = <<>> /\ out = <<>> /\ seen = 0

Turn ==
    /\ Octet(s8) # 0
    /\ LET d == Decoded(s8)
           filled == buf \o Before(Octet(s8)) \o Words(d.char)
       IN  /\ s8' = s8 + d.octets
           /\ seen' = LookedAt(s8)
           /\ \/ /\ Octet(s8') = 0 \/ Full(Len(filled))
                 /\ out' = Append(out, filled) /\ buf' = <<>>
              \/ /\ ~(Octet(s8') = 0 \/ Full(Len(filled)))
                 /\ buf' = filled /\ UNCHANGED out
    /\ UNCHANGED <<str, meant>>

Spec == Init /\ [][Turn]_vars

-----------------------------------------------------------------------------
Word == {w \in Nat : w <= 65535}

TypeOK ==
    /\ str \in Seq(StrOctet)
    /\ s8 \in 1 .. Len(str) + 1
    /\ buf \in Seq(Word) /\ out \in Seq(Seq(Word))
    /\ seen \in 0 .. Len(str) + 3
    /\ meant \subseteq Texts

\* The words of a turn, up to two, and the zero that ends a piece fit in the buffer,
\* whatever is left in it from the turns before.
InBuffer == Len(buf) < Lim - 2 /\ \A i \in DOMAIN out : Len(out[i]) < Lim

\* A first octet that promises more octets than the string has left does not make
\* utf8_to_utf32 look behind the zero that ends it.
StopsAtZero == seen <= Len(str) + 1

\* A text whose every character is in the Unicode range and no surrogate ("- The
\* character must be in the Unicode range. - It must not be a surrogate.", printk.c:53-54)
\* is shown as it is, however it is cut into pieces.
TextShown ==
    s8 > Len(str) => \A text \in meant : FlattenSeq(out) = Wanted(text)
=============================================================================
