---------------------------- MODULE EfiPutsProofs ----------------------------
(***************************************************************************)
(* efi_puts keeps to its buffer and to its string, whatever the string: a  *)
(* text, octets that encode nothing, an encoding cut off by the end.  A    *)
(* text of any length is shown as it is.                                   *)
(***************************************************************************)
EXTENDS EfiPuts, FiniteSetTheorems, SequenceTheorems, WellFoundedInduction, TLAPS

IInv == TypeOK /\ InBuffer /\ StopsAtZero

-----------------------------------------------------------------------------
LEMMA StrOctetIs == \A o \in StrOctet : o \in Nat /\ o # 0 /\ o <= 1114111
BY DEF StrOctet

\* Reading is by octets: a value other than zero is an octet of the string.
LEMMA OctetRead ==
    ASSUME str \in Seq(StrOctet), NEW i \in Nat \ {0}
    PROVE  /\ Octet(i) \in Nat /\ Octet(i) <= 1114111
           /\ Octet(i) # 0 => i <= Len(str)
           /\ i <= Len(str) => Octet(i) # 0
<1>1. CASE i <= Len(str)
  <2>1. i \in 1 .. Len(str)
    BY <1>1
  <2>2. str[i] \in StrOctet
    BY <2>1
  <2>3. Octet(i) = str[i]
    BY <1>1 DEF Octet
  <2> QED
    BY <1>1, <2>2, <2>3, StrOctetIs
<1>2. CASE ~(i <= Len(str))
  <2>1. Octet(i) = 0
    BY <1>2 DEF Octet
  <2> QED
    BY <1>2, <2>1, SMT
<1> QED
  BY <1>1, <1>2

\* utf8_to_utf32 counts trailing octets only as far as the string goes: the zero that
\* ends it is none.
LEMMA TrailingEnds ==
    ASSUME str \in Seq(StrOctet), NEW i \in 1 .. Len(str), NEW n \in 2 .. 4
    PROVE  TrailingOctets(i, n) \in 0 .. n - 1 /\ i + TrailingOctets(i, n) <= Len(str)
<1> DEFINE D == {k \in 1 .. n - 1 : \A j \in 1 .. k : Octet(i + j) \div 64 = 2}
<1>1. \A k \in D : \A j \in 1 .. k : j \in D
  <2> SUFFICES ASSUME NEW k \in D, NEW j \in 1 .. k PROVE j \in D
    OBVIOUS
  <2>1. j \in 1 .. n - 1
    OBVIOUS
  <2>2. \A h \in 1 .. j : h \in 1 .. k
    OBVIOUS
  <2>3. \A h \in 1 .. k : Octet(i + h) \div 64 = 2
    OBVIOUS
  <2> QED
    BY <2>1, <2>2, <2>3
<1>2. \A k \in D : i + k <= Len(str)
  <2> SUFFICES ASSUME NEW k \in D PROVE i + k <= Len(str)
    OBVIOUS
  <2>1. k \in 1 .. 3 /\ i + k \in Nat \ {0}
    OBVIOUS
  <2>2. Octet(i + k) \div 64 = 2
    BY <2>1
  <2>3. Octet(i + k) # 0
    BY <2>2
  <2> QED
    BY <2>1, <2>3, OctetRead
<1>3. D \subseteq 1 .. n - 1 /\ D = {k \in 1 .. n - 1 : \A j \in 1 .. k : Octet(i + j) \div 64 = 2}
  OBVIOUS
<1> HIDE DEF D
<1>4. PICK m \in 0 .. n - 1 : D = 1 .. m
  <2>1. CASE 1 \notin D
    <3>1. D = {}
      BY <1>1, <1>3, <2>1
    <3>2. D = 1 .. 0
      BY <3>1
    <3> WITNESS 0 \in 0 .. n - 1
    <3> QED
      BY <3>2
  <2>2. CASE 1 \in D /\ 2 \notin D
    <3>1. D = 1 .. 1
      BY <1>1, <1>3, <2>2
    <3> QED
      BY <3>1
  <2>3. CASE 2 \in D /\ 3 \notin D
    <3>1. D = 1 .. 2 /\ n >= 3
      BY <1>1, <1>3, <2>3
    <3> QED
      BY <3>1
  <2>4. CASE 3 \in D
    <3>1. D = 1 .. 3 /\ n = 4
      BY <1>1, <1>3, <2>4
    <3> QED
      BY <3>1
  <2> QED
    BY <1>1, <1>3, <2>1, <2>2, <2>3, <2>4
<1>5. TrailingOctets(i, n) = m
  <2>1. Cardinality(1 .. m) = m
    BY FS_Interval
  <2> QED
    BY <1>3, <1>4, <2>1 DEF TrailingOctets
<1>6. i + m <= Len(str)
  <2>1. CASE m = 0
    BY <2>1
  <2>2. CASE m # 0
    <3>1. m \in 1 .. m
      BY <2>2
    <3>2. m \in D
      BY <1>4, <3>1
    <3> QED
      BY <1>2, <3>2
  <2> QED
    BY <2>1, <2>2
<1> QED
  BY <1>5, <1>6

\* A character takes octets of the string only, and is one of Unicode's or an octet.
LEMMA DecodedInside ==
    ASSUME str \in Seq(StrOctet), NEW i \in 1 .. Len(str)
    PROVE  /\ Decoded(i).octets \in 1 .. 4
           /\ i + Decoded(i).octets <= Len(str) + 1
           /\ Decoded(i).char \in Nat /\ Decoded(i).char <= 1114111
<1> DEFINE n == LeadingOnes(Octet(i))
           alone == [char |-> Octet(i), octets |-> 1]
<1>1. Octet(i) \in Nat /\ Octet(i) <= 1114111
  BY OctetRead
<1>2. CASE Decoded(i) = alone
  <2>1. Decoded(i).char = Octet(i) /\ Decoded(i).octets = 1
    BY <1>2
  <2> HIDE DEF n, alone
  <2> QED
    BY SMT, <1>1, <2>1
<1>3. CASE /\ n \in 2 .. 4 /\ TrailingOctets(i, n) >= n - 1 /\ Valid(Bits(i, n), n)
           /\ Decoded(i) = [char |-> Bits(i, n), octets |-> n]
  <2>1. i + n <= Len(str) + 1
    BY SMT, <1>3, TrailingEnds
  <2>2. Bits(i, n) \in Nat
    <3>1. \A k \in 1 .. 3 : Low(i + k) \in Nat
      <4> SUFFICES ASSUME NEW k \in 1 .. 3 PROVE Low(i + k) \in Nat
        OBVIOUS
      <4>1. i + k \in Nat \ {0}
        OBVIOUS
      <4>2. Octet(i + k) \in Nat
        BY <4>1, OctetRead
      <4> QED
        BY <4>2 DEF Low
    <3>2. Low(i + 1) \in Nat /\ Low(i + 2) \in Nat /\ Low(i + 3) \in Nat
      BY <3>1
    <3>3. Octet(i) % 32 \in Nat /\ Octet(i) % 16 \in Nat /\ Octet(i) % 8 \in Nat
      BY <1>1
    <3>4. \A a, b, c, d \in Nat :
              a * 64 + b \in Nat /\ a * 4096 + b * 64 + c \in Nat
                /\ a * 262144 + b * 4096 + c * 64 + d \in Nat
      BY SMT
    <3> HIDE DEF n, alone
    <3>5. PICK a2 \in Nat, a3 \in Nat, a4 \in Nat, b \in Nat, c \in Nat, d \in Nat :
              /\ a2 = Octet(i) % 32 /\ a3 = Octet(i) % 16 /\ a4 = Octet(i) % 8
              /\ b = Low(i + 1) /\ c = Low(i + 2) /\ d = Low(i + 3)
      BY Zenon, <3>2, <3>3
    <3>6. Bits(i, n) = IF n = 2 THEN a2 * 64 + b
                       ELSE IF n = 3 THEN a3 * 4096 + b * 64 + c
                       ELSE a4 * 262144 + b * 4096 + c * 64 + d
      BY SMT, <3>5 DEF Bits
    <3> QED
      BY SMT, <3>4, <3>6
  <2>3. Bits(i, n) <= 1114111
    BY SMT, <1>3 DEF Valid
  <2> QED
    BY SMT, <1>3, <2>1, <2>2, <2>3
<1>4. \/ Decoded(i) = alone
      \/ /\ n \in 2 .. 4 /\ TrailingOctets(i, n) >= n - 1 /\ Valid(Bits(i, n), n)
         /\ Decoded(i) = [char |-> Bits(i, n), octets |-> n]
  <2>1. CASE n \notin 2 .. 4
    BY <2>1 DEF Decoded
  <2>2. CASE n \in 2 .. 4
    <3>1. TrailingOctets(i, n) \in 0 .. n - 1
      BY <2>2, TrailingEnds
    <3> QED
      BY <2>2, <3>1 DEF Decoded
  <2> QED
    BY <2>1, <2>2
<1> QED
  BY SMT, <1>2, <1>3, <1>4

\* What utf8_to_utf32 looks at ends with the zero that ends the string.
LEMMA LooksInside ==
    ASSUME str \in Seq(StrOctet), NEW i \in 1 .. Len(str)
    PROVE  LookedAt(i) \in 1 .. Len(str) + 1
<1> DEFINE n == LeadingOnes(Octet(i))
<1>1. CASE n \notin 2 .. 4
  BY <1>1 DEF LookedAt
<1>2. CASE n \in 2 .. 4
  <2>1. TrailingOctets(i, n) \in 0 .. n - 1 /\ i + TrailingOctets(i, n) <= Len(str)
    BY <1>2, TrailingEnds
  <2> QED
    BY <1>2, <2>1 DEF LookedAt
<1> QED
  BY <1>1, <1>2

\* A line feed stands for itself, so its carriage return comes with one word, not two.
LEMMA LineFeedAlone ==
    ASSUME NEW i, Octet(i) = LineFeed
    PROVE  Decoded(i).char = LineFeed
<1>1. {lead \in Leads : lead <= Octet(i)} = {}
  BY DEF Leads, LineFeed
<1>2. LeadingOnes(Octet(i)) = 0
  BY <1>1, FS_EmptySet DEF LeadingOnes
<1> QED
  BY <1>2 DEF Decoded

\* The words of one character.
LEMMA WordsOfCharacter ==
    ASSUME NEW c \in Nat, c <= 1114111
    PROVE  Words(c) \in Seq(Word) /\ Len(Words(c)) \in 1 .. 2 /\ (c = LineFeed => Len(Words(c)) = 1)
<1>1. CASE c < 65536
  BY SMT, <1>1 DEF Words, Word, LineFeed
<1>2. CASE c >= 65536
  <2>1. HighWord(c) \in Word /\ 56320 + (c % 1024) \in Word
    <3>1. c \div 1024 \in Nat /\ c \div 1024 >= 64 /\ c \div 1024 <= 1087
      BY SMT, <1>2
    <3> QED
      BY SMT, <3>1 DEF HighWord, Word
  <2>2. Words(c) = <<HighWord(c), 56320 + (c % 1024)>>
    BY SMT, <1>2 DEF Words
  <2> QED
    BY SMT, <1>2, <2>1, <2>2 DEF LineFeed
<1> QED
  BY SMT, <1>1, <1>2

\* What a turn adds to the buffer: one or two words.
LEMMA TurnAdds ==
    ASSUME TypeOK, Octet(s8) # 0
    PROVE  LET filled == buf \o Before(Octet(s8)) \o Words(Decoded(s8).char)
           IN  filled \in Seq(Word) /\ Len(filled) <= Len(buf) + 2
<1> DEFINE cr == Before(Octet(s8))
           words == Words(Decoded(s8).char)
<1>1. s8 \in 1 .. Len(str) /\ str \in Seq(StrOctet)
  BY OctetRead DEF TypeOK
<1>2. Decoded(s8).char \in Nat /\ Decoded(s8).char <= 1114111
  BY <1>1, DecodedInside
<1>3. words \in Seq(Word) /\ Len(words) \in 1 .. 2 /\ (Decoded(s8).char = LineFeed => Len(words) = 1)
  BY <1>2, WordsOfCharacter
<1>4. cr \in Seq(Word) /\ Len(cr) \in 0 .. 1 /\ (Octet(s8) # LineFeed => Len(cr) = 0)
  <2>1. CarriageReturn \in Word
    BY SMT DEF CarriageReturn, Word
  <2> QED
    BY <2>1 DEF Before
<1>5. Octet(s8) = LineFeed => Decoded(s8).char = LineFeed
  BY LineFeedAlone
<1>6. buf \in Seq(Word)
  BY DEF TypeOK
<1> HIDE DEF cr, words
<1>7. Len(cr) + Len(words) <= 2
  <2>1. Len(words) = 1 \/ Len(cr) = 0
    BY Zenon, <1>3, <1>4, <1>5
  <2>2. Len(words) \in 1 .. 2 /\ Len(cr) \in 0 .. 1
    BY Zenon, <1>3, <1>4
  <2>3. \A x \in 1 .. 2, y \in 0 .. 1 : x = 1 \/ y = 0 => y + x <= 2
    BY SMT
  <2> QED
    BY Zenon, <2>1, <2>2, <2>3
<1>8. buf \o cr \in Seq(Word) /\ Len(buf \o cr) = Len(buf) + Len(cr)
  BY <1>4, <1>6
<1>9. buf \o cr \o words \in Seq(Word) /\ Len(buf \o cr \o words) = Len(buf) + Len(cr) + Len(words)
  BY <1>3, <1>8
<1>10. Len(buf \o cr \o words) <= Len(buf) + 2
  BY <1>3, <1>4, <1>6, <1>7, <1>9
<1> QED
  BY <1>9, <1>10 DEF cr, words

-----------------------------------------------------------------------------
LEMMA InitInv == Init => IInv
<1> SUFFICES ASSUME Init PROVE IInv
  OBVIOUS
<1>1. str \in Seq(StrOctet) /\ meant \subseteq Texts
  BY TextsAssumption, StraysAssumption DEF Init
<1>2. s8 = 1 /\ buf = <<>> /\ out = <<>> /\ seen = 0
  BY DEF Init
<1>3. Len(str) \in Nat /\ Len(buf) = 0 /\ DOMAIN out = {}
  BY <1>1, <1>2
<1>4. TypeOK
  BY <1>1, <1>2, <1>3 DEF TypeOK
<1>5. InBuffer
  BY <1>3, PutsAssumption DEF InBuffer
<1>6. StopsAtZero
  BY <1>2, <1>3 DEF StopsAtZero
<1> QED
  BY <1>4, <1>5, <1>6 DEF IInv

LEMMA TurnInv ==
    ASSUME IInv, Turn
    PROVE  IInv'
<1> DEFINE d == Decoded(s8)
           filled == buf \o Before(Octet(s8)) \o Words(d.char)
<1>1. /\ Octet(s8) # 0 /\ s8' = s8 + d.octets /\ seen' = LookedAt(s8)
      /\ str' = str /\ meant' = meant
  BY DEF Turn
<1>2. s8 \in 1 .. Len(str) /\ str \in Seq(StrOctet)
  BY <1>1, OctetRead DEF IInv, TypeOK
<1>3. filled \in Seq(Word) /\ Len(filled) <= Len(buf) + 2
  BY <1>1, TurnAdds DEF IInv
<1>4. s8' \in 1 .. Len(str) + 1
  <2>1. d.octets \in 1 .. 4 /\ s8 + d.octets <= Len(str) + 1
    BY <1>2, DecodedInside
  <2> HIDE DEF d
  <2> QED
    BY <1>1, <1>2, <2>1
<1>5. seen' \in 1 .. Len(str) + 1
  BY <1>1, <1>2, LooksInside
<1>6. \/ out' = Append(out, filled) /\ buf' = <<>>
      \/ ~Full(Len(filled)) /\ buf' = filled /\ out' = out
  BY DEF Turn
<1> HIDE DEF d, filled
<1>7. buf \in Seq(Word) /\ out \in Seq(Seq(Word)) /\ Len(buf) \in Nat /\ Len(filled) \in Nat
  BY <1>3 DEF IInv, TypeOK
<1>8. TypeOK'
  <2>1. buf' \in Seq(Word) /\ out' \in Seq(Seq(Word))
    <3>1. CASE out' = Append(out, filled) /\ buf' = <<>>
      <4>1. <<>> \in Seq(Word)
        OBVIOUS
      <4> QED
        BY <1>3, <1>7, <3>1, <4>1
    <3>2. CASE buf' = filled /\ out' = out
      BY <1>3, <1>7, <3>2
    <3> QED
      BY <1>6, <3>1, <3>2
  <2>2. meant \subseteq Texts
    BY DEF IInv, TypeOK
  <2>3. seen' \in 0 .. Len(str) + 3
    BY <1>2, <1>5
  <2> QED
    BY <1>1, <1>2, <1>4, <2>1, <2>2, <2>3 DEF TypeOK
<1>9. InBuffer'
  <2>1. Len(buf) < Lim - 2 /\ \A i \in DOMAIN out : Len(out[i]) < Lim
    BY DEF IInv, InBuffer
  <2>2. Len(filled) < Lim
    BY <1>3, <1>7, <2>1, PutsAssumption
  <2>3. CASE out' = Append(out, filled) /\ buf' = <<>>
    <3>1. Len(buf') < Lim - 2
      BY <2>3, PutsAssumption
    <3>2. ASSUME NEW i \in DOMAIN out' PROVE Len(out'[i]) < Lim
      <4>1. (i \in DOMAIN out /\ out'[i] = out[i]) \/ out'[i] = filled
        BY <1>3, <1>7, <2>3
      <4> QED
        BY <2>1, <2>2, <4>1
    <3> QED
      BY <3>1, <3>2 DEF InBuffer
  <2>4. CASE ~Full(Len(filled)) /\ buf' = filled /\ out' = out
    <3>1. Len(buf') < Lim - 2
      BY <1>7, <2>4, PutsAssumption DEF Full
    <3> QED
      BY <2>1, <2>4, <3>1 DEF InBuffer
  <2> QED
    BY <1>6, <2>3, <2>4
<1>10. StopsAtZero'
  BY <1>1, <1>2, <1>5 DEF StopsAtZero
<1> QED
  BY <1>8, <1>9, <1>10 DEF IInv

LEMMA StutterInv ==
    ASSUME IInv, UNCHANGED vars
    PROVE  IInv'
BY DEF IInv, TypeOK, InBuffer, StopsAtZero, vars

LEMMA Inductive == Spec => []IInv
<1>1. IInv /\ [Turn]_vars => IInv'
  BY TurnInv, StutterInv
<1> QED
  BY <1>1, InitInv, PTL DEF Spec

-----------------------------------------------------------------------------
\* efi_puts reads octets, writes words and never loses its place in the string.
THEOREM TypeCorrect == Spec => []TypeOK
BY Inductive, PTL DEF IInv

\* The buffer of efi_puts is never overrun: a piece and its terminator fit, for every
\* string and every buffer of at least three words.
THEOREM BufferNeverOverrun == Spec => []InBuffer
BY Inductive, PTL DEF IInv

\* utf8_to_utf32 never looks behind the zero that ends the string, whatever number of
\* octets the ones before it promise.
THEOREM NeverReadsPastEnd == Spec => []StopsAtZero
BY Inductive, PTL DEF IInv

-----------------------------------------------------------------------------
(* Concatenations of any number of sequences.                              *)

\* A set of natural numbers has a least element.
LEMMA LeastElement ==
    ASSUME NEW S \in SUBSET Nat, S # {}
    PROVE  \E n \in S : \A m \in S : n <= m
<1> DEFINE R == OpToRel(<, Nat)
<1>1. \A m, n \in Nat : ~(<<m, n>> \in R) => n <= m
  BY DEF OpToRel
<1>2. IsWellFoundedOn(R, Nat)
  BY NatLessThanWellFounded
<1> HIDE DEF R
<1>3. \E n \in S : \A m \in S : ~(<<m, n>> \in R)
  BY <1>2, WFMin
<1>4. \A n \in S : n \in Nat
  OBVIOUS
<1> QED
  BY <1>1, <1>3, <1>4, Zenon

\* A function on an initial interval is a sequence.
LEMMA FunctionIsSeq ==
    ASSUME NEW S, NEW n \in Nat, NEW f \in [1 .. n -> S]
    PROVE  f \in Seq(S) /\ Len(f) = n
OBVIOUS

\* f[i] is the concatenation of the first i sequences.
FlatTo(s, f, n) == \A i \in 1 .. n : f[i] = IF i = 1 THEN s[i] ELSE f[i - 1] \o s[i]
Flat(S, s, f) == f \in [1 .. Len(s) -> Seq(S)] /\ FlatTo(s, f, Len(s))

\* The concatenations exist ...
LEMMA FlatExists ==
    ASSUME NEW S, NEW s \in Seq(Seq(S))
    PROVE  \E f : Flat(S, s, f)
<1> DEFINE P(n) == \E f \in [1 .. n -> Seq(S)] :
                      \A i \in 1 .. n : f[i] = IF i = 1 THEN s[i] ELSE f[i - 1] \o s[i]
           T == {n \in 0 .. Len(s) : ~P(n)}
<1>1. T = {}
  <2>1. SUFFICES ASSUME T # {} PROVE FALSE
    OBVIOUS
  <2>2. T \in SUBSET Nat
    OBVIOUS
  <2>3. PICK n \in T : \A m \in T : n <= m
    BY <2>1, <2>2, LeastElement
  <2>4. n # 0
    <3>1. P(0)
      <4>1. [i \in 1 .. 0 |-> <<>>] \in [1 .. 0 -> Seq(S)] /\ 1 .. 0 = {}
        OBVIOUS
      <4> QED
        BY <4>1
    <3> QED
      BY <3>1
  <2>5. n \in 1 .. Len(s) /\ n - 1 \in 0 .. Len(s) /\ ~(n <= n - 1)
    BY <2>4
  <2>6. P(n - 1)
    BY <2>3, <2>5
  <2>7. PICK f \in [1 .. n - 1 -> Seq(S)] :
            \A i \in 1 .. n - 1 : f[i] = IF i = 1 THEN s[i] ELSE f[i - 1] \o s[i]
    BY <2>6
  <2> DEFINE e == IF n = 1 THEN s[n] ELSE f[n - 1] \o s[n]
             g == [i \in 1 .. n |-> IF i = n THEN e ELSE f[i]]
  <2>8. e \in Seq(S)
    <3>1. s[n] \in Seq(S)
      BY <2>5
    <3>2. CASE n = 1
      BY <3>1, <3>2
    <3>3. CASE n # 1
      <4>1. f[n - 1] \in Seq(S)
        BY <2>5, <2>7, <3>3
      <4> QED
        BY <3>1, <3>3, <4>1, ConcatProperties
    <3> QED
      BY <3>2, <3>3
  <2>9. g \in [1 .. n -> Seq(S)]
    <3>1. ASSUME NEW i \in 1 .. n, i # n PROVE f[i] \in Seq(S)
      <4>1. i \in 1 .. n - 1
        BY <2>5, <3>1
      <4> QED
        BY <2>7, <4>1
    <3> HIDE DEF e
    <3> QED
      BY <2>8, <3>1
  <2>10. ASSUME NEW i \in 1 .. n PROVE g[i] = IF i = 1 THEN s[i] ELSE g[i - 1] \o s[i]
    <3>1. CASE i = n
      <4>1. n # 1 => g[n - 1] = f[n - 1]
        BY <2>5
      <4>2. g[i] = e
        BY <3>1
      <4> QED
        BY <3>1, <4>1, <4>2
    <3>2. CASE i # n
      <4>1. i \in 1 .. n - 1
        BY <2>5, <3>2
      <4>2. g[i] = f[i] /\ (i # 1 => g[i - 1] = f[i - 1])
        BY <2>5, <3>2, <4>1
      <4>3. f[i] = IF i = 1 THEN s[i] ELSE f[i - 1] \o s[i]
        BY <2>7, <4>1
      <4> HIDE DEF g
      <4> QED
        BY <4>2, <4>3
    <3> QED
      BY <3>1, <3>2
  <2> HIDE DEF g
  <2>11. P(n)
    BY <2>9, <2>10
  <2> QED
    BY <2>11
<1>2. P(Len(s))
  <2>1. Len(s) \in 0 .. Len(s)
    OBVIOUS
  <2> HIDE DEF P
  <2> QED
    BY <1>1, <2>1
<1> QED
  BY <1>2 DEF Flat, FlatTo

\* ... in one way only ...
LEMMA FlatUnique ==
    ASSUME NEW s, NEW f, NEW g, NEW n \in Nat, FlatTo(s, f, n), FlatTo(s, g, n)
    PROVE  \A i \in 1 .. n : f[i] = g[i]
<1> DEFINE T == {i \in 1 .. n : f[i] # g[i]}
<1>1. SUFFICES ASSUME T # {} PROVE FALSE
  OBVIOUS
<1>2. T \in SUBSET Nat
  OBVIOUS
<1>3. PICK i \in T : \A j \in T : i <= j
  BY <1>1, <1>2, LeastElement
<1>4. i \in 1 .. n /\ f[i] # g[i]
  OBVIOUS
<1>5. i # 1
  BY <1>4 DEF FlatTo
<1>6. i - 1 \in 1 .. n /\ ~(i <= i - 1)
  BY <1>4, <1>5
<1>7. f[i - 1] = g[i - 1]
  BY <1>3, <1>6
<1>8. f[i] = f[i - 1] \o s[i] /\ g[i] = g[i - 1] \o s[i]
  BY <1>4, <1>5 DEF FlatTo
<1> QED
  BY <1>4, <1>7, <1>8, Zenon

\* ... and are what FlattenSeq takes the last of.
LEMMA FlattenIsFlat ==
    ASSUME NEW S, NEW s \in Seq(Seq(S)), Len(s) # 0
    PROVE  \E f : Flat(S, s, f) /\ FlattenSeq(s) = f[Len(s)]
<1> DEFINE R(f) == f = [i \in 1 .. Len(s) |-> IF i = 1 THEN s[i] ELSE f[i - 1] \o s[i]]
           h == CHOOSE f : R(f)
<1>1. PICK f : Flat(S, s, f)
  BY FlatExists
<1>2. R(f)
  BY <1>1 DEF Flat, FlatTo
<1>3. R(h)
  BY <1>2
<1>4. FlattenSeq(s) = h[Len(s)]
  BY Zenon DEF FlattenSeq
<1> HIDE DEF h
<1>5. FlatTo(s, h, Len(s))
  BY <1>3 DEF FlatTo
<1>6. FlatTo(s, f, Len(s))
  BY <1>1 DEF Flat
<1>7. Len(s) \in Nat /\ Len(s) \in 1 .. Len(s)
  OBVIOUS
<1>8. h[Len(s)] = f[Len(s)]
  <2> HIDE DEF R
  <2> QED
    BY <1>5, <1>6, <1>7, FlatUnique
<1> QED
  BY <1>1, <1>4, <1>8

\* No sequences come to none.
LEMMA FlattenEmpty == FlattenSeq(<<>>) = <<>>
BY DEF FlattenSeq

\* What is concatenated from sequences over S is one.
LEMMA FlattenSeqType ==
    ASSUME NEW S, NEW s \in Seq(Seq(S))
    PROVE  FlattenSeq(s) \in Seq(S)
<1>1. CASE Len(s) = 0
  <2>1. s = <<>>
    BY <1>1
  <2>2. <<>> \in Seq(S)
    OBVIOUS
  <2> QED
    BY <2>1, <2>2, FlattenEmpty, Zenon
<1>2. CASE Len(s) # 0
  <2>1. PICK f : Flat(S, s, f) /\ FlattenSeq(s) = f[Len(s)]
    BY <1>2, FlattenIsFlat
  <2>2. Len(s) \in 1 .. Len(s)
    BY <1>2
  <2>3. f \in [1 .. Len(s) -> Seq(S)]
    BY <2>1 DEF Flat
  <2>4. f[Len(s)] \in Seq(S)
    BY <2>2, <2>3
  <2> QED
    BY <2>1, <2>4
<1> QED
  BY <1>1, <1>2

\* One sequence more is put behind what the others come to.
LEMMA FlattenAppend ==
    ASSUME NEW S, NEW s \in Seq(Seq(S)), NEW e \in Seq(S)
    PROVE  FlattenSeq(Append(s, e)) = FlattenSeq(s) \o e
<1> DEFINE t == Append(s, e)
           n == Len(s)
<1>1. /\ t \in Seq(Seq(S)) /\ Len(t) = n + 1 /\ t[n + 1] = e /\ n \in Nat
      /\ \A i \in 1 .. n : t[i] = s[i]
  OBVIOUS
<1> HIDE DEF t
<1>2. PICK g : Flat(S, t, g) /\ FlattenSeq(t) = g[n + 1]
  <2>1. Len(t) # 0 /\ t \in Seq(Seq(S))
    BY <1>1
  <2> QED
    BY <1>1, <2>1, FlattenIsFlat
<1>3. \A i \in 1 .. n + 1 : g[i] = IF i = 1 THEN t[i] ELSE g[i - 1] \o t[i]
  BY <1>1, <1>2 DEF Flat, FlatTo
<1>4. CASE n = 0
  <2>1. s = <<>>
    BY <1>4
  <2>2. FlattenSeq(t) = e
    BY <1>1, <1>2, <1>3, <1>4
  <2> QED
    BY <2>1, <2>2, FlattenEmpty, ConcatEmptySeq DEF t
<1>5. CASE n # 0
  <2>1. PICK f : Flat(S, s, f) /\ FlattenSeq(s) = f[n]
    BY <1>5, FlattenIsFlat
  <2>2. FlatTo(s, f, n)
    BY <2>1 DEF Flat
  <2>3. FlatTo(s, g, n)
    <3>1. ASSUME NEW i \in 1 .. n PROVE i \in 1 .. n + 1 /\ t[i] = s[i]
      BY <1>1
    <3> QED
      BY <1>3, <3>1 DEF FlatTo
  <2>4. n \in 1 .. n /\ n + 1 \in 1 .. n + 1 /\ n + 1 # 1 /\ (n + 1) - 1 = n
    BY <1>1, <1>5
  <2>5. \A i \in 1 .. n : f[i] = g[i]
    <3> HIDE DEF n
    <3> QED
      BY <1>1, <2>2, <2>3, FlatUnique
  <2>6. g[n + 1] = g[n] \o e
    BY <1>1, <1>3, <2>4
  <2> QED
    BY <1>2, <2>1, <2>4, <2>5, <2>6 DEF t
<1> QED
  BY <1>4, <1>5

\* The same for a sequence that has one element more than another.
LEMMA FlattenNext ==
    ASSUME NEW S, NEW s \in Seq(Seq(S)), NEW t \in Seq(Seq(S)), Len(t) = Len(s) + 1,
           \A i \in 1 .. Len(s) : t[i] = s[i]
    PROVE  FlattenSeq(t) = FlattenSeq(s) \o t[Len(t)]
<1>1. Len(s) \in Nat /\ t[Len(t)] \in Seq(S)
  OBVIOUS
<1>2. t = Append(s, t[Len(t)])
  OBVIOUS
<1> QED
  BY <1>1, <1>2, FlattenAppend, Zenon

-----------------------------------------------------------------------------
(* What is encoded is decoded.                                             *)

\* The lengths that the first octets of encodings promise.
LEMMA LeadSizes ==
    ASSUME NEW o \in Nat
    PROVE  /\ o < 128 => LeadingOnes(o) = 0
           /\ o \in 192 .. 223 => LeadingOnes(o) = 2
           /\ o \in 224 .. 239 => LeadingOnes(o) = 3
           /\ o \in 240 .. 247 => LeadingOnes(o) = 4
<1> DEFINE under == {lead \in Leads : lead <= o}
<1>1. Cardinality({}) = 0 /\ Cardinality({128, 192}) = 2
      /\ Cardinality({128, 192, 224}) = 3 /\ Cardinality({128, 192, 224, 240}) = 4
  <2>1. IsFiniteSet({}) /\ Cardinality({}) = 0
    BY FS_EmptySet
  <2>2. IsFiniteSet({128}) /\ Cardinality({128}) = 1
    BY FS_Singleton
  <2>3. IsFiniteSet({128} \cup {192}) /\ Cardinality({128} \cup {192}) = 1 + 1
    BY <2>2, FS_AddElement
  <2>4. {128} \cup {192} = {128, 192} /\ 1 + 1 = 2
    OBVIOUS
  <2>5. IsFiniteSet({128, 192}) /\ Cardinality({128, 192}) = 2
    BY <2>3, <2>4, Zenon
  <2>6. IsFiniteSet({128, 192} \cup {224}) /\ Cardinality({128, 192} \cup {224}) = 2 + 1
    BY <2>5, FS_AddElement
  <2>7. {128, 192} \cup {224} = {128, 192, 224} /\ 2 + 1 = 3
    OBVIOUS
  <2>8. IsFiniteSet({128, 192, 224}) /\ Cardinality({128, 192, 224}) = 3
    BY <2>6, <2>7, Zenon
  <2>9. IsFiniteSet({128, 192, 224} \cup {240}) /\ Cardinality({128, 192, 224} \cup {240}) = 3 + 1
    BY <2>8, FS_AddElement
  <2>10. {128, 192, 224} \cup {240} = {128, 192, 224, 240} /\ 3 + 1 = 4
    OBVIOUS
  <2>11. Cardinality({128, 192, 224, 240}) = 4
    BY <2>9, <2>10, Zenon
  <2> QED
    BY <2>1, <2>5, <2>8, <2>11, Zenon
<1>2. o < 128 => under = {}
  BY DEF Leads
<1>3. o \in 192 .. 223 => under = {128, 192}
  BY DEF Leads
<1>4. o \in 224 .. 239 => under = {128, 192, 224}
  BY DEF Leads
<1>5. o \in 240 .. 247 => under = {128, 192, 224, 240}
  BY DEF Leads
<1>6. LeadingOnes(o) = Cardinality(under)
  BY DEF LeadingOnes
<1> HIDE DEF under
<1>7. o < 128 => LeadingOnes(o) = 0
  BY <1>1, <1>2, <1>6, Zenon
<1>8. o \in 192 .. 223 => LeadingOnes(o) = 2
  BY <1>1, <1>3, <1>6, Zenon
<1>9. o \in 224 .. 239 => LeadingOnes(o) = 3
  BY <1>1, <1>4, <1>6, Zenon
<1>10. o \in 240 .. 247 => LeadingOnes(o) = 4
  BY <1>1, <1>5, <1>6, Zenon
<1> QED
  BY <1>7, <1>8, <1>9, <1>10

\* An encoding that is there in full has all its trailing octets.
LEMMA AllTrailing ==
    ASSUME NEW i \in Nat, NEW n \in 2 .. 4, \A j \in 1 .. n - 1 : Octet(i + j) \div 64 = 2
    PROVE  TrailingOctets(i, n) = n - 1
<1>1. {k \in 1 .. n - 1 : \A j \in 1 .. k : Octet(i + j) \div 64 = 2} = 1 .. n - 1
  <2>1. \A k \in 1 .. n - 1 : \A j \in 1 .. k : j \in 1 .. n - 1
    OBVIOUS
  <2> QED
    BY <2>1
<1>2. Cardinality(1 .. n - 1) = n - 1
  BY FS_Interval
<1> QED
  BY <1>1, <1>2, Zenon DEF TrailingOctets

\* A trailing octet is one for utf8_to_utf32, and has six bits of the character.
LEMMA TrailIs ==
    ASSUME NEW c \in Nat, NEW unit \in Nat \ {0}
    PROVE  /\ Trail(c, unit) \in 128 .. 191 /\ Trail(c, unit) \div 64 = 2
           /\ Trail(c, unit) % 64 = (c \div unit) % 64
<1>1. c \div unit \in Nat
  OBVIOUS
<1>2. \A q \in Nat : /\ 128 + (q % 64) \in 128 .. 191
                     /\ (128 + (q % 64)) \div 64 = 2
                     /\ (128 + (q % 64)) % 64 = q % 64
  OBVIOUS
<1> QED
  BY <1>1, <1>2 DEF Trail

\* The trailing octets there are.
LEMMA TrailUnits ==
    ASSUME NEW c \in Nat
    PROVE  /\ Trail(c, 1) \div 64 = 2 /\ Trail(c, 1) % 64 = c % 64
           /\ Trail(c, 64) \div 64 = 2 /\ Trail(c, 64) % 64 = (c \div 64) % 64
           /\ Trail(c, 4096) \div 64 = 2 /\ Trail(c, 4096) % 64 = (c \div 4096) % 64
<1>1. 1 \in Nat \ {0} /\ 64 \in Nat \ {0} /\ 4096 \in Nat \ {0}
  BY SMT
<1>2. \A unit \in Nat \ {0} :
          Trail(c, unit) \div 64 = 2 /\ Trail(c, unit) % 64 = (c \div unit) % 64
  BY TrailIs, Zenon
<1>3. c \div 1 = c
  BY SMT
<1>4. Trail(c, 1) \div 64 = 2 /\ Trail(c, 1) % 64 = c % 64
  BY SMT, <1>1, <1>2, <1>3
<1>5. Trail(c, 64) \div 64 = 2 /\ Trail(c, 64) % 64 = (c \div 64) % 64
  BY SMT, <1>1, <1>2
<1>6. Trail(c, 4096) \div 64 = 2 /\ Trail(c, 4096) % 64 = (c \div 4096) % 64
  BY SMT, <1>1, <1>2
<1> QED
  BY SMT, <1>4, <1>5, <1>6

\* The characters utf8_to_utf32 takes: Unicode's, but zero and what it holds for a surrogate.
Plain(c) == c \in Nat /\ c # 0 /\ c <= 1114111 /\ ~LooksLikeSurrogate(c)

\* The octets of a character stand at i.
StandsAt(c, i) == \A j \in 1 .. Octets(c) : Octet(i + (j - 1)) = Utf8(c)[j]

\* The character of two octets, of three and of four.
LEMMA DecodedTwo ==
    ASSUME NEW i \in Nat \ {0}, NEW c \in Nat, 128 <= c, c < 2048, Plain(c), StandsAt(c, i)
    PROVE  Decoded(i) = [char |-> c, octets |-> 2]
<1>1. Octets(c) = 2 /\ Utf8(c) = <<192 + c \div 64, Trail(c, 1)>>
  <2>1. Octets(c) = 2
    BY SMT DEF Octets
  <2> QED
    BY SMT, <2>1 DEF Utf8
<1>2. Octet(i) = 192 + c \div 64 /\ Octet(i + 1) = Trail(c, 1)
  <2>1. 1 \in 1 .. 2 /\ 2 \in 1 .. 2 /\ i + (1 - 1) = i /\ i + (2 - 1) = i + 1
    BY SMT
  <2> QED
    BY SMT, <1>1, <2>1 DEF StandsAt
<1>3. /\ Trail(c, 1) \div 64 = 2 /\ Trail(c, 1) % 64 = c % 64
  BY SMT, TrailUnits
<1>4. Octet(i) \in 194 .. 223 /\ Octet(i) % 32 = c \div 64
  BY SMT, <1>2
<1>5. LeadingOnes(Octet(i)) = 2
  BY SMT, <1>4, LeadSizes
<1>6. TrailingOctets(i, 2) = 1
  <2>1. \A j \in 1 .. 2 - 1 : Octet(i + j) \div 64 = 2
    BY SMT, <1>2, <1>3
  <2> QED
    BY SMT, <2>1, AllTrailing
<1>7. Bits(i, 2) = c
  <2>1. Bits(i, 2) = (c \div 64) * 64 + (c % 64)
    BY SMT, <1>2, <1>3, <1>4 DEF Bits, Low
  <2> QED
    BY SMT, <2>1
<1>8. Valid(c, 2)
  BY SMT, <1>1 DEF Valid, Plain
<1> QED
  BY SMT, <1>5, <1>6, <1>7, <1>8 DEF Decoded

LEMMA DecodedThree ==
    ASSUME NEW i \in Nat \ {0}, NEW c \in Nat, 2048 <= c, c < 65536, Plain(c), StandsAt(c, i)
    PROVE  Decoded(i) = [char |-> c, octets |-> 3]
<1>1. Octets(c) = 3 /\ Utf8(c) = <<224 + c \div 4096, Trail(c, 64), Trail(c, 1)>>
  <2>1. Octets(c) = 3
    BY SMT DEF Octets
  <2> QED
    BY SMT, <2>1 DEF Utf8
<1>2. Octet(i) = 224 + c \div 4096 /\ Octet(i + 1) = Trail(c, 64) /\ Octet(i + 2) = Trail(c, 1)
  <2>1. /\ 1 \in 1 .. 3 /\ 2 \in 1 .. 3 /\ 3 \in 1 .. 3
        /\ i + (1 - 1) = i /\ i + (2 - 1) = i + 1 /\ i + (3 - 1) = i + 2
    BY SMT
  <2> QED
    BY SMT, <1>1, <2>1 DEF StandsAt
<1>3. /\ Trail(c, 1) \div 64 = 2 /\ Trail(c, 1) % 64 = c % 64
      /\ Trail(c, 64) \div 64 = 2 /\ Trail(c, 64) % 64 = (c \div 64) % 64
  BY SMT, TrailUnits
<1>4. Octet(i) \in 224 .. 239 /\ Octet(i) % 16 = c \div 4096
  BY SMT, <1>2
<1>5. LeadingOnes(Octet(i)) = 3
  BY SMT, <1>4, LeadSizes
<1>6. TrailingOctets(i, 3) = 2
  <2>1. \A j \in 1 .. 3 - 1 : Octet(i + j) \div 64 = 2
    <3>1. \A j \in 1 .. 3 - 1 : j = 1 \/ j = 2
      BY SMT
    <3> QED
      BY SMT, <1>2, <1>3, <3>1
  <2> QED
    BY SMT, <2>1, AllTrailing
<1>7. Bits(i, 3) = c
  <2>1. Bits(i, 3) = (c \div 4096) * 4096 + ((c \div 64) % 64) * 64 + (c % 64)
    BY SMT, <1>2, <1>3, <1>4 DEF Bits, Low
  <2> QED
    BY SMT, <2>1
<1>8. Valid(c, 3)
  BY SMT, <1>1 DEF Valid, Plain
<1> QED
  BY SMT, <1>5, <1>6, <1>7, <1>8 DEF Decoded

LEMMA DecodedFour ==
    ASSUME NEW i \in Nat \ {0}, NEW c \in Nat, 65536 <= c, c <= 1114111, Plain(c), StandsAt(c, i)
    PROVE  Decoded(i) = [char |-> c, octets |-> 4]
<1>1. /\ Octets(c) = 4
      /\ Utf8(c) = <<240 + c \div 262144, Trail(c, 4096), Trail(c, 64), Trail(c, 1)>>
  <2>1. Octets(c) = 4
    BY SMT DEF Octets
  <2> QED
    BY SMT, <2>1 DEF Utf8
<1>2. /\ Octet(i) = 240 + c \div 262144 /\ Octet(i + 1) = Trail(c, 4096)
      /\ Octet(i + 2) = Trail(c, 64) /\ Octet(i + 3) = Trail(c, 1)
  <2>1. /\ 1 \in 1 .. 4 /\ 2 \in 1 .. 4 /\ 3 \in 1 .. 4 /\ 4 \in 1 .. 4
        /\ i + (1 - 1) = i /\ i + (2 - 1) = i + 1 /\ i + (3 - 1) = i + 2 /\ i + (4 - 1) = i + 3
    BY SMT
  <2> QED
    BY SMT, <1>1, <2>1 DEF StandsAt
<1>3. /\ Trail(c, 1) \div 64 = 2 /\ Trail(c, 1) % 64 = c % 64
      /\ Trail(c, 64) \div 64 = 2 /\ Trail(c, 64) % 64 = (c \div 64) % 64
      /\ Trail(c, 4096) \div 64 = 2 /\ Trail(c, 4096) % 64 = (c \div 4096) % 64
  BY SMT, TrailUnits
<1>4. Octet(i) \in 240 .. 244 /\ Octet(i) % 8 = c \div 262144
  BY SMT, <1>2
<1>5. LeadingOnes(Octet(i)) = 4
  BY SMT, <1>4, LeadSizes
<1>6. TrailingOctets(i, 4) = 3
  <2>1. \A j \in 1 .. 4 - 1 : Octet(i + j) \div 64 = 2
    <3>1. \A j \in 1 .. 4 - 1 : j = 1 \/ j = 2 \/ j = 3
      BY SMT
    <3> QED
      BY SMT, <1>2, <1>3, <3>1
  <2> QED
    BY SMT, <2>1, AllTrailing
<1>7. Bits(i, 4) = c
  <2>1. Bits(i, 4) = (c \div 262144) * 262144 + ((c \div 4096) % 64) * 4096
                        + ((c \div 64) % 64) * 64 + (c % 64)
    BY SMT, <1>2, <1>3, <1>4 DEF Bits, Low
  <2> QED
    BY SMT, <2>1
<1>8. Valid(c, 4)
  BY SMT, <1>1 DEF Valid, Plain
<1> QED
  BY SMT, <1>5, <1>6, <1>7, <1>8 DEF Decoded

\* What is encoded is decoded.
LEMMA DecodesCharacter ==
    ASSUME NEW i \in Nat \ {0}, NEW c, Plain(c), StandsAt(c, i)
    PROVE  /\ Decoded(i) = [char |-> c, octets |-> Octets(c)]
           /\ Octet(i) = LineFeed <=> c = LineFeed
<1>1. c \in Nat /\ c # 0 /\ c <= 1114111
  BY SMT DEF Plain
<1>2. CASE c < 128
  <2>1. Octets(c) = 1 /\ Utf8(c) = <<c>>
    BY SMT, <1>1, <1>2 DEF Octets, Utf8
  <2>2. Octet(i) = c
    <3>1. 1 \in 1 .. 1 /\ i + (1 - 1) = i
      BY SMT
    <3> QED
      BY SMT, <2>1, <3>1 DEF StandsAt
  <2>3. LeadingOnes(Octet(i)) = 0
    BY SMT, <1>1, <1>2, <2>2, LeadSizes
  <2> QED
    BY SMT, <2>1, <2>2, <2>3 DEF Decoded
<1>3. CASE 128 <= c
  <2>1. Octet(i) >= 192 /\ Octet(i) \in Nat
    <3>1. 1 \in 1 .. Octets(c) /\ i + (1 - 1) = i
      BY SMT DEF Octets
    <3>2. Octet(i) = Utf8(c)[1]
      BY SMT, <3>1 DEF StandsAt
    <3>3. /\ Octets(c) \in 2 .. 4
          /\ Utf8(c)[1] = IF Octets(c) = 2 THEN 192 + c \div 64
                          ELSE IF Octets(c) = 3 THEN 224 + c \div 4096
                          ELSE 240 + c \div 262144
      <4>1. Octets(c) \in 2 .. 4
        BY SMT, <1>1, <1>3 DEF Octets
      <4> QED
        BY SMT, <4>1 DEF Utf8
    <3>4. c \div 64 \in Nat /\ c \div 4096 \in Nat /\ c \div 262144 \in Nat
      BY SMT, <1>1
    <3> QED
      BY SMT, <3>2, <3>3, <3>4
  <2>2. Octet(i) # LineFeed /\ c # LineFeed
    BY SMT, <1>3, <2>1 DEF LineFeed
  <2>3. CASE c < 2048
    <3>1. Octets(c) = 2
      BY SMT, <1>1, <1>3, <2>3 DEF Octets
    <3> QED
      BY SMT, <1>1, <1>3, <2>2, <2>3, <3>1, DecodedTwo
  <2>4. CASE 2048 <= c /\ c < 65536
    <3>1. Octets(c) = 3
      BY SMT, <1>1, <1>3, <2>4 DEF Octets
    <3> QED
      BY SMT, <1>1, <1>3, <2>2, <2>4, <3>1, DecodedThree
  <2>5. CASE 65536 <= c
    <3>1. Octets(c) = 4
      BY SMT, <1>1, <1>3, <2>5 DEF Octets
    <3> QED
      BY SMT, <1>1, <1>3, <2>2, <2>5, <3>1, DecodedFour
  <2> QED
    BY SMT, <1>1, <1>3, <2>3, <2>4, <2>5
<1> QED
  BY SMT, <1>1, <1>2, <1>3

\* The words of a character are those of UTF-16.
LEMMA WordsAreUtf16 ==
    ASSUME NEW c \in Nat, 1 <= c, c <= 1114111
    PROVE  Words(c) = Utf16(c)
<1>1. CASE c < 65536
  BY SMT, <1>1 DEF Words, Utf16
<1>2. CASE c >= 65536
  <2>1. (c - 65536) \div 1024 = c \div 1024 - 64 /\ (c - 65536) % 1024 = c % 1024
    BY SMT, <1>2
  <2>2. HighWord(c) = 55296 + (c - 65536) \div 1024
    BY SMT, <1>2, <2>1 DEF HighWord
  <2> QED
    BY SMT, <1>2, <2>1, <2>2 DEF Words, Utf16
<1> QED
  BY SMT, <1>1, <1>2

-----------------------------------------------------------------------------
(* Texts.                                                                  *)

\* What is to be shown for a character.
Shown(c) == IF c = LineFeed THEN <<CarriageReturn, LineFeed>> ELSE Utf16(c)

\* An encoding has no zero in it and is as long as its first octet promises.
LEMMA Utf8Is ==
    ASSUME NEW c, Plain(c)
    PROVE  Utf8(c) \in Seq(StrOctet) /\ Len(Utf8(c)) = Octets(c) /\ Octets(c) \in 1 .. 4
<1>1. c \in Nat /\ c # 0 /\ c <= 1114111
  BY SMT DEF Plain
<1>2. Octets(c) \in 1 .. 4
  BY SMT DEF Octets
<1>0. c \in Nat
  BY SMT, <1>1
<1>3. Trail(c, 1) \in StrOctet /\ Trail(c, 64) \in StrOctet /\ Trail(c, 4096) \in StrOctet
  <2>1. 1 \in Nat \ {0} /\ 64 \in Nat \ {0} /\ 4096 \in Nat \ {0}
    BY SMT
  <2>2. \A unit \in Nat \ {0} : Trail(c, unit) \in 128 .. 191
    BY <1>0, TrailIs, Zenon
  <2>3. Trail(c, 1) \in 128 .. 191 /\ Trail(c, 64) \in 128 .. 191 /\ Trail(c, 4096) \in 128 .. 191
    BY SMT, <2>1, <2>2
  <2> QED
    BY SMT, <2>3 DEF StrOctet
<1>4. CASE Octets(c) = 1
  <2>1. c \in StrOctet
    BY SMT, <1>1, <1>4 DEF Octets, StrOctet
  <2>2. Utf8(c) = <<c>>
    BY SMT, <1>4 DEF Utf8
  <2> QED
    BY SMT, <1>2, <1>4, <2>1, <2>2
<1>5. CASE Octets(c) = 2
  <2>1. 192 + c \div 64 \in StrOctet
    BY SMT, <1>1, <1>5 DEF Octets, StrOctet
  <2>2. Utf8(c) = <<192 + c \div 64, Trail(c, 1)>>
    BY SMT, <1>5 DEF Utf8
  <2> QED
    BY SMT, <1>2, <1>3, <1>5, <2>1, <2>2
<1>6. CASE Octets(c) = 3
  <2>1. 224 + c \div 4096 \in StrOctet
    BY SMT, <1>1, <1>6 DEF Octets, StrOctet
  <2>2. Utf8(c) = <<224 + c \div 4096, Trail(c, 64), Trail(c, 1)>>
    BY SMT, <1>6 DEF Utf8
  <2> QED
    BY SMT, <1>2, <1>3, <1>6, <2>1, <2>2
<1>7. CASE Octets(c) = 4
  <2>1. 240 + c \div 262144 \in StrOctet
    BY SMT, <1>1, <1>7 DEF Octets, StrOctet
  <2>2. Utf8(c) = <<240 + c \div 262144, Trail(c, 4096), Trail(c, 64), Trail(c, 1)>>
    BY SMT, <1>7 DEF Utf8
  <2> QED
    BY SMT, <1>2, <1>3, <1>7, <2>1, <2>2
<1> QED
  BY SMT, <1>2, <1>4, <1>5, <1>6, <1>7

\* Two sequences of one element.
LEMMA Pair ==
    ASSUME NEW S, NEW a \in S, NEW b \in S
    PROVE  <<a>> \o <<b>> = <<a, b>>
<1> DEFINE l == <<a>> \o <<b>>
           r == <<a, b>>
<1>1. l \in Seq(S) /\ Len(l) = 2 /\ l[1] = a /\ l[2] = b
  OBVIOUS
<1>2. r \in Seq(S) /\ Len(r) = 2 /\ r[1] = a /\ r[2] = b
  OBVIOUS
<1> HIDE DEF l, r
<1>3. l = r
  BY <1>1, <1>2
<1> QED
  BY <1>3, Zenon DEF l, r

\* The words of a turn are those to be shown.
LEMMA TurnShows ==
    ASSUME NEW i \in Nat \ {0}, NEW c, Plain(c), StandsAt(c, i)
    PROVE  Shown(c) \in Seq(Word) /\ Before(Octet(i)) \o Words(c) = Shown(c)
           /\ Before(Octet(i)) \in Seq(Word) /\ Words(c) \in Seq(Word)
<1>1. c \in Nat /\ 1 <= c /\ c <= 1114111
  BY SMT DEF Plain
<1>2. Words(c) = Utf16(c) /\ Words(c) \in Seq(Word)
  BY SMT, <1>1, WordsAreUtf16, WordsOfCharacter
<1>3. Octet(i) = LineFeed <=> c = LineFeed
  BY DecodesCharacter
<1>4. CASE c = LineFeed
  <2>1. Words(c) = <<LineFeed>>
    BY SMT, <1>4 DEF Words, LineFeed
  <2>2. Before(Octet(i)) = <<CarriageReturn>>
    BY <1>3, <1>4 DEF Before
  <2>3. CarriageReturn \in Word /\ LineFeed \in Word
    BY SMT DEF CarriageReturn, LineFeed, Word
  <2>4. Shown(c) = <<CarriageReturn, LineFeed>>
    BY <1>4 DEF Shown
  <2>5. <<CarriageReturn>> \o <<LineFeed>> = <<CarriageReturn, LineFeed>>
    BY <2>3, Pair, Zenon
  <2>6. /\ <<CarriageReturn>> \in Seq(Word) /\ <<LineFeed>> \in Seq(Word)
        /\ <<CarriageReturn, LineFeed>> \in Seq(Word)
    BY <2>3
  <2>7. Before(Octet(i)) \o Words(c) = <<CarriageReturn>> \o <<LineFeed>>
    BY <2>1, <2>2, Zenon
  <2>8. Before(Octet(i)) \o Words(c) = Shown(c)
    BY <2>4, <2>5, <2>7, Zenon
  <2> QED
    BY <2>1, <2>2, <2>4, <2>6, <2>8, Zenon
<1>5. CASE c # LineFeed
  <2>1. Before(Octet(i)) = <<>> /\ Shown(c) = Words(c)
    BY <1>2, <1>3, <1>5 DEF Before, Shown
  <2>2. <<>> \in Seq(Word)
    BY SMT
  <2>3. <<>> \o Words(c) = Words(c)
    BY SMT, <1>2
  <2>4. Before(Octet(i)) \o Words(c) = <<>> \o Words(c)
    BY <2>1, Zenon
  <2>5. Before(Octet(i)) \o Words(c) = Shown(c)
    BY <2>1, <2>3, <2>4, Zenon
  <2>6. Before(Octet(i)) \in Seq(Word)
    BY <2>1, <2>2, Zenon
  <2>7. Shown(c) \in Seq(Word)
    BY <1>2, <2>1, Zenon
  <2> QED
    BY <1>2, <2>5, <2>6, <2>7, Zenon
<1> QED
  BY <1>4, <1>5

\* What is to be shown is made of words.
LEMMA ShownType ==
    ASSUME NEW c, Plain(c)
    PROVE  Shown(c) \in Seq(Word)
<1>1. c \in Nat /\ 1 <= c /\ c <= 1114111
  BY SMT DEF Plain
<1>2. Utf16(c) \in Seq(Word)
  BY SMT, <1>1, WordsAreUtf16, WordsOfCharacter
<1>3. CarriageReturn \in Word /\ LineFeed \in Word
  BY SMT DEF CarriageReturn, LineFeed, Word
<1>4. <<CarriageReturn, LineFeed>> \in Seq(Word)
  BY SMT, <1>3
<1> QED
  BY <1>2, <1>4, Zenon DEF Shown

\* A text of such characters, and the encoding and the words of its first k.
PlainText(text) == text \in Seq(Nat) /\ \A i \in DOMAIN text : Plain(text[i])
EncodedTo(text, k) == Encoded(SubSeq(text, 1, k))
WantedTo(text, k) == Wanted(SubSeq(text, 1, k))

\* The first k elements, and one more.
LEMMA SubSeqNext ==
    ASSUME NEW text \in Seq(Nat), NEW k \in 0 .. Len(text) - 1
    PROVE  /\ k + 1 \in DOMAIN text
           /\ SubSeq(text, 1, k) \in Seq(Nat) /\ Len(SubSeq(text, 1, k)) = k
           /\ SubSeq(text, 1, k + 1) \in Seq(Nat) /\ Len(SubSeq(text, 1, k + 1)) = k + 1
           /\ \A i \in 1 .. k : SubSeq(text, 1, k)[i] = text[i] /\ i \in DOMAIN text
           /\ \A i \in 1 .. k + 1 : SubSeq(text, 1, k + 1)[i] = text[i]
OBVIOUS

\* One character more in the text is its octets behind those of the text ...
LEMMA EncodedNext ==
    ASSUME NEW text, PlainText(text), NEW k \in 0 .. Len(text) - 1
    PROVE  /\ EncodedTo(text, k) \in Seq(StrOctet)
           /\ EncodedTo(text, k + 1) = EncodedTo(text, k) \o Utf8(text[k + 1])
<1> DEFINE p == SubSeq(text, 1, k)
           q == SubSeq(text, 1, k + 1)
           s == [i \in DOMAIN p |-> Utf8(p[i])]
           t == [i \in DOMAIN q |-> Utf8(q[i])]
<1>1. text \in Seq(Nat) /\ k \in Nat
  BY DEF PlainText
<1>2. /\ k + 1 \in DOMAIN text
      /\ p \in Seq(Nat) /\ Len(p) = k /\ q \in Seq(Nat) /\ Len(q) = k + 1
      /\ \A i \in 1 .. k : p[i] = text[i] /\ i \in DOMAIN text
      /\ \A i \in 1 .. k + 1 : q[i] = text[i]
  BY <1>1, SubSeqNext
<1>3. \A i \in DOMAIN text : Utf8(text[i]) \in Seq(StrOctet)
  BY Utf8Is DEF PlainText
<1> HIDE DEF p, q
<1>4. DOMAIN p = 1 .. k /\ DOMAIN q = 1 .. k + 1
  BY <1>2
<1>5. /\ s = [i \in 1 .. k |-> Utf8(text[i])]
      /\ t = [i \in 1 .. k + 1 |-> Utf8(text[i])]
  BY <1>2, <1>4
<1>6. s \in Seq(Seq(StrOctet)) /\ Len(s) = k /\ \A i \in 1 .. k : s[i] = Utf8(text[i])
  <2>1. \A i \in 1 .. k : Utf8(text[i]) \in Seq(StrOctet)
    BY <1>2, <1>3
  <2>2. s \in [1 .. k -> Seq(StrOctet)]
    BY <1>5, <2>1, Zenon
  <2>3. k \in Nat
    BY <1>1
  <2>4. s \in Seq(Seq(StrOctet)) /\ Len(s) = k
    BY <2>2, <2>3, FunctionIsSeq, Zenon
  <2>5. \A i \in 1 .. k : s[i] = Utf8(text[i])
    BY <1>5, Zenon
  <2> QED
    BY <2>4, <2>5
<1>7. t \in Seq(Seq(StrOctet)) /\ Len(t) = k + 1 /\ \A i \in 1 .. k + 1 : t[i] = Utf8(text[i])
  <2>1. \A i \in 1 .. k + 1 : Utf8(text[i]) \in Seq(StrOctet)
    BY <1>2, <1>3
  <2>2. t \in [1 .. k + 1 -> Seq(StrOctet)]
    BY <1>5, <2>1, Zenon
  <2>3. k + 1 \in Nat
    BY <1>1
  <2>4. t \in Seq(Seq(StrOctet)) /\ Len(t) = k + 1
    BY <2>2, <2>3, FunctionIsSeq, Zenon
  <2>5. \A i \in 1 .. k + 1 : t[i] = Utf8(text[i])
    BY <1>5, Zenon
  <2> QED
    BY <2>4, <2>5
<1>8. Encoded(p) = FlattenSeq(s) /\ Encoded(q) = FlattenSeq(t)
  BY DEF Encoded
<1> HIDE DEF s, t
<1>9. \A i \in 1 .. k : t[i] = s[i]
  BY <1>1, <1>6, <1>7
<1>10. FlattenSeq(t) = FlattenSeq(s) \o t[Len(t)]
  BY <1>6, <1>7, <1>9, FlattenNext
<1>11. FlattenSeq(s) \in Seq(StrOctet)
  BY <1>6, FlattenSeqType
<1>12. t[Len(t)] = Utf8(text[k + 1])
  BY <1>1, <1>7
<1> QED
  BY <1>8, <1>10, <1>11, <1>12 DEF EncodedTo, p, q

\* ... and its words behind those of the text.
LEMMA WantedNext ==
    ASSUME NEW text, PlainText(text), NEW k \in 0 .. Len(text) - 1
    PROVE  /\ WantedTo(text, k) \in Seq(Word)
           /\ WantedTo(text, k + 1) = WantedTo(text, k) \o Shown(text[k + 1])
<1> DEFINE p == SubSeq(text, 1, k)
           q == SubSeq(text, 1, k + 1)
           s == [i \in DOMAIN p |-> Shown(p[i])]
           t == [i \in DOMAIN q |-> Shown(q[i])]
<1>1. text \in Seq(Nat) /\ k \in Nat
  BY DEF PlainText
<1>2. /\ k + 1 \in DOMAIN text
      /\ p \in Seq(Nat) /\ Len(p) = k /\ q \in Seq(Nat) /\ Len(q) = k + 1
      /\ \A i \in 1 .. k : p[i] = text[i] /\ i \in DOMAIN text
      /\ \A i \in 1 .. k + 1 : q[i] = text[i]
  BY <1>1, SubSeqNext
<1>3. \A i \in DOMAIN text : Shown(text[i]) \in Seq(Word)
  BY ShownType DEF PlainText
<1>8. Wanted(p) = FlattenSeq(s) /\ Wanted(q) = FlattenSeq(t)
  BY DEF Wanted, Shown
<1> HIDE DEF p, q
<1>4. DOMAIN p = 1 .. k /\ DOMAIN q = 1 .. k + 1
  BY <1>2
<1>5. /\ s = [i \in 1 .. k |-> Shown(text[i])]
      /\ t = [i \in 1 .. k + 1 |-> Shown(text[i])]
  BY <1>2, <1>4
<1>6. s \in Seq(Seq(Word)) /\ Len(s) = k /\ \A i \in 1 .. k : s[i] = Shown(text[i])
  <2>1. \A i \in 1 .. k : Shown(text[i]) \in Seq(Word)
    BY <1>2, <1>3
  <2>2. s \in [1 .. k -> Seq(Word)]
    BY <1>5, <2>1, Zenon
  <2>3. k \in Nat
    BY <1>1
  <2>4. s \in Seq(Seq(Word)) /\ Len(s) = k
    BY <2>2, <2>3, FunctionIsSeq, Zenon
  <2>5. \A i \in 1 .. k : s[i] = Shown(text[i])
    BY <1>5, Zenon
  <2> QED
    BY <2>4, <2>5
<1>7. t \in Seq(Seq(Word)) /\ Len(t) = k + 1 /\ \A i \in 1 .. k + 1 : t[i] = Shown(text[i])
  <2>1. \A i \in 1 .. k + 1 : Shown(text[i]) \in Seq(Word)
    BY <1>2, <1>3
  <2>2. t \in [1 .. k + 1 -> Seq(Word)]
    BY <1>5, <2>1, Zenon
  <2>3. k + 1 \in Nat
    BY <1>1
  <2>4. t \in Seq(Seq(Word)) /\ Len(t) = k + 1
    BY <2>2, <2>3, FunctionIsSeq, Zenon
  <2>5. \A i \in 1 .. k + 1 : t[i] = Shown(text[i])
    BY <1>5, Zenon
  <2> QED
    BY <2>4, <2>5
<1> HIDE DEF s, t
<1>9. \A i \in 1 .. k : t[i] = s[i]
  BY <1>1, <1>6, <1>7
<1>10. FlattenSeq(t) = FlattenSeq(s) \o t[Len(t)]
  BY <1>6, <1>7, <1>9, FlattenNext
<1>11. FlattenSeq(s) \in Seq(Word)
  BY <1>6, FlattenSeqType
<1>12. t[Len(t)] = Shown(text[k + 1])
  BY <1>1, <1>7
<1> QED
  BY <1>8, <1>10, <1>11, <1>12 DEF WantedTo, p, q

\* The first none of the characters, and all of them.
LEMMA NothingYet ==
    ASSUME NEW text, PlainText(text)
    PROVE  /\ EncodedTo(text, 0) = <<>> /\ WantedTo(text, 0) = <<>>
           /\ EncodedTo(text, Len(text)) = Encoded(text)
           /\ WantedTo(text, Len(text)) = Wanted(text)
<1>1. text \in Seq(Nat)
  BY DEF PlainText
<1>2. SubSeq(text, 1, 0) = <<>> /\ SubSeq(text, 1, Len(text)) = text
  BY <1>1
<1>3. \A p : p = <<>> => Encoded(p) = <<>> /\ Wanted(p) = <<>>
  <2> SUFFICES ASSUME NEW p, p = <<>> PROVE Encoded(p) = <<>> /\ Wanted(p) = <<>>
    OBVIOUS
  <2>1. DOMAIN p = 1 .. 0
    OBVIOUS
  <2>2. ASSUME NEW f, f = [i \in DOMAIN p |-> f[i]] PROVE FlattenSeq(f) = <<>>
    <3>1. f = <<>>
      BY <2>1, <2>2
    <3> QED
      BY <3>1, FlattenEmpty, Zenon
  <2> QED
    BY <2>2, Zenon DEF Encoded, Wanted
<1> QED
  BY <1>2, <1>3, Zenon DEF EncodedTo, WantedTo

\* The encoding of the first k characters starts that of the first m, and is shorter.
LEMMA PrefixesAgree ==
    ASSUME NEW text, PlainText(text), NEW k \in 0 .. Len(text), NEW m \in k .. Len(text)
    PROVE  /\ Len(EncodedTo(text, k)) \in Nat
           /\ Len(EncodedTo(text, k)) <= Len(EncodedTo(text, m))
           /\ \A j \in 1 .. Len(EncodedTo(text, k)) :
                  EncodedTo(text, m)[j] = EncodedTo(text, k)[j]
           /\ k # m => Len(EncodedTo(text, k)) < Len(EncodedTo(text, m))
<1> DEFINE E(n) == EncodedTo(text, n)
           P(n) == /\ Len(E(k)) <= Len(E(n))
                   /\ \A j \in 1 .. Len(E(k)) : E(n)[j] = E(k)[j]
                   /\ k # n => Len(E(k)) < Len(E(n))
           T == {n \in k .. Len(text) : ~P(n)}
<1>1. k \in Nat /\ Len(text) \in Nat /\ m \in Nat
  BY DEF PlainText
<1>2. \A n \in 0 .. Len(text) : E(n) \in Seq(StrOctet)
  <2>1. ASSUME NEW n \in 0 .. Len(text) PROVE E(n) \in Seq(StrOctet)
    <3>1. CASE n = 0
      <4>1. <<>> \in Seq(StrOctet)
        OBVIOUS
      <4> QED
        BY <3>1, <4>1, NothingYet, Zenon
    <3>2. CASE n # 0
      <4>1. n - 1 \in 0 .. Len(text) - 1 /\ (n - 1) + 1 = n
        BY <1>1, <3>2
      <4>2. E(n - 1) \in Seq(StrOctet) /\ E((n - 1) + 1) = E(n - 1) \o Utf8(text[(n - 1) + 1])
        BY <4>1, EncodedNext
      <4>3. Utf8(text[n]) \in Seq(StrOctet)
        <5>1. n \in DOMAIN text
          BY <1>1, <3>2 DEF PlainText
        <5> QED
          BY <5>1, Utf8Is DEF PlainText
      <4>4. E(n) = E(n - 1) \o Utf8(text[n])
        BY <4>1, <4>2, Zenon
      <4> QED
        BY <4>2, <4>3, <4>4, ConcatProperties, Zenon
    <3> QED
      BY <3>1, <3>2
  <2> QED
    BY <2>1, Zenon
<1>3. P(k)
  <2>1. E(k) \in Seq(StrOctet)
    BY <1>2
  <2>2. Len(E(k)) \in Nat
    BY <2>1
  <2> HIDE DEF E
  <2> QED
    BY <2>2
<1>4. ASSUME NEW n \in k .. Len(text) - 1, P(n) PROVE P(n + 1)
  <2>1. n \in 0 .. Len(text) - 1 /\ n \in 0 .. Len(text) /\ n + 1 \in DOMAIN text
    BY <1>1 DEF PlainText
  <2>2. E(n) \in Seq(StrOctet) /\ E(k) \in Seq(StrOctet)
    BY <1>2, <2>1
  <2>3. E(n + 1) = E(n) \o Utf8(text[n + 1])
    BY <2>1, EncodedNext
  <2>4. Utf8(text[n + 1]) \in Seq(StrOctet) /\ Len(Utf8(text[n + 1])) \in Nat \ {0}
    <3>1. Plain(text[n + 1])
      BY <2>1 DEF PlainText
    <3>2. /\ Utf8(text[n + 1]) \in Seq(StrOctet)
          /\ Len(Utf8(text[n + 1])) = Octets(text[n + 1]) /\ Octets(text[n + 1]) \in 1 .. 4
      BY <3>1, Utf8Is
    <3> QED
      BY <3>2
  <2> DEFINE u == Utf8(text[n + 1])
  <2> HIDE DEF E, u
  <2>5. /\ Len(E(n)) \in Nat /\ Len(E(k)) \in Nat /\ Len(u) \in Nat \ {0}
        /\ Len(E(n + 1)) = Len(E(n)) + Len(u)
        /\ \A j \in 1 .. Len(E(n)) : E(n + 1)[j] = E(n)[j]
    BY <2>2, <2>3, <2>4 DEF u
  <2>6. /\ Len(E(k)) <= Len(E(n))
        /\ \A j \in 1 .. Len(E(k)) : E(n)[j] = E(k)[j]
    BY <1>4
  <2>7. Len(E(k)) < Len(E(n + 1))
    BY <2>5, <2>6
  <2>8. ASSUME NEW j \in 1 .. Len(E(k)) PROVE E(n + 1)[j] = E(k)[j]
    <3>1. j \in 1 .. Len(E(n))
      BY <2>5, <2>6
    <3> QED
      BY <2>5, <2>6, <3>1
  <2> QED
    BY <2>5, <2>7, <2>8
<1>5. T = {}
  <2> HIDE DEF P
  <2>1. SUFFICES ASSUME T # {} PROVE FALSE
    OBVIOUS
  <2>2. T \in SUBSET Nat
    BY <1>1
  <2>3. PICK n \in T : \A l \in T : n <= l
    BY <2>1, <2>2, LeastElement
  <2>4. n # k
    BY <1>3
  <2>5. n - 1 \in k .. Len(text) - 1 /\ (n - 1) + 1 = n /\ ~(n <= n - 1)
    BY <1>1, <2>4
  <2>6. n - 1 \in k .. Len(text)
    BY <1>1, <2>5
  <2>7. P(n - 1)
    BY <2>3, <2>5, <2>6
  <2>8. P((n - 1) + 1)
    BY <1>4, <2>5, <2>7
  <2>9. P(n)
    BY <2>5, <2>8, Zenon
  <2> QED
    BY <2>9
<1>6. P(m)
  <2> HIDE DEF P
  <2> QED
    BY <1>5
<1>7. Len(E(k)) \in Nat
  <2>1. E(k) \in Seq(StrOctet)
    BY <1>2
  <2> QED
    BY <2>1
<1> QED
  BY <1>6, <1>7

-----------------------------------------------------------------------------
(* The text up to the next octet has been shown.                           *)

\* After a turn of the loop, the octets of some characters have been read and their words are
\* in the pieces sent and in the buffer; at the end of the string the buffer is empty.
ShownSoFar(text) ==
    /\ str = Encoded(text)
    /\ s8 > Len(str) => buf = <<>>
    /\ \E k \in 0 .. Len(text) :
            /\ s8 = Len(EncodedTo(text, k)) + 1
            /\ FlattenSeq(out) \o buf = WantedTo(text, k)

\* What the string encodes, if anything, is such a text.
MeantPlain == \A text \in meant : PlainText(text)
ShownInv == MeantPlain => \A text \in meant : ShownSoFar(text)

LEMMA InitShown == Init => ShownInv
<1> SUFFICES ASSUME Init, MeantPlain, NEW text \in meant PROVE ShownSoFar(text)
  BY DEF ShownInv
<1>1. s8 = 1 /\ buf = <<>> /\ out = <<>> /\ str = Encoded(text)
  BY DEF Init
<1>2. PlainText(text)
  BY DEF MeantPlain
<1>3. EncodedTo(text, 0) = <<>> /\ WantedTo(text, 0) = <<>>
  BY <1>2, NothingYet
<1>4. 0 \in 0 .. Len(text)
  BY <1>2 DEF PlainText
<1>5. s8 = Len(EncodedTo(text, 0)) + 1
  BY <1>1, <1>3
<1>6. FlattenSeq(out) \o buf = WantedTo(text, 0)
  <2>1. FlattenSeq(out) = <<>>
    BY <1>1, FlattenEmpty, Zenon
  <2>2. <<>> \o <<>> = <<>>
    OBVIOUS
  <2> QED
    BY <1>1, <1>3, <2>1, <2>2, Zenon
<1> QED
  BY <1>1, <1>4, <1>5, <1>6, Zenon DEF ShownSoFar

\* A turn shows the next character.
LEMMA TurnShown ==
    ASSUME IInv, ShownInv, Turn
    PROVE  ShownInv'
<1> SUFFICES ASSUME MeantPlain', NEW text \in meant' PROVE ShownSoFar(text)'
  BY DEF ShownInv
<1> DEFINE d == Decoded(s8)
           filled == buf \o Before(Octet(s8)) \o Words(d.char)
<1>1. /\ Octet(s8) # 0 /\ s8' = s8 + d.octets /\ str' = str /\ meant' = meant
  BY DEF Turn
<1>2. \/ out' = Append(out, filled) /\ buf' = <<>>
      \/ Octet(s8') # 0 /\ buf' = filled /\ out' = out
  BY DEF Turn
<1>3. PlainText(text) /\ text \in meant
  BY <1>1 DEF MeantPlain
<1>4. ShownSoFar(text)
  BY <1>1, <1>3 DEF ShownInv, MeantPlain
<1>5. PICK k \in 0 .. Len(text) :
          /\ s8 = Len(EncodedTo(text, k)) + 1
          /\ FlattenSeq(out) \o buf = WantedTo(text, k)
  BY <1>4 DEF ShownSoFar
<1>6. str = Encoded(text) /\ str \in Seq(StrOctet)
  BY <1>4 DEF ShownSoFar, IInv, TypeOK
<1>7. s8 \in Nat \ {0} /\ s8 <= Len(str) /\ Len(str) \in Nat /\ Len(text) \in Nat
  <2>1. s8 \in 1 .. Len(str) + 1 /\ Len(str) \in Nat
    BY <1>6 DEF IInv, TypeOK
  <2>2. s8 <= Len(str)
    BY <1>1, <1>6, <2>1, OctetRead
  <2> QED
    BY <1>3, <2>1, <2>2 DEF PlainText
<1>8. k \in 0 .. Len(text) - 1 /\ k + 1 \in 0 .. Len(text) /\ k + 1 \in DOMAIN text
  <2>1. k # Len(text)
    <3>1. EncodedTo(text, Len(text)) = str
      BY <1>3, <1>6, NothingYet
    <3> QED
      BY <1>5, <1>7, <3>1
  <2> QED
    BY <1>3, <1>7, <2>1 DEF PlainText
<1> DEFINE c == text[k + 1]
           E(n) == EncodedTo(text, n)
<1>9. Plain(c)
  BY <1>3, <1>8 DEF PlainText
<1> HIDE DEF c
<1>10. /\ E(k) \in Seq(StrOctet) /\ E(k + 1) = E(k) \o Utf8(c)
       /\ WantedTo(text, k) \in Seq(Word) /\ WantedTo(text, k + 1) = WantedTo(text, k) \o Shown(c)
  BY <1>3, <1>8, EncodedNext, WantedNext DEF c
<1>11. Utf8(c) \in Seq(StrOctet) /\ Len(Utf8(c)) = Octets(c) /\ Octets(c) \in 1 .. 4
  BY <1>9, Utf8Is
<1>12. /\ Len(E(k + 1)) <= Len(str)
       /\ \A j \in 1 .. Len(E(k + 1)) : str[j] = E(k + 1)[j]
  <2>1. Len(text) \in k + 1 .. Len(text) /\ EncodedTo(text, Len(text)) = str
    BY <1>3, <1>6, <1>7, <1>8, NothingYet
  <2> QED
    BY <1>3, <1>8, <2>1, PrefixesAgree
<1> HIDE DEF E
<1>13. /\ Len(E(k)) \in Nat /\ Len(E(k + 1)) = Len(E(k)) + Octets(c)
       /\ \A j \in 1 .. Octets(c) : E(k + 1)[Len(E(k)) + j] = Utf8(c)[j]
  BY <1>10, <1>11
<1>14. StandsAt(c, s8)
  <2> SUFFICES ASSUME NEW j \in 1 .. Octets(c) PROVE Octet(s8 + (j - 1)) = Utf8(c)[j]
    BY DEF StandsAt
  <2>1. s8 + (j - 1) = Len(E(k)) + j
    BY <1>5, <1>11, <1>13 DEF E
  <2>2. Len(E(k)) + j \in 1 .. Len(E(k + 1)) /\ Len(E(k)) + j <= Len(str)
    BY <1>7, <1>11, <1>12, <1>13
  <2>3. Octet(Len(E(k)) + j) = str[Len(E(k)) + j]
    BY <2>2 DEF Octet
  <2> QED
    BY <1>12, <1>13, <2>1, <2>2, <2>3
<1>15. d.char = c /\ d.octets = Octets(c)
  BY <1>7, <1>9, <1>14, DecodesCharacter
<1>16. s8' = Len(EncodedTo(text, k + 1)) + 1
  BY <1>1, <1>5, <1>11, <1>13, <1>15 DEF E
<1>17. /\ buf \in Seq(Word) /\ out \in Seq(Seq(Word)) /\ FlattenSeq(out) \in Seq(Word)
  BY FlattenSeqType DEF IInv, TypeOK
<1>18. filled = buf \o Shown(c) /\ Shown(c) \in Seq(Word)
  <2>1. /\ Shown(c) \in Seq(Word) /\ Before(Octet(s8)) \o Words(c) = Shown(c)
        /\ Before(Octet(s8)) \in Seq(Word) /\ Words(c) \in Seq(Word)
    BY <1>7, <1>9, <1>14, TurnShows
  <2>2. buf \in Seq(Word) /\ Before(Octet(s8)) \in Seq(Word) /\ Words(c) \in Seq(Word)
    BY <1>17, <2>1, Zenon
  <2>3. (buf \o Before(Octet(s8))) \o Words(c) = buf \o (Before(Octet(s8)) \o Words(c))
    BY <2>2
  <2>4. buf \o (Before(Octet(s8)) \o Words(c)) = buf \o Shown(c)
    BY <2>1, Zenon
  <2>5. filled = (buf \o Before(Octet(s8))) \o Words(c)
    BY <1>15, Zenon
  <2> QED
    BY <2>1, <2>3, <2>4, <2>5
<1> HIDE DEF d, filled
<1>19. FlattenSeq(out) \o filled = WantedTo(text, k + 1) /\ filled \in Seq(Word)
  <2>3. FlattenSeq(out) \in Seq(Word) /\ buf \in Seq(Word) /\ Shown(c) \in Seq(Word)
    BY <1>17, <1>18, Zenon
  <2>1. (FlattenSeq(out) \o buf) \o Shown(c) = FlattenSeq(out) \o (buf \o Shown(c))
    BY <2>3
  <2>2. filled \in Seq(Word)
    BY <1>17, <1>18, ConcatProperties, Zenon
  <2> QED
    BY <1>5, <1>10, <1>18, <2>1, <2>2, Zenon
<1>20. FlattenSeq(out') \o buf' = WantedTo(text, k + 1)
  <2>1. CASE out' = Append(out, filled) /\ buf' = <<>>
    <3>1. FlattenSeq(Append(out, filled)) = FlattenSeq(out) \o filled
      BY <1>17, <1>19, FlattenAppend
    <3>2. (FlattenSeq(out) \o filled) \o <<>> = FlattenSeq(out) \o filled
      <4>1. FlattenSeq(out) \o filled \in Seq(Word)
        BY <1>17, <1>19, ConcatProperties, Zenon
      <4> QED
        BY <4>1, ConcatEmptySeq
    <3> QED
      BY <1>19, <2>1, <3>1, <3>2, Zenon
  <2>2. CASE buf' = filled /\ out' = out
    BY <1>19, <2>2, Zenon
  <2> QED
    BY <1>2, <2>1, <2>2
<1>21. s8' > Len(str) => buf' = <<>>
  <2> SUFFICES ASSUME s8' > Len(str), buf' # <<>> PROVE FALSE
    OBVIOUS
  <2>1. Octet(s8') # 0
    BY <1>2
  <2>2. Octet(s8') = IF s8' <= Len(str) THEN str[s8'] ELSE 0
    BY DEF Octet
  <2>3. s8' \in Nat
    BY <1>10, <1>11, <1>13, <1>16 DEF E
  <2> QED
    BY <1>1, <1>7, <2>1, <2>2, <2>3
<1> QED
  BY <1>1, <1>6, <1>8, <1>16, <1>20, <1>21 DEF ShownSoFar

LEMMA StutterShown ==
    ASSUME ShownInv, UNCHANGED vars
    PROVE  ShownInv'
BY DEF ShownInv, MeantPlain, ShownSoFar, vars

\* A text is shown.
LEMMA ShownAtEnd ==
    ASSUME IInv, ShownInv, MeantPlain
    PROVE  TextShown
<1> SUFFICES ASSUME s8 > Len(str), NEW text \in meant PROVE FlattenSeq(out) = Wanted(text)
  BY DEF TextShown
<1>1. PlainText(text) /\ ShownSoFar(text)
  BY DEF MeantPlain, ShownInv
<1>2. PICK k \in 0 .. Len(text) :
          /\ s8 = Len(EncodedTo(text, k)) + 1
          /\ FlattenSeq(out) \o buf = WantedTo(text, k)
  BY <1>1 DEF ShownSoFar
<1>3. buf = <<>> /\ str = Encoded(text) /\ Len(str) \in Nat /\ Len(text) \in Nat
  BY <1>1 DEF ShownSoFar, PlainText, IInv, TypeOK
<1>4. k = Len(text)
  <2>1. EncodedTo(text, Len(text)) = str
    BY <1>1, <1>3, NothingYet
  <2>2. Len(text) \in k .. Len(text)
    BY <1>3
  <2>3. Len(EncodedTo(text, k)) \in Nat
        /\ (k # Len(text) => Len(EncodedTo(text, k)) < Len(EncodedTo(text, Len(text))))
    BY <1>1, <2>2, PrefixesAgree
  <2> QED
    BY <1>2, <1>3, <2>1, <2>3
<1>5. FlattenSeq(out) \o buf = Wanted(text)
  BY <1>1, <1>2, <1>4, NothingYet
<1>6. FlattenSeq(out) \in Seq(Word)
  BY FlattenSeqType DEF IInv, TypeOK
<1> QED
  BY <1>3, <1>5, <1>6, ConcatEmptySeq

\* Every text is shown as it is, with a carriage return before each line feed, whatever its
\* length, wherever efi_puts cuts it into pieces, with any buffer of at least three words;
\* provided that no character of it looks like a surrogate to utf8_to_utf32.
THEOREM PlainTextShown == Spec => [](MeantPlain => TextShown)
<1>1. IInv /\ ShownInv /\ [Turn]_vars => ShownInv'
  BY TurnShown, StutterShown
<1>2. IInv /\ ShownInv => (MeantPlain => TextShown)
  BY ShownAtEnd
<1> QED
  BY <1>1, <1>2, InitShown, Inductive, PTL DEF Spec
=============================================================================
