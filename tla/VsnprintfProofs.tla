-------------------------- MODULE VsnprintfProofs --------------------------
(***************************************************************************)
(* Whatever the format, its arguments and the size of the buffer: nothing  *)
(* is stored outside the buffer, and it holds the text as far as it fits,  *)
(* characters of several octets whole, with a terminator behind it.  And   *)
(* put_dec writes the decimal digits of every unsigned long long.          *)
(***************************************************************************)
EXTENDS Vsnprintf, PutDec, WellFoundedInduction, TLAPS

size == call.size

\* Until a character does not fit, the text in the buffer is all that was written.  From
\* then on nothing more is stored, and the terminator stands behind the text or will be
\* put there by the end of the call.
Prefix ==
    /\ \A i \in 0 .. kept - 1 : buf[i] = shown[i]
    /\ kept = 0 \/ kept < size
    /\ ~cut => pos = kept
    /\ cut => pos >= size /\ (size > 0 => kept = size - 1 \/ buf[kept] = Nul)


Typed == call \in Calls /\ pos \in Nat /\ kept \in Nat /\ cut \in BOOLEAN /\ DOMAIN buf = 0 .. size - 1

\* After the call there is nothing left to write, and the text is terminated.
Stopped ==
    ret # Running =>
        /\ todo = <<>> /\ len = 0 /\ right = 0
        /\ size > 0 => buf[kept] = Nul

Sound == Typed /\ strays = {} /\ Prefix
IInv == Sound /\ Stopped

LEMMA SizeNat == \A c \in Calls : c.size \in Nat
BY CallsAssumption

-----------------------------------------------------------------------------
\* What a character stores: cells of the buffer, none of them before the next one.
LEMMA CellsInBuffer ==
    ASSUME Typed, NEW char, Len(char) \in Nat \ {0}
    PROVE  \A i \in DOMAIN Written(char) : i \in DOMAIN buf /\ i >= pos
<1>1. size \in Nat /\ pos \in Nat
  BY SizeNat DEF Typed, size
<1>2. CASE Len(char) > 1 /\ Fits(pos + Len(char))
  <2>1. DOMAIN Written(char) = pos .. (pos + Len(char)) - 1
    BY <1>2 DEF Written
  <2>2. pos + Len(char) < size
    BY <1>2 DEF Fits, size
  <2> QED
    BY <1>1, <2>1, <2>2 DEF Typed
<1>3. CASE ~(Len(char) > 1 /\ Fits(pos + Len(char)))
  <2>1. DOMAIN Written(char) = {j \in {pos} : Room(j)}
    BY <1>3 DEF Written
  <2> QED
    BY <1>1, <2>1 DEF Typed, Room, size
<1> QED
  BY <1>2, <1>3

\* A store of cells of the buffer is one, and changes no other cell.
LEMMA StoreInBuffer ==
    ASSUME Typed, NEW cells, Stored(cells), DOMAIN cells \subseteq DOMAIN buf, strays = {}
    PROVE  /\ strays' = {} /\ DOMAIN buf' = 0 .. size - 1
           /\ \A i \in 0 .. size - 1 : buf'[i] = IF i \in DOMAIN cells THEN cells[i] ELSE buf[i]
<1>1. strays' = {}
  BY DEF Stored
<1>2. DOMAIN buf = 0 .. size - 1
  BY DEF Typed
<1>3. buf' = [i \in DOMAIN buf |-> IF i \in DOMAIN cells THEN cells[i] ELSE buf[i]]
  BY DEF Stored
<1> QED
  BY <1>1, <1>2, <1>3

\* Writing a character of any length keeps the buffer sound.
LEMMA PutSound ==
    ASSUME Sound, NEW char, Len(char) \in Nat \ {0}, Put(char), call' = call
    PROVE  Sound'
<1> DEFINE n == Len(char)
           cells == Written(char)
<1>1. /\ size \in Nat /\ pos \in Nat /\ kept \in Nat /\ cut \in BOOLEAN /\ n \in Nat /\ n >= 1
      /\ size' = size /\ pos' = pos + n /\ DOMAIN buf = 0 .. size - 1
  BY SizeNat DEF Sound, Typed, size, Put
<1>2. \A i \in DOMAIN cells : i \in DOMAIN buf /\ i >= pos
  BY CellsInBuffer DEF Sound
<1>3. /\ strays' = {} /\ DOMAIN buf' = 0 .. size - 1
      /\ \A i \in 0 .. size - 1 : buf'[i] = IF i \in DOMAIN cells THEN cells[i] ELSE buf[i]
  <2>1. DOMAIN cells \subseteq DOMAIN buf
    BY <1>2
  <2>2. Stored(cells)
    BY DEF Put
  <2> QED
    BY <2>1, <2>2, StoreInBuffer DEF Sound
<1>4. /\ n > 1 /\ pos + n < size => cells = [i \in pos .. (pos + n) - 1 |-> char[(i - pos) + 1]]
      /\ ~(n > 1 /\ pos + n < size) =>
             cells = [i \in {j \in {pos} : j < size} |-> IF n = 1 THEN char[1] ELSE Nul]
  BY DEF Written, Fits, Room, size
<1>5. Shown(char)
  BY DEF Put
<1>6. Prefix
  BY DEF Sound
<1> HIDE DEF n, cells
<1>7. CASE cut
  <2>1. pos >= size
    BY <1>6, <1>7 DEF Prefix
  <2>2. \A i \in 0 .. size - 1 : buf'[i] = buf[i]
    BY <1>1, <1>2, <1>3, <2>1
  <2>3. shown' = shown /\ kept' = kept /\ cut' = TRUE
    BY <1>5, <1>7 DEF Shown
  <2>4. Prefix'
    BY <1>1, <1>6, <1>7, <2>1, <2>2, <2>3 DEF Prefix
  <2> QED
    BY <1>1, <1>3, <2>3, <2>4 DEF Sound, Typed
<1>8. CASE ~cut /\ kept + n < size
  <2>1. pos = kept
    BY <1>6, <1>8 DEF Prefix
  <2>2. /\ shown' = [i \in 0 .. (kept + n) - 1 |->
                         IF i < kept THEN shown[i] ELSE char[(i - kept) + 1]]
        /\ kept' = kept + n /\ cut' = cut
    BY <1>5, <1>8 DEF Shown, size, n
  <2>3. DOMAIN cells = pos .. (pos + n) - 1 /\ \A i \in DOMAIN cells : cells[i] = char[(i - pos) + 1]
    <3>1. CASE n > 1
      BY <1>1, <1>4, <1>8, <2>1, <3>1
    <3>2. CASE n = 1
      <4>1. cells = [i \in {j \in {pos} : j < size} |-> char[1]]
        BY <1>4, <3>2
      <4>2. {j \in {pos} : j < size} = pos .. (pos + n) - 1 /\ (pos - pos) + 1 = 1
        BY <1>1, <1>8, <2>1, <3>2
      <4>3. \A i \in pos .. (pos + n) - 1 : (i - pos) + 1 = 1
        BY <1>1, <3>2
      <4> QED
        BY <4>1, <4>2, <4>3
    <3> QED
      BY <1>1, <3>1, <3>2
  <2>4. ASSUME NEW i \in 0 .. (kept + n) - 1 PROVE buf'[i] = shown'[i]
    <3>1. i \in 0 .. size - 1
      BY <1>1, <1>8
    <3>2. CASE i < kept
      <4>1. i \notin DOMAIN cells /\ i \in 0 .. kept - 1
        BY <1>1, <2>1, <2>3, <3>2
      <4>2. buf'[i] = buf[i] /\ shown'[i] = shown[i]
        BY <1>3, <2>2, <3>1, <3>2, <4>1
      <4> QED
        BY <1>6, <4>1, <4>2 DEF Prefix
    <3>3. CASE i >= kept
      <4>1. i \in DOMAIN cells
        BY <1>1, <2>1, <2>3, <3>3
      <4>2. buf'[i] = char[(i - kept) + 1]
        BY <1>3, <2>1, <2>3, <3>1, <4>1
      <4>3. ~(i < kept)
        BY <1>1, <3>3
      <4> QED
        BY <2>2, <4>2, <4>3
    <3> QED
      BY <1>1, <3>2, <3>3
  <2>5. kept' \in Nat /\ kept' < size' /\ pos' = kept' /\ ~cut'
    BY <1>1, <1>8, <2>1, <2>2
  <2>6. Prefix'
    BY <2>2, <2>4, <2>5 DEF Prefix
  <2> QED
    BY <1>1, <1>3, <2>2, <2>5, <2>6 DEF Sound, Typed
<1>9. CASE ~cut /\ ~(kept + n < size)
  <2>1. pos = kept /\ (kept = 0 \/ kept < size)
    BY <1>6, <1>9 DEF Prefix
  <2>2. shown' = shown /\ kept' = kept /\ cut' = TRUE
    BY <1>5, <1>9 DEF Shown, size, n
  <2>3. \A i \in 0 .. kept - 1 : buf'[i] = buf[i]
    BY <1>1, <1>2, <1>3, <2>1
  <2>4. pos' >= size'
    BY <1>1, <1>9, <2>1
  <2>5. ASSUME size > 0, kept # size - 1 PROVE buf'[kept] = Nul
    <3>1. kept < size - 1 /\ n > 1 /\ kept \in 0 .. size - 1
      BY <1>1, <1>9, <2>1, <2>5
    <3>2. cells = [i \in {j \in {pos} : j < size} |-> Nul]
      BY <1>1, <1>4, <1>9, <2>1, <3>1
    <3>3. kept \in DOMAIN cells /\ cells[kept] = Nul
      BY <1>1, <2>1, <3>1, <3>2
    <3> QED
      BY <1>3, <3>1, <3>3
  <2>6. Prefix'
    <3>1. \A i \in 0 .. kept' - 1 : buf'[i] = shown'[i]
      BY <1>6, <2>2, <2>3 DEF Prefix
    <3> QED
      BY <1>1, <2>1, <2>2, <2>4, <2>5, <3>1 DEF Prefix
  <2> QED
    BY <1>1, <1>3, <2>2, <2>6 DEF Sound, Typed
<1> QED
  BY <1>1, <1>7, <1>8, <1>9

-----------------------------------------------------------------------------
\* The wide characters are never empty.
LEMMA WideLength == \A i : Len(WideChar(i)) \in Nat \ {0}
<1> TAKE i
<1>1. \A s \in Seq(STRING) \ {<<>>} : Len(s) \in Nat \ {0}
  OBVIOUS
<1>2. Len(<<Nul>>) = 1
  OBVIOUS
<1> DEFINE key == IF Pair(i) THEN <<Word(words, i), Word(words, i + 1)>>
                  ELSE IF Word(words, i) \in High \cup Low THEN <<"FFFD">> ELSE <<Word(words, i)>>
<1>3. WideChar(i) = IF key \in DOMAIN Utf8 THEN Utf8[key] ELSE <<Nul>>
  BY DEF WideChar
<1> HIDE DEF key
<1> QED
  BY <1>1, <1>2, <1>3, Utf8Assumption

\* The end of the call stores a terminator behind the text that fits.
LEMMA ReturnSound ==
    ASSUME IInv, Return
    PROVE  IInv'
<1> DEFINE cells == [i \in {j \in {TerminatorAt} : size > 0} |-> Nul]
<1>1. /\ size \in Nat /\ pos \in Nat /\ kept \in Nat /\ cut \in BOOLEAN /\ size' = size
      /\ DOMAIN buf = 0 .. size - 1 /\ strays = {} /\ Prefix
  BY SizeNat DEF IInv, Sound, Typed, size, Return
<1>2. Stored(cells) /\ UNCHANGED <<call, place, field, pos, shown, kept, cut>>
  BY DEF Return, size
<1>3. todo = <<>> /\ len = 0 /\ right = 0
  BY DEF Return, Between
<1>4. /\ size > 0 => TerminatorAt \in 0 .. size - 1 /\ TerminatorAt >= kept
      /\ size > 0 /\ ~cut => TerminatorAt = kept
      /\ size > 0 /\ cut => TerminatorAt = size - 1
  BY <1>1 DEF TerminatorAt, size, Prefix
<1>5. /\ DOMAIN cells = {j \in {TerminatorAt} : size > 0}
      /\ \A i \in DOMAIN cells : cells[i] = Nul /\ i = TerminatorAt
  OBVIOUS
<1> HIDE DEF cells
<1>6. /\ strays' = {} /\ DOMAIN buf' = 0 .. size - 1
      /\ \A i \in 0 .. size - 1 : buf'[i] = IF i \in DOMAIN cells THEN cells[i] ELSE buf[i]
  <2>1. DOMAIN cells \subseteq DOMAIN buf
    BY <1>1, <1>4, <1>5
  <2> QED
    BY <1>1, <1>2, <2>1, StoreInBuffer DEF IInv, Sound
<1>7. \A i \in 0 .. size - 1 : buf'[i] = IF i = TerminatorAt THEN Nul ELSE buf[i]
  <2> TAKE i \in 0 .. size - 1
  <2>1. size > 0
    BY <1>1
  <2>2. i \in DOMAIN cells <=> i = TerminatorAt
    BY <1>5, <2>1
  <2> QED
    BY <1>5, <1>6, <2>2
<1>8. \A i \in 0 .. kept - 1 : buf'[i] = shown[i]
  <2>1. \A i \in 0 .. kept - 1 : i \in 0 .. size - 1 /\ i # TerminatorAt /\ buf[i] = shown[i]
    BY <1>1, <1>4 DEF Prefix
  <2> QED
    BY <1>7, <2>1
<1>9. size > 0 => buf'[kept] = Nul
  <2>1. size > 0 => kept \in 0 .. size - 1
    BY <1>1 DEF Prefix
  <2>2. size > 0 => kept = TerminatorAt \/ buf[kept] = Nul
    BY <1>1, <1>4 DEF Prefix
  <2> QED
    BY <1>7, <2>1, <2>2
<1>10. Prefix'
  BY <1>1, <1>2, <1>8, <1>9 DEF Prefix
<1> QED
  BY <1>1, <1>2, <1>3, <1>6, <1>9, <1>10 DEF IInv, Sound, Typed, Stopped, field

LEMMA InitInv == Init => IInv
<1> SUFFICES ASSUME NEW c \in Calls, Start(c) PROVE IInv
  BY DEF Init
<1>1. size \in Nat /\ call = c
  BY SizeNat DEF Start, size
<1>2. DOMAIN buf = 0 .. size - 1 /\ pos = 0 /\ kept = 0 /\ cut = FALSE /\ strays = {} /\ ret = Running
  BY DEF Start, size
<1>3. Typed
  BY <1>1, <1>2 DEF Typed
<1>4. Prefix
  <2>1. \A i \in 0 .. kept - 1 : FALSE
    BY <1>2
  <2> QED
    BY <1>2, <2>1 DEF Prefix
<1> QED
  BY <1>2, <1>3, <1>4 DEF IInv, Sound, Stopped

LEMMA NextInv == IInv /\ [Next]_vars => IInv'
<1> SUFFICES ASSUME IInv, [Next]_vars PROVE IInv'
  OBVIOUS
<1>1. Sound /\ Stopped
  BY DEF IInv
<1>2. \A c : Len(<<c>>) \in Nat \ {0}
  OBVIOUS
<1>3. CASE Plain
  <2>1. PICK i : Put(<<Fmt(i)>>)
    BY <1>3 DEF Plain
  <2>2. call' = call /\ ret' = ret /\ ret = Running
    BY <1>3 DEF Plain, Between
  <2> QED
    BY <1>1, <1>2, <2>1, <2>2, PutSound DEF IInv, Stopped
<1>4. CASE Begin
  <2>1. UNCHANGED <<call, store, ret>> /\ ret = Running
    BY <1>4 DEF Begin, Between
  <2> QED
    BY <1>1, <2>1 DEF IInv, Sound, Typed, Prefix, Stopped, store, size
<1>5. CASE PutNext
  <2>1. Put(<<Head(todo)>>) /\ call' = call /\ ret' = ret /\ todo # <<>>
    BY <1>5 DEF PutNext
  <2>2. ret = Running
    BY <1>1, <2>1 DEF Stopped
  <2> QED
    BY <1>1, <1>2, <2>1, <2>2, PutSound DEF IInv, Stopped
<1>6. CASE PutWide
  <2>1. Put(WideChar(w)) /\ call' = call /\ ret' = ret /\ len # 0
    BY <1>6 DEF PutWide
  <2>2. ret = Running
    BY <1>1, <2>1 DEF Stopped
  <2> QED
    BY <1>1, WideLength, <2>1, <2>2, PutSound DEF IInv, Stopped
<1>7. CASE PutRight
  <2>1. \E c : Put(<<c>>)
    BY Zenon, <1>7 DEF PutRight
  <2>2. PICK c : Put(<<c>>)
    BY <2>1
  <2>3. call' = call /\ ret' = ret /\ right > 0
    BY <1>7 DEF PutRight
  <2>4. ret = Running
    <3>1. right # 0
      BY <2>3
    <3> QED
      BY <1>1, <3>1 DEF Stopped
  <2> QED
    BY <1>1, <1>2, <2>2, <2>3, <2>4, PutSound DEF IInv, Stopped
<1>8. CASE Return
  BY <1>8, ReturnSound
<1>9. CASE UNCHANGED vars
  BY <1>1, <1>9 DEF vars, store, field, place, IInv, Sound, Typed, Prefix, Stopped, size
<1> QED
  BY <1>3, <1>4, <1>5, <1>6, <1>7, <1>8, <1>9 DEF Next

LEMMA Inductive == Spec => []IInv
BY InitInv, NextInv, PTL DEF Spec

-----------------------------------------------------------------------------
\* vsnprintf stores nothing outside its buffer, whatever the text and the size.
THEOREM BufferNeverOverrun == Spec => []InBuffer
<1>1. IInv => InBuffer
  BY DEF IInv, Sound, InBuffer
<1> QED
  BY <1>1, Inductive, PTL

\* The buffer holds the text as far as it fits, whole characters of it, and at the end of
\* the call a terminator behind them.
THEOREM TextHeld == Spec => []HoldsWhatFits
<1>1. IInv => HoldsWhatFits
  <2> SUFFICES ASSUME IInv PROVE HoldsWhatFits
    OBVIOUS
  <2>1. size \in Nat /\ kept \in Nat /\ DOMAIN buf = 0 .. size - 1 /\ Prefix /\ Stopped
    BY SizeNat DEF IInv, Sound, Typed, size
  <2>2. \A i \in 0 .. kept - 1 : i \in DOMAIN buf /\ buf[i] = shown[i]
    BY <2>1 DEF Prefix
  <2>3. size > 0 => kept \in DOMAIN buf
    BY <2>1 DEF Prefix
  <2> QED
    BY <2>1, <2>2, <2>3 DEF HoldsWhatFits, Stopped, size
<1> QED
  BY <1>1, Inductive, PTL

-----------------------------------------------------------------------------
\* What fits in the width is kept.
LEMMA Kept ==
    /\ \A x \in Nat : x < IntRange => UInt(x) = x
    /\ \A x \in Nat : x < LongLongRange => ULongLong(x) = x
BY SMT DEF UInt, ULongLong, IntRange, LongLongRange

\* Below 16389 the multiplication and the shift of put_dec_full4 divide by ten, as its
\* comment says.
THEOREM TenthExact ==
    ASSUME NEW r \in Nat, r < 16389
    PROVE  Tenth(r) = r \div 10
<1>1. r * 3277 \in Nat /\ r * 3277 < IntRange
  BY SMT DEF IntRange
<1>2. UInt(r * 3277) = r * 3277
  BY <1>1, Kept, SMT
<1>3. (r * 3277) \div 32768 = r \div 10
  BY SMT
<1> QED
  BY SMT, <1>2, <1>3 DEF Tenth

\* put_dec_full4 writes the four digits of its number.
LEMMA Full4Digits ==
    ASSUME NEW r \in Nat, r < 10000
    PROVE  /\ Full4(r) \in Seq(0 .. 9) /\ Len(Full4(r)) = 4
           /\ r = 1000 * Full4(r)[1] + 100 * Full4(r)[2] + 10 * Full4(r)[3] + Full4(r)[4]
<1> DEFINE q1 == Tenth(r)
           q2 == Tenth(q1)
           q3 == Tenth(q2)
<1>1. q1 = r \div 10
  BY SMT, TenthExact
<1>2. q1 \in Nat /\ q1 < 1000 /\ r - q1 * 10 \in 0 .. 9
  BY SMT, <1>1
<1> HIDE DEF q1
<1>3. q2 = q1 \div 10
  BY SMT, <1>2, TenthExact
<1>4. q2 \in Nat /\ q2 < 100 /\ q1 - q2 * 10 \in 0 .. 9
  BY SMT, <1>2, <1>3
<1> HIDE DEF q2
<1>5. q3 = q2 \div 10
  BY SMT, <1>4, TenthExact
<1>6. q3 \in 0 .. 9 /\ q2 - q3 * 10 \in 0 .. 9
  BY SMT, <1>4, <1>5
<1> HIDE DEF q3
<1>7. \A x \in 0 .. 9 : UInt(x) = x
  BY SMT DEF UInt, IntRange
<1>8. Full4(r) = <<q3, q2 - q3 * 10, q1 - q2 * 10, r - q1 * 10>>
  <2>1. Full4(r) = <<q3, UInt(q2 - q3 * 10), UInt(q1 - q2 * 10), UInt(r - q1 * 10)>>
    BY DEF Full4, q1, q2, q3
  <2> QED
    BY SMT, <1>2, <1>4, <1>6, <1>7, <2>1
<1>9. r = 1000 * q3 + 100 * (q2 - q3 * 10) + 10 * (q1 - q2 * 10) + (r - q1 * 10)
  BY SMT, <1>2, <1>4, <1>6
<1> QED
  <2>1. /\ Full4(r)[1] = q3 /\ Full4(r)[2] = q2 - q3 * 10
        /\ Full4(r)[3] = q1 - q2 * 10 /\ Full4(r)[4] = r - q1 * 10
    BY SMT, <1>8
  <2>2. Full4(r) \in Seq(0 .. 9) /\ Len(Full4(r)) = 4
    BY SMT, <1>2, <1>4, <1>6, <1>8
  <2> QED
    BY SMT, <1>9, <2>1, <2>2

\* Below 1128869999 the multiplication and the shift of put_dec_helper4 divide by 10000,
\* and its four digits are of the remainder.
THEOREM Helper4Exact ==
    ASSUME NEW x \in Nat, x < 1128869999
    PROVE  Helper4(x) = x \div 10000 /\ Last4(x) = x % 10000
<1>1. x * 879609303 \in Nat /\ x * 879609303 < LongLongRange
  BY SMT DEF LongLongRange
<1>2. ULongLong(x * 879609303) = x * 879609303
  BY <1>1, Kept, SMT
<1>3. (x * 879609303) \div 8796093022208 = x \div 10000
  BY SMT
<1>4. UInt(x \div 10000) = x \div 10000
  <2>1. x \div 10000 \in Nat /\ x \div 10000 < IntRange
    BY SMT DEF IntRange
  <2> QED
    BY SMT, <2>1, Kept
<1>5. Helper4(x) = x \div 10000
  BY SMT, <1>2, <1>3, <1>4 DEF Helper4
<1>6. x - Helper4(x) * 10000 = x % 10000
  BY SMT, <1>5
<1>7. x % 10000 \in Nat /\ x % 10000 < IntRange
  BY SMT DEF IntRange
<1> QED
  BY SMT, <1>5, <1>6, <1>7, Kept DEF Last4

\* The number is what its four parts are worth.
LEMMA PartsOf ==
    ASSUME NEW n \in Nat, n < LongLongRange
    PROVE  /\ \A k \in 0 .. 3 : Part(n, k) \in Nat /\ Part(n, k) <= 65535
           /\ n = Part(n, 0) + 65536 * Part(n, 1) + 4294967296 * Part(n, 2)
                     + 281474976710656 * Part(n, 3)
<1>1. Part(n, 0) = n % 65536 /\ Part(n, 1) = (n % 4294967296) \div 65536
  BY SMT DEF Part, UInt, IntRange
<1>2. Part(n, 2) = (n \div 4294967296) % 65536 /\ Part(n, 3) = (n \div 4294967296) \div 65536
  BY SMT DEF Part, IntRange
<1>3. n < 18446744073709551616
  BY SMT DEF LongLongRange
<1>4. /\ Part(n, 0) \in Nat /\ Part(n, 0) <= 65535 /\ Part(n, 1) \in Nat /\ Part(n, 1) <= 65535
      /\ Part(n, 0) + 65536 * Part(n, 1) = n % 4294967296
  BY SMT, <1>1
<1>5. /\ Part(n, 2) \in Nat /\ Part(n, 2) <= 65535 /\ Part(n, 3) \in Nat /\ Part(n, 3) <= 65535
      /\ Part(n, 2) + 65536 * Part(n, 3) = n \div 4294967296
  <2> DEFINE h == n \div 4294967296
  <2>1. h \in Nat /\ h <= 4294967295
    BY SMT, <1>3
  <2>2. Part(n, 2) = h % 65536 /\ Part(n, 3) = h \div 65536
    BY SMT, <1>2
  <2> HIDE DEF h
  <2>3. /\ h % 65536 \in Nat /\ h % 65536 <= 65535 /\ h \div 65536 \in Nat /\ h \div 65536 <= 65535
        /\ (h % 65536) + 65536 * (h \div 65536) = h
    BY SMT, <2>1
  <2>4. /\ Part(n, 2) \in Nat /\ Part(n, 2) <= 65535 /\ Part(n, 3) \in Nat /\ Part(n, 3) <= 65535
        /\ Part(n, 2) + 65536 * Part(n, 3) = h
    BY SMT, <2>2, <2>3
  <2> QED
    BY SMT, <2>4 DEF h
<1>6. n = (n % 4294967296) + 4294967296 * (n \div 4294967296)
  BY SMT
<1> QED
  BY SMT, <1>4, <1>5, <1>6

\* No sum of put_dec is cut to its 32 bits, each is small enough for put_dec_helper4, and
\* without what is carried from one to the next they are the number.
LEMMA SumsExact ==
    ASSUME NEW n \in Nat, n < LongLongRange
    PROVE  /\ Sum0(n) \in Nat /\ Sum1(n) \in Nat /\ Sum2(n) \in Nat /\ Sum3(n) \in Nat
           /\ Sum0(n) < 1128869999 /\ Sum1(n) < 1128869999
           /\ Sum2(n) < 1128869999 /\ Sum3(n) < 100000000
           /\ n = Sum0(n) + 10000 * (Sum1(n) - (Sum0(n) \div 10000))
                    + 100000000 * (Sum2(n) - (Sum1(n) \div 10000))
                    + 1000000000000 * (Sum3(n) - (Sum2(n) \div 10000))
<1> DEFINE d0 == Part(n, 0)
           d1 == Part(n, 1)
           d2 == Part(n, 2)
           d3 == Part(n, 3)
<1>1. /\ d0 \in Nat /\ d1 \in Nat /\ d2 \in Nat /\ d3 \in Nat
      /\ d0 <= 65535 /\ d1 <= 65535 /\ d2 <= 65535 /\ d3 <= 65535
      /\ n = d0 + 65536 * d1 + 4294967296 * d2 + 281474976710656 * d3
  BY SMT, PartsOf
<1>2. Sum0(n) = UInt(656 * d3 + 7296 * d2 + 5536 * d1 + d0)
  BY DEF Sum0
<1>3. Sum1(n) = UInt(Helper4(Sum0(n)) + 7671 * d3 + 9496 * d2 + 6 * d1)
  BY DEF Sum1
<1>4. Sum2(n) = UInt(Helper4(Sum1(n)) + 4749 * d3 + 42 * d2)
  BY DEF Sum2
<1>5. Sum3(n) = UInt(Helper4(Sum2(n)) + 281 * d3)
  BY DEF Sum3
<1> HIDE DEF d0, d1, d2, d3
<1>6. \A x \in Nat : x < 1128869999 => UInt(x) = x
  BY SMT DEF UInt, IntRange
<1>7. \A x \in Nat : x < 1128869999 => Helper4(x) = x \div 10000
  BY SMT, Helper4Exact
<1>8. /\ Sum0(n) = 656 * d3 + 7296 * d2 + 5536 * d1 + d0
      /\ Sum0(n) \in Nat /\ Sum0(n) <= 884001615
  <2> DEFINE x == 656 * d3 + 7296 * d2 + 5536 * d1 + d0
  <2>1. x \in Nat /\ x <= 884001615
    BY SMT, <1>1
  <2> HIDE DEF x
  <2>2. UInt(x) = x
    BY SMT, <1>6, <2>1
  <2> QED
    BY SMT, <1>2, <2>1, <2>2 DEF x
<1>9. /\ Sum1(n) = (Sum0(n) \div 10000) + 7671 * d3 + 9496 * d2 + 6 * d1
      /\ Sum1(n) \in Nat /\ Sum1(n) <= 1125525956
  <2> DEFINE x == (Sum0(n) \div 10000) + 7671 * d3 + 9496 * d2 + 6 * d1
  <2>1. x \in Nat /\ x <= 1125525956
    BY SMT, <1>1, <1>8
  <2>2. Helper4(Sum0(n)) = Sum0(n) \div 10000
    BY SMT, <1>7, <1>8
  <2>3. Sum1(n) = UInt(x)
    BY SMT, <1>3, <2>2
  <2> HIDE DEF x
  <2>4. UInt(x) = x
    BY SMT, <1>6, <2>1
  <2> QED
    BY SMT, <2>1, <2>3, <2>4 DEF x
<1>10. /\ Sum2(n) = (Sum1(n) \div 10000) + 4749 * d3 + 42 * d2
       /\ Sum2(n) \in Nat /\ Sum2(n) <= 314090737
  <2> DEFINE x == (Sum1(n) \div 10000) + 4749 * d3 + 42 * d2
  <2>1. x \in Nat /\ x <= 314090737
    BY SMT, <1>1, <1>9
  <2>2. Helper4(Sum1(n)) = Sum1(n) \div 10000
    BY SMT, <1>7, <1>9
  <2>3. Sum2(n) = UInt(x)
    BY SMT, <1>4, <2>2
  <2> HIDE DEF x
  <2>4. UInt(x) = x
    BY SMT, <1>6, <2>1
  <2> QED
    BY SMT, <2>1, <2>3, <2>4 DEF x
<1>11. /\ Sum3(n) = (Sum2(n) \div 10000) + 281 * d3
       /\ Sum3(n) \in Nat /\ Sum3(n) <= 18446744
  <2> DEFINE x == (Sum2(n) \div 10000) + 281 * d3
  <2>1. x \in Nat /\ x <= 18446744
    BY SMT, <1>1, <1>10
  <2>2. Helper4(Sum2(n)) = Sum2(n) \div 10000
    BY SMT, <1>7, <1>10
  <2>3. Sum3(n) = UInt(x)
    BY SMT, <1>5, <2>2
  <2> HIDE DEF x
  <2>4. UInt(x) = x
    BY SMT, <1>6, <2>1
  <2> QED
    BY SMT, <2>1, <2>3, <2>4 DEF x
<1> DEFINE q0 == Sum0(n) \div 10000
           q1 == Sum1(n) \div 10000
           q2 == Sum2(n) \div 10000
<1>12. q0 \in Nat /\ q1 \in Nat /\ q2 \in Nat
  BY SMT, <1>8, <1>9, <1>10
<1>13. /\ Sum1(n) = q0 + 7671 * d3 + 9496 * d2 + 6 * d1
       /\ Sum2(n) = q1 + 4749 * d3 + 42 * d2
       /\ Sum3(n) = q2 + 281 * d3
  BY SMT, <1>9, <1>10, <1>11
<1> HIDE DEF q0, q1, q2
<1>14. n = Sum0(n) + 10000 * (Sum1(n) - q0) + 100000000 * (Sum2(n) - q1)
              + 1000000000000 * (Sum3(n) - q2)
  BY SMT, <1>1, <1>8, <1>12, <1>13
<1>15. /\ Sum0(n) \in Nat /\ Sum1(n) \in Nat /\ Sum2(n) \in Nat /\ Sum3(n) \in Nat
       /\ Sum0(n) < 1128869999 /\ Sum1(n) < 1128869999
       /\ Sum2(n) < 1128869999 /\ Sum3(n) < 100000000
  BY SMT, <1>8, <1>9, <1>10, <1>11
<1> QED
  BY SMT, <1>14, <1>15 DEF q0, q1, q2

\* A set of numbers that is not empty has a least one.
LEMMA LeastElement ==
    ASSUME NEW S \in SUBSET Nat, S # {}
    PROVE  \E n \in S : \A m \in S : n <= m
<1> DEFINE R == OpToRel(<, Nat)
<1>1. \A m, n \in Nat : ~(<<m, n>> \in R) => n <= m
  BY DEF OpToRel
<1>2. IsWellFoundedOn(R, Nat)
  BY NatLessThanWellFounded
<1> HIDE DEF R
<1>3. \E n \in S : \A m \in S : ~(<<m, n>> \in R)
  BY <1>2, WFMin
<1>4. \A n \in S : n \in Nat
  OBVIOUS
<1> QED
  BY <1>1, <1>3, <1>4, Zenon

\* v[i] is the number that the first i digits stand for.
WorthTo(digits, v, n) ==
    v[0] = 0 /\ \A i \in 1 .. n : v[i] = 10 * v[i - 1] + digits[i]

\* There is such a function, for every sequence of digits.
LEMMA WorthExists ==
    ASSUME NEW d \in Seq(0 .. 9)
    PROVE  \E v \in [0 .. Len(d) -> Nat] : WorthTo(d, v, Len(d))
<1> DEFINE P(n) == \E v \in [0 .. n -> Nat] : WorthTo(d, v, n)
           T == {n \in 0 .. Len(d) : ~P(n)}
<1>1. T = {}
  <2>1. SUFFICES ASSUME T # {} PROVE FALSE
    OBVIOUS
  <2>2. T \in SUBSET Nat
    OBVIOUS
  <2>3. PICK n \in T : \A m \in T : n <= m
    BY <2>1, <2>2, LeastElement
  <2>4. n # 0
    <3>1. P(0)
      <4> DEFINE v == [i \in 0 .. 0 |-> 0]
      <4>1. v \in [0 .. 0 -> Nat] /\ v[0] = 0 /\ 1 .. 0 = {}
        OBVIOUS
      <4> HIDE DEF v
      <4> QED
        BY <4>1 DEF WorthTo
    <3> QED
      BY <3>1
  <2>5. n \in 1 .. Len(d) /\ n - 1 \in 0 .. Len(d) /\ ~(n <= n - 1)
    BY <2>4
  <2>6. P(n - 1)
    BY <2>3, <2>5
  <2>7. PICK v \in [0 .. n - 1 -> Nat] : WorthTo(d, v, n - 1)
    BY <2>6
  <2> DEFINE e == 10 * v[n - 1] + d[n]
             u == [i \in 0 .. n |-> IF i = n THEN e ELSE v[i]]
  <2>8. v[n - 1] \in Nat /\ d[n] \in 0 .. 9
    BY <2>5, <2>7
  <2>9. e \in Nat
    <3>1. \A x \in Nat, y \in 0 .. 9 : 10 * x + y \in Nat
      OBVIOUS
    <3> QED
      BY <2>8, <3>1, Zenon
  <2>10. u \in [0 .. n -> Nat]
    <3> HIDE DEF e
    <3>1. ASSUME NEW i \in 0 .. n, i # n PROVE v[i] \in Nat
      <4>1. i \in 0 .. n - 1
        BY <2>5, <3>1
      <4> QED
        BY <2>7, <4>1
    <3> QED
      BY <2>9, <3>1
  <2>11. u[0] = 0
    BY <2>5, <2>7 DEF WorthTo
  <2>12. ASSUME NEW i \in 1 .. n PROVE u[i] = 10 * u[i - 1] + d[i]
    <3>1. u[i - 1] = v[i - 1]
      BY <2>5
    <3>2. CASE i = n
      BY <3>1, <3>2
    <3>3. CASE i # n
      <4>1. i \in 1 .. n - 1
        BY <2>5, <3>3
      <4>2. v[i] = 10 * v[i - 1] + d[i]
        BY <2>7, <4>1 DEF WorthTo
      <4>3. u[i] = v[i]
        BY <3>3
      <4> QED
        BY <3>1, <4>2, <4>3
    <3> QED
      BY <3>2, <3>3
  <2> HIDE DEF u
  <2>13. P(n)
    BY <2>10, <2>11, <2>12 DEF WorthTo
  <2> QED
    BY <2>13
<1>2. P(Len(d))
  <2>1. Len(d) \in 0 .. Len(d)
    OBVIOUS
  <2> HIDE DEF P
  <2> QED
    BY <1>1, <2>1
<1> QED
  BY <1>2

\* There is one only, as far as n.
LEMMA WorthUnique ==
    ASSUME NEW d, NEW u, NEW v, NEW n \in Nat, WorthTo(d, u, n), WorthTo(d, v, n)
    PROVE  u[n] = v[n]
<1> DEFINE T == {i \in 0 .. n : u[i] # v[i]}
<1>1. SUFFICES ASSUME T # {} PROVE FALSE
  OBVIOUS
<1>2. T \in SUBSET Nat
  OBVIOUS
<1>3. PICK i \in T : \A j \in T : i <= j
  BY <1>1, <1>2, LeastElement
<1>4. i \in 0 .. n /\ u[i] # v[i] /\ i # 0
  BY DEF WorthTo
<1>5. i \in 1 .. n /\ i - 1 \in 0 .. n /\ ~(i <= i - 1)
  BY <1>4
<1>6. u[i - 1] = v[i - 1]
  BY <1>3, <1>5
<1>7. u[i] = 10 * u[i - 1] + d[i] /\ v[i] = 10 * v[i - 1] + d[i]
  BY <1>5 DEF WorthTo
<1> QED
  BY <1>4, <1>6, <1>7, Zenon

\* Value is what WorthTo says, for whichever function.
LEMMA ValueIs ==
    ASSUME NEW d \in Seq(0 .. 9)
    PROVE  /\ Value(d) \in Nat
           /\ \A v : WorthTo(d, v, Len(d)) => Value(d) = v[Len(d)]
<1> DEFINE R(v) == v = [i \in 0 .. Len(d) |-> IF i = 0 THEN 0 ELSE 10 * v[i - 1] + d[i]]
           h == CHOOSE v : R(v)
<1>1. PICK u \in [0 .. Len(d) -> Nat] : WorthTo(d, u, Len(d))
  BY WorthExists
<1>2. R(u)
  <2>1. \A i \in 0 .. Len(d) : u[i] = IF i = 0 THEN 0 ELSE 10 * u[i - 1] + d[i]
    BY <1>1 DEF WorthTo
  <2>2. u = [i \in 0 .. Len(d) |-> u[i]]
    BY <1>1
  <2> QED
    BY <2>1, <2>2
<1>3. R(h)
  BY <1>2
<1>4. Value(d) = h[Len(d)]
  BY Zenon DEF Value
<1> HIDE DEF h
<1>5. WorthTo(d, h, Len(d))
  <2>1. h[0] = 0
    BY <1>3
  <2>2. \A i \in 1 .. Len(d) : h[i] = 10 * h[i - 1] + d[i]
    BY <1>3
  <2> QED
    BY <2>1, <2>2 DEF WorthTo
<1>6. Len(d) \in Nat
  OBVIOUS
<1> HIDE DEF R
<1>7. \A v : WorthTo(d, v, Len(d)) => Value(d) = v[Len(d)]
  BY <1>4, <1>5, <1>6, WorthUnique
<1>8. u[Len(d)] \in Nat
  BY <1>1, <1>6
<1> QED
  BY <1>1, <1>7, <1>8

\* The elements of two sequences one behind the other.
LEMMA Joined ==
    ASSUME NEW S, NEW p \in Seq(S), NEW q \in Seq(S)
    PROVE  /\ p \o q \in Seq(S) /\ Len(p \o q) = Len(p) + Len(q)
           /\ \A i \in 1 .. Len(p) : (p \o q)[i] = p[i]
OBVIOUS

\* The same, of the second sequence.
LEMMA JoinedTail ==
    ASSUME NEW S, NEW p \in Seq(S), NEW q \in Seq(S), NEW n \in Nat, Len(q) = n
    PROVE  \A i \in 1 .. n : (p \o q)[Len(p) + i] = q[i]
<1>1. \A i \in 1 .. Len(q) : (p \o q)[Len(p) + i] = q[i]
  OBVIOUS
<1> QED
  BY <1>1, Zenon

\* The elements of a sequence over a set are in the set.
LEMMA ElementOf ==
    ASSUME NEW S, NEW s \in Seq(S)
    PROVE  \A i \in 1 .. Len(s) : s[i] \in S
OBVIOUS

\* Four digits more.
LEMMA ValueOfFour ==
    ASSUME NEW p \in Seq(0 .. 9), NEW q \in Seq(0 .. 9), Len(q) = 4
    PROVE  /\ p \o q \in Seq(0 .. 9) /\ Len(p \o q) = Len(p) + 4
           /\ Value(p \o q) = 10000 * Value(p) + (1000 * q[1] + 100 * q[2] + 10 * q[3] + q[4])
<1> DEFINE s == p \o q
           m == Len(p)
<1>1. /\ s \in Seq(0 .. 9) /\ Len(s) = m + 4 /\ m \in Nat
      /\ \A i \in 1 .. m : s[i] = p[i]
      /\ s[m + 1] = q[1] /\ s[m + 2] = q[2] /\ s[m + 3] = q[3] /\ s[m + 4] = q[4]
  <2>1. m \in Nat /\ s \in Seq(0 .. 9) /\ Len(s) = m + 4
    <3>1. s \in Seq(0 .. 9) /\ Len(s) = Len(p) + Len(q)
      BY Joined, Zenon
    <3>2. m \in Nat
      OBVIOUS
    <3> HIDE DEF s
    <3> QED
      BY <3>1, <3>2
  <2>2. \A i \in 1 .. m : s[i] = p[i]
    BY Joined
  <2>3. \A i \in 1 .. 4 : s[m + i] = q[i]
    <3>1. 4 \in Nat
      OBVIOUS
    <3> QED
      BY <3>1, JoinedTail, Zenon
  <2> HIDE DEF s, m
  <2> QED
    BY <2>1, <2>2, <2>3
<1>2. q[1] \in 0 .. 9 /\ q[2] \in 0 .. 9 /\ q[3] \in 0 .. 9 /\ q[4] \in 0 .. 9
  <2>1. \A i \in 1 .. 4 : q[i] \in 0 .. 9
    BY ElementOf
  <2> QED
    BY <2>1
<1> HIDE DEF s, m
<1>3. PICK v \in [0 .. m + 4 -> Nat] : WorthTo(s, v, m + 4)
  BY <1>1, WorthExists
<1>4. WorthTo(p, v, m)
  <2>1. \A i \in 1 .. m : i \in 1 .. m + 4
    BY <1>1
  <2> QED
    BY <1>1, <1>3, <2>1 DEF WorthTo
<1>5. Value(p) = v[m] /\ Value(p) \in Nat
  BY <1>4, ValueIs DEF m
<1>6. Value(s) = v[m + 4]
  <2>1. s \in Seq(0 .. 9) /\ Len(s) = m + 4
    BY <1>1, Zenon
  <2>2. WorthTo(s, v, Len(s))
    BY <1>3, <2>1, Zenon
  <2>3. Value(s) = v[Len(s)]
    BY <2>1, <2>2, ValueIs, Zenon
  <2> QED
    BY <2>1, <2>3, Zenon
<1>7. \A i \in 1 .. m + 4 : v[i] = 10 * v[i - 1] + s[i]
  BY <1>3 DEF WorthTo
<1>8. /\ v[m + 1] = 10 * v[m] + q[1] /\ v[m + 2] = 10 * v[m + 1] + q[2]
      /\ v[m + 3] = 10 * v[m + 2] + q[3] /\ v[m + 4] = 10 * v[m + 3] + q[4]
  <2>1. /\ m + 1 \in 1 .. m + 4 /\ m + 2 \in 1 .. m + 4
        /\ m + 3 \in 1 .. m + 4 /\ m + 4 \in 1 .. m + 4
        /\ (m + 1) - 1 = m /\ (m + 2) - 1 = m + 1 /\ (m + 3) - 1 = m + 2 /\ (m + 4) - 1 = m + 3
    BY <1>1
  <2> QED
    BY <1>1, <1>7, <2>1
<1>9. /\ v[m] \in Nat /\ v[m + 1] \in Nat /\ v[m + 2] \in Nat
      /\ v[m + 3] \in Nat /\ v[m + 4] \in Nat
  <2>1. \A i \in 0 .. m + 4 : v[i] \in Nat
    BY <1>3
  <2>2. /\ m \in 0 .. m + 4 /\ m + 1 \in 0 .. m + 4 /\ m + 2 \in 0 .. m + 4
        /\ m + 3 \in 0 .. m + 4 /\ m + 4 \in 0 .. m + 4
    BY <1>1
  <2> QED
    BY <2>1, <2>2, Zenon
<1>10. v[m + 4] = 10000 * v[m] + (1000 * q[1] + 100 * q[2] + 10 * q[3] + q[4])
  <2> DEFINE n0 == v[m]    n1 == v[m + 1]    n2 == v[m + 2]    n3 == v[m + 3]    n4 == v[m + 4]
             x1 == q[1]    x2 == q[2]    x3 == q[3]    x4 == q[4]
  <2>1. n0 \in Nat /\ n1 \in Nat /\ n2 \in Nat /\ n3 \in Nat /\ n4 \in Nat
    BY <1>9, Zenon
  <2>2. x1 \in 0 .. 9 /\ x2 \in 0 .. 9 /\ x3 \in 0 .. 9 /\ x4 \in 0 .. 9
    BY <1>2, Zenon
  <2>3. n1 = 10 * n0 + x1 /\ n2 = 10 * n1 + x2 /\ n3 = 10 * n2 + x3 /\ n4 = 10 * n3 + x4
    BY <1>8, Zenon
  <2> HIDE DEF n0, n1, n2, n3, n4, x1, x2, x3, x4
  <2>4. n4 = 10000 * n0 + (1000 * x1 + 100 * x2 + 10 * x3 + x4)
    BY SMT, <2>1, <2>2, <2>3
  <2> QED
    BY SMT, <2>4 DEF n0, n4, x1, x2, x3, x4
<1>11. Value(s) = 10000 * Value(p) + (1000 * q[1] + 100 * q[2] + 10 * q[3] + q[4])
  BY SMT, <1>5, <1>6, <1>10
<1> QED
  BY <1>1, <1>11 DEF s, m

\* What is left of a sequence behind its first k elements.
LEMMA Behind ==
    ASSUME NEW S, NEW s \in Seq(S), NEW k \in 0 .. Len(s), NEW t, t = SubSeq(s, k + 1, Len(s))
    PROVE  t \in Seq(S) /\ Len(t) = Len(s) - k /\ \A i \in 1 .. Len(s) - k : t[i] = s[k + i]
<1>1. t \in Seq(S) /\ Len(t) = Len(s) - k
  OBVIOUS
<1>2. ASSUME NEW i \in 1 .. Len(s) - k
      PROVE  t[i] = s[k + i]
  OBVIOUS
<1> QED
  BY <1>1, <1>2

\* Zeros in front stand for nothing.
LEMMA ValueStripped ==
    ASSUME NEW d \in Seq(0 .. 9)
    PROVE  /\ Stripped(d) \in Seq(0 .. 9) /\ Len(Stripped(d)) <= Len(d)
           /\ Len(Stripped(d)) # 0 => Stripped(d)[1] # 0
           /\ Value(Stripped(d)) = Value(d)
<1> DEFINE k == LeadingZeros(d)
           t == Stripped(d)
           n == Len(d)
           Z(j) == (\A i \in 1 .. j : d[i] = 0) /\ (j < Len(d) => d[j + 1] # 0)
<1>1. n \in Nat
  OBVIOUS
<1>2. \E j \in 0 .. Len(d) : Z(j)
  <2> DEFINE T == {i \in 1 .. n : d[i] # 0}
  <2>1. CASE T = {}
    <3>1. Z(n) /\ n \in 0 .. Len(d)
      BY <1>1, <2>1
    <3> QED
      BY <3>1
  <2>2. CASE T # {}
    <3>1. T \in SUBSET Nat
      OBVIOUS
    <3>2. PICK i \in T : \A j \in T : i <= j
      BY <2>2, <3>1, LeastElement
    <3>3. i - 1 \in 0 .. Len(d) /\ (i - 1) + 1 = i
      OBVIOUS
    <3>4. \A j \in 1 .. i - 1 : j \notin T /\ j \in 1 .. n
      BY <3>2
    <3>5. Z(i - 1)
      BY <3>3, <3>4
    <3> QED
      BY <3>3, <3>5
  <2> QED
    BY <2>1, <2>2
<1>3. k \in 0 .. Len(d) /\ Z(k)
  <2>1. k = CHOOSE j \in 0 .. Len(d) : Z(j)
    BY DEF LeadingZeros
  <2> HIDE DEF Z, k
  <2> QED
    BY <1>2, <2>1
<1> HIDE DEF k
<1>4. /\ t \in Seq(0 .. 9) /\ Len(t) = n - k
      /\ \A i \in 1 .. n - k : t[i] = d[k + i]
  <2>1. t = SubSeq(d, k + 1, Len(d))
    BY DEF Stripped, k
  <2>2. k \in 0 .. Len(d)
    BY <1>3, Zenon
  <2> DEFINE S == 0 .. 9
  <2>3. d \in Seq(S)
    OBVIOUS
  <2> HIDE DEF t, S
  <2>4. t \in Seq(S) /\ Len(t) = Len(d) - k /\ \A i \in 1 .. Len(d) - k : t[i] = d[k + i]
    BY <2>1, <2>2, <2>3, Behind
  <2> QED
    BY <2>4 DEF S
<1> HIDE DEF t
<1>5. Len(t) # 0 => t[1] # 0
  BY <1>1, <1>3, <1>4
<1>6. PICK v \in [0 .. n -> Nat] : WorthTo(d, v, n)
  BY WorthExists
<1>7. v[k] = 0
  <2> DEFINE T == {i \in 0 .. k : v[i] # 0}
  <2>1. SUFFICES ASSUME T # {} PROVE FALSE
    BY <1>3
  <2>2. T \in SUBSET Nat
    OBVIOUS
  <2>3. PICK i \in T : \A j \in T : i <= j
    BY <2>1, <2>2, LeastElement
  <2>4. i \in 1 .. k /\ i \in 1 .. n
    BY <1>1, <1>3, <1>6 DEF WorthTo
  <2>5. i - 1 \in 0 .. k /\ ~(i <= i - 1)
    BY <1>3, <2>4
  <2>6. v[i - 1] = 0
    BY <2>3, <2>5
  <2>7. d[i] = 0
    BY <1>3, <2>4
  <2>8. v[i] = 10 * v[i - 1] + d[i]
    BY <1>6, <2>4 DEF WorthTo
  <2>9. v[i] = 0
    BY <2>6, <2>7, <2>8
  <2> QED
    BY <2>9
<1> DEFINE u == [i \in 0 .. n - k |-> v[k + i]]
<1>8. WorthTo(t, u, n - k)
  <2>1. u[0] = 0
    BY <1>1, <1>3, <1>7
  <2>2. ASSUME NEW i \in 1 .. n - k PROVE u[i] = 10 * u[i - 1] + t[i]
    <3>1. k + i \in 1 .. n /\ (k + i) - 1 = k + (i - 1) /\ i - 1 \in 0 .. n - k /\ i \in 0 .. n - k
      BY <1>1, <1>3
    <3>2. v[k + i] = 10 * v[(k + i) - 1] + d[k + i]
      BY <1>6, <3>1 DEF WorthTo
    <3>3. u[i] = v[k + i] /\ u[i - 1] = v[k + (i - 1)]
      BY <3>1
    <3>4. t[i] = d[k + i]
      BY <1>4
    <3> HIDE DEF u
    <3> QED
      BY <3>1, <3>2, <3>3, <3>4, Zenon
  <2> HIDE DEF u
  <2> QED
    BY <2>1, <2>2 DEF WorthTo
<1>9. u[n - k] = v[n]
  <2>1. n - k \in 0 .. n - k /\ k + (n - k) = n
    BY <1>1, <1>3
  <2> QED
    BY <2>1
<1> HIDE DEF u
<1>10. Value(t) = u[n - k]
  BY <1>4, <1>8, ValueIs
<1>11. Value(d) = v[n]
  BY <1>6, ValueIs
<1>12. Len(t) <= n
  BY <1>1, <1>3, <1>4
<1> QED
  BY <1>4, <1>5, <1>9, <1>10, <1>11, <1>12 DEF t, n

\* put_dec_full4 behind what is there.
LEMMA FourMore ==
    ASSUME NEW p \in Seq(0 .. 9), NEW r \in Nat, r < 10000
    PROVE  /\ p \o Full4(r) \in Seq(0 .. 9) /\ Len(p \o Full4(r)) = Len(p) + 4
           /\ Value(p \o Full4(r)) = 10000 * Value(p) + r
<1> DEFINE four == Full4(r)
<1>1. /\ four \in Seq(0 .. 9) /\ Len(four) = 4
      /\ r = 1000 * four[1] + 100 * four[2] + 10 * four[3] + four[4]
  BY Full4Digits, SMT
<1> HIDE DEF four
<1>2. /\ p \o four \in Seq(0 .. 9) /\ Len(p \o four) = Len(p) + 4
      /\ Value(p \o four)
           = 10000 * Value(p) + (1000 * four[1] + 100 * four[2] + 10 * four[3] + four[4])
  BY <1>1, ValueOfFour
<1>3. Value(p \o four) = 10000 * Value(p) + r
  BY SMT, <1>1, <1>2
<1> QED
  BY <1>2, <1>3 DEF four

\* The digits p are k digits, of the number x.
Writes(p, k, x) == p \in Seq(0 .. 9) /\ Len(p) = k /\ Value(p) = x

\* Four digits more, those of r, make m of the k digits and y of the x.
FourTo(k, m, x, y, r) ==
    /\ k \in Nat /\ m = k + 4
    /\ x \in Nat /\ y = 10000 * x + r
    /\ r \in Nat /\ r < 10000

\* A group of put_dec, in terms of what has been written so far.
LEMMA WritesMore ==
    ASSUME NEW p, NEW k, NEW m, NEW x, NEW y, NEW r, Writes(p, k, x), FourTo(k, m, x, y, r)
    PROVE  Writes(p \o Full4(r), m, y)
<1> DEFINE s == p \o Full4(r)
<1>1. p \in Seq(0 .. 9) /\ Len(p) = k /\ Value(p) = x
  BY DEF Writes
<1>2. r \in Nat /\ r < 10000
  BY DEF FourTo
<1>3. s \in Seq(0 .. 9) /\ Len(s) = Len(p) + 4 /\ Value(s) = 10000 * Value(p) + r
  <2>1. ASSUME NEW d \in Seq(0 .. 9)
        PROVE  /\ d \o Full4(r) \in Seq(0 .. 9) /\ Len(d \o Full4(r)) = Len(d) + 4
               /\ Value(d \o Full4(r)) = 10000 * Value(d) + r
    BY <1>2, FourMore
  <2> QED
    BY <1>1, <2>1
<1> HIDE DEF s
<1>4. Len(s) = m /\ Value(s) = y
  BY SMT, <1>1, <1>3 DEF FourTo
<1>5. Writes(s, m, y)
  BY <1>3, <1>4 DEF Writes
<1> QED
  BY <1>5, Zenon DEF s

\* For every unsigned long long, put_dec writes at most twenty decimal digits, the first not
\* zero, and they stand for the number: no product, sum or rounding loses anything.  Zero
\* has no digits, as with the other bases of number.
THEOREM DecimalDigits ==
    ASSUME NEW n \in Nat, n < LongLongRange
    PROVE  /\ put_dec(n) \in Seq(0 .. 9) /\ Len(put_dec(n)) <= 20
           /\ Len(put_dec(n)) # 0 => put_dec(n)[1] # 0
           /\ Value(put_dec(n)) = n
<1> DEFINE h == Helper4(Sum3(n))
           l3 == Last4(Sum3(n))
           l2 == Last4(Sum2(n))
           l1 == Last4(Sum1(n))
           l0 == Last4(Sum0(n))
<1>1. /\ Sum0(n) \in Nat /\ Sum1(n) \in Nat /\ Sum2(n) \in Nat /\ Sum3(n) \in Nat
      /\ Sum0(n) < 1128869999 /\ Sum1(n) < 1128869999
      /\ Sum2(n) < 1128869999 /\ Sum3(n) < 100000000
      /\ n = Sum0(n) + 10000 * (Sum1(n) - (Sum0(n) \div 10000))
               + 100000000 * (Sum2(n) - (Sum1(n) \div 10000))
               + 1000000000000 * (Sum3(n) - (Sum2(n) \div 10000))
  BY SMT, SumsExact
<1>2. /\ h = Sum3(n) \div 10000 /\ l3 = Sum3(n) % 10000 /\ l2 = Sum2(n) % 10000
      /\ l1 = Sum1(n) % 10000 /\ l0 = Sum0(n) % 10000
  BY SMT, <1>1, Helper4Exact
<1> HIDE DEF h, l3, l2, l1, l0
<1>3. /\ h \in Nat /\ l3 \in Nat /\ l2 \in Nat /\ l1 \in Nat /\ l0 \in Nat
      /\ h < 10000 /\ l3 < 10000 /\ l2 < 10000 /\ l1 < 10000 /\ l0 < 10000
  BY SMT, <1>1, <1>2
<1>4. n = 10000 * (10000 * (10000 * (10000 * h + l3) + l2) + l1) + l0
  BY SMT, <1>1, <1>2
<1> DEFINE p4 == << >> \o Full4(h)
           p3 == p4 \o Full4(l3)
           p2 == p3 \o Full4(l2)
           p1 == p2 \o Full4(l1)
           p0 == p1 \o Full4(l0)
           x3 == 10000 * h + l3
           x2 == 10000 * x3 + l2
           x1 == 10000 * x2 + l1
<1>5. Writes(<< >>, 0, 0)
  <2> DEFINE v == [i \in {0} |-> 0]
  <2>1. << >> \in Seq(0 .. 9) /\ Len(<< >>) = 0
    OBVIOUS
  <2>2. WorthTo(<< >>, v, 0) /\ v[0] = 0
    BY DEF WorthTo
  <2> HIDE DEF v
  <2>3. WorthTo(<< >>, v, Len(<< >>)) /\ v[Len(<< >>)] = 0
    BY <2>1, <2>2, Zenon
  <2>4. Value(<< >>) = v[Len(<< >>)]
    BY <2>1, <2>3, ValueIs, Zenon
  <2> QED
    BY <2>1, <2>3, <2>4, Zenon DEF Writes
<1>6. AllDigits(n) = p0
  <2>1. p4 = Full4(h)
    <3>1. Full4(h) \in Seq(0 .. 9)
      BY <1>3, Full4Digits
    <3>2. \A S, s : s \in Seq(S) => << >> \o s = s
      OBVIOUS
    <3> QED
      BY <3>1, <3>2, Zenon DEF p4
  <2>2. p0 = Full4(h) \o Full4(l3) \o Full4(l2) \o Full4(l1) \o Full4(l0)
    BY <2>1, Zenon DEF p1, p2, p3
  <2> QED
    BY <2>2, Zenon DEF AllDigits, h, l3, l2, l1, l0
<1> HIDE DEF p0, p1, p2, p3, p4, x3, x2, x1
<1>7. x3 \in Nat /\ x2 \in Nat /\ x1 \in Nat
  BY SMT, <1>3 DEF x3, x2, x1
<1>8. Writes(p4, 4, h)
  <2>1. FourTo(0, 4, 0, h, h)
    BY SMT, <1>3, <1>4, <1>7 DEF FourTo, x3, x2, x1
  <2> QED
    BY <1>5, <2>1, WritesMore, Zenon DEF p4
<1>9. Writes(p3, 8, x3)
  <2>1. FourTo(4, 8, h, x3, l3)
    BY SMT, <1>3, <1>4, <1>7 DEF FourTo, x3, x2, x1
  <2> QED
    BY <1>8, <2>1, WritesMore, Zenon DEF p3
<1>10. Writes(p2, 12, x2)
  <2>1. FourTo(8, 12, x3, x2, l2)
    BY SMT, <1>3, <1>4, <1>7 DEF FourTo, x3, x2, x1
  <2> QED
    BY <1>9, <2>1, WritesMore, Zenon DEF p2
<1>11. Writes(p1, 16, x1)
  <2>1. FourTo(12, 16, x2, x1, l1)
    BY SMT, <1>3, <1>4, <1>7 DEF FourTo, x3, x2, x1
  <2> QED
    BY <1>10, <2>1, WritesMore, Zenon DEF p1
<1>12. Writes(p0, 20, n)
  <2>1. FourTo(16, 20, x1, n, l0)
    BY SMT, <1>3, <1>4, <1>7 DEF FourTo, x3, x2, x1
  <2> QED
    BY <1>11, <2>1, WritesMore, Zenon DEF p0
<1>13. p0 \in Seq(0 .. 9) /\ Len(p0) = 20 /\ Value(p0) = n
  BY <1>12, Zenon DEF Writes
<1>14. put_dec(n) = Stripped(p0)
  BY <1>6, Zenon DEF put_dec
<1>15. /\ Stripped(p0) \in Seq(0 .. 9) /\ Len(Stripped(p0)) <= 20
       /\ Len(Stripped(p0)) # 0 => Stripped(p0)[1] # 0
       /\ Value(Stripped(p0)) = n
  <2>1. /\ Stripped(p0) \in Seq(0 .. 9) /\ Len(Stripped(p0)) <= Len(p0)
        /\ Len(Stripped(p0)) # 0 => Stripped(p0)[1] # 0
        /\ Value(Stripped(p0)) = Value(p0)
    BY <1>13, ValueStripped
  <2> QED
    BY <1>13, <2>1, Zenon
<1> QED
  BY <1>14, <1>15, Zenon
=============================================================================
