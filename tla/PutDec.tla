------------------------------- MODULE PutDec -------------------------------
(***************************************************************************)
(* put_dec of drivers/firmware/efi/libstub/vsprintf.c: the decimal digits  *)
(* of an unsigned long long, from multiplications of 32 and 64 bits and    *)
(* shifts.  The numbers are too large for TLC: what is said about them is  *)
(* proved, in VsnprintfProofs.                                             *)
(***************************************************************************)
EXTENDS Integers, Sequences

\* What an unsigned int and an unsigned long long keep of a number.
IntRange == 4294967296
LongLongRange == 18446744073709551616
UInt(x) == x % IntRange
ULongLong(x) == x % LongLongRange

-----------------------------------------------------------------------------
\* put_dec_full4: the digits of a number below 10000, from the last to the first.
Tenth(r) == UInt(r * 3277) \div 32768
Full4(r) ==
    LET q1 == Tenth(r)
        q2 == Tenth(q1)
        q3 == Tenth(q2)
    IN  <<q3, UInt(q2 - q3 * 10), UInt(q1 - q2 * 10), UInt(r - q1 * 10)>>

\* put_dec_helper4: the last four digits of x, and what they leave of it.
Helper4(x) == UInt(ULongLong(x * 879609303) \div 8796093022208)
Last4(x) == UInt(x - Helper4(x) * 10000)

\* put_dec: a number is cut into four of 16 bits, and what each is worth goes to the groups
\* of four digits.  The sums are unsigned ints, with what the group before left.
Part(n, k) ==
    IF k = 0 THEN n % 65536
    ELSE IF k = 1 THEN UInt(n) \div 65536
    ELSE IF k = 2 THEN (n \div IntRange) % 65536
    ELSE (n \div IntRange) \div 65536

Sum0(n) == UInt(656 * Part(n, 3) + 7296 * Part(n, 2) + 5536 * Part(n, 1) + Part(n, 0))
Sum1(n) == UInt(Helper4(Sum0(n)) + 7671 * Part(n, 3) + 9496 * Part(n, 2) + 6 * Part(n, 1))
Sum2(n) == UInt(Helper4(Sum1(n)) + 4749 * Part(n, 3) + 42 * Part(n, 2))
Sum3(n) == UInt(Helper4(Sum2(n)) + 281 * Part(n, 3))

AllDigits(n) ==
    Full4(Helper4(Sum3(n))) \o Full4(Last4(Sum3(n))) \o Full4(Last4(Sum2(n)))
        \o Full4(Last4(Sum1(n))) \o Full4(Last4(Sum0(n)))

\* Zeros in front are stripped off, all of them.
LeadingZeros(digits) ==
    CHOOSE k \in 0 .. Len(digits) :
        (\A i \in 1 .. k : digits[i] = 0) /\ (k < Len(digits) => digits[k + 1] # 0)

Stripped(digits) == SubSeq(digits, LeadingZeros(digits) + 1, Len(digits))

put_dec(n) == Stripped(AllDigits(n))

-----------------------------------------------------------------------------
\* The number that digits stand for, the first of them for the most.
Value(digits) ==
    LET value[i \in 0 .. Len(digits)] == IF i = 0 THEN 0 ELSE 10 * value[i - 1] + digits[i]
    IN  value[Len(digits)]
=============================================================================
