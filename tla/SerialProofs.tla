---------------------------- MODULE SerialProofs ----------------------------
(***************************************************************************)
(* At every baud rate, whatever the firmware left in the port and however  *)
(* fast the line is, the port sends what the driver is given.              *)
(***************************************************************************)
EXTENDS Serial, SequenceTheorems, TLAPS

\* What the variable `char' may be: a character, or no call yet.
Chars == STRING \cup {"none"}

Running == {"idle", "wait", "send"}
Draining == {"drain", "discard"}
WithHigh == {"close latch", "format"} \cup Draining \cup Running
WithLow == {"high"} \cup WithHigh
Steps == {"disable", "read lcr", "open latch", "low"} \cup WithLow

Registers == [latch : {0, 1}, low : Nat, high : Nat, ier : Nat, thr : Seq(Chars)]

Typed ==
    /\ uart \in Registers
    /\ tsr \in Seq(Chars) /\ line \in Seq(Chars) /\ given \in Seq(Chars)
    /\ char \in Chars /\ lcr_value \in {0, 1} /\ io \in Steps

\* The latch is open while the divisor is stored and closed before a character may be.
LatchRight ==
    /\ io \in {"low", "high", "close latch"} => uart.latch = 1
    /\ io \in Draining \cup Running => uart.latch = 0

\* Nothing is sent before the port is set up, and the holder is empty when it is filled.
HolderRight ==
    /\ io \notin Running => given = <<>> /\ line = <<>> /\ tsr = <<>> /\ uart.thr = <<>>
    /\ io = "send" => uart.thr = <<>>

DivisorRight ==
    /\ io \in WithLow => uart.low = divisor % 256
    /\ io \in WithHigh => uart.high = divisor \div 256

MaskRight ==
    /\ io = "read lcr" => uart.ier = 0 \/ uart.latch = 1
    /\ io \in {"open latch", "low"} \cup WithLow => uart.ier = 0 \/ lcr_value = 1

Right == Typed /\ LatchRight /\ HolderRight /\ DivisorRight /\ MaskRight

Inv == Right /\ NothingLost

-----------------------------------------------------------------------------
\* The two halves of the divisor.
LEMMA DivMod ==
    ASSUME NEW x \in Nat, NEW d \in Nat \ {0}
    PROVE  x \div d \in Nat /\ x % d \in Nat /\ x % d = x - (x \div d) * d
BY SMT

LEMMA Halves ==
    /\ divisor \in Nat /\ divisor % 256 \in Nat /\ divisor \div 256 \in Nat
    /\ (divisor % 256) + 256 * (divisor \div 256) = divisor
<1>1. Baud \in Nat \ {0}
  BY SerialAssumption
<1>2. 115200 \div Baud \in Nat
  BY <1>1, DivMod
<1>3. divisor \in Nat
  BY <1>2, DivMod DEF divisor
<1> HIDE DEF divisor
<1> QED
  BY <1>3, DivMod

\* A store changes one register; with the latch open it does not reach the holder.
LEMMA Store ==
    ASSUME uart \in Registers
    PROVE  /\ \A v \in {0, 1} : Stored(LCR, v) = [uart EXCEPT !.latch = v]
           /\ \A v \in Nat : uart.latch = 1 => Stored(TX, v) = [uart EXCEPT !.low = v]
           /\ \A v \in Nat : uart.latch = 1 => Stored(IER, v) = [uart EXCEPT !.high = v]
           /\ \A v \in Nat : uart.latch = 0 => Stored(IER, v) = [uart EXCEPT !.ier = v]
           /\ \A v \in Chars : uart.latch = 0 => Stored(TX, v) = [uart EXCEPT !.thr = <<v>>]
BY DEF Stored, LCR, TX, IER

\* A step of the set-up moves nothing: it is right once its register and its latch are.
LEMMA Silent ==
    ASSUME Right, io \notin Running, io' \in Steps,
           uart' \in Registers, uart'.thr = uart.thr, lcr_value' \in {0, 1},
           UNCHANGED <<tsr, line, char, given>>,
           LatchRight', DivisorRight', MaskRight', io' # "send"
    PROVE  Right'
<1>1. tsr = <<>> /\ line = <<>> /\ given = <<>> /\ uart.thr = <<>>
  BY DEF Right, HolderRight
<1>2. Typed'
  BY DEF Right, Typed
<1>3. HolderRight'
  BY <1>1 DEF HolderRight
<1> QED
  BY <1>2, <1>3 DEF Right

LEMMA Frame ==
    ASSUME Right, UNCHANGED <<uart, tsr, line, io, lcr_value, char, given>>
    PROVE  Right'
<1>1. Typed'
  BY DEF Right, Typed
<1>2. LatchRight' /\ HolderRight' /\ MaskRight'
  BY DEF Right, LatchRight, HolderRight, MaskRight
<1>3. DivisorRight'
  BY DEF Right, DivisorRight, divisor
<1> QED
  BY <1>1, <1>2, <1>3 DEF Right

\* The steps of the set-up.
LEMMA SetUpRight ==
    ASSUME Right, SetUp
    PROVE  Right'
<1> USE DEF LatchRight, DivisorRight, MaskRight, Steps, WithLow, WithHigh, Draining, Running
<1>0. uart \in Registers /\ lcr_value \in {0, 1} /\ LatchRight /\ DivisorRight /\ MaskRight
  BY DEF Right, Typed
<1>1. CASE DisableInterrupts
  <2>1. /\ io = "disable" /\ io' = "read lcr"
        /\ uart' = Stored(IER, 0)
        /\ UNCHANGED <<tsr, line, lcr_value, char, given>>
    BY <1>1 DEF DisableInterrupts, Access, outb
  <2>2. \/ uart.latch = 1 /\ uart' = [uart EXCEPT !.high = 0]
        \/ uart.latch = 0 /\ uart' = [uart EXCEPT !.ier = 0]
    <3>1. uart.latch \in {0, 1}
      BY <1>0 DEF Registers
    <3> QED
      BY <1>0, <2>1, <3>1, Store
  <2>3. CASE uart.latch = 1 /\ uart' = [uart EXCEPT !.high = 0]
    <3>1. /\ uart' \in Registers /\ uart'.thr = uart.thr /\ uart'.latch = uart.latch
          /\ uart'.ier = 0 \/ uart'.latch = 1
      BY <1>0, <2>3 DEF Registers
    <3> QED
      BY <1>0, <2>1, <3>1, Silent
  <2>4. CASE uart.latch = 0 /\ uart' = [uart EXCEPT !.ier = 0]
    <3>1. /\ uart' \in Registers /\ uart'.thr = uart.thr /\ uart'.latch = uart.latch
          /\ uart'.ier = 0 \/ uart'.latch = 1
      BY <1>0, <2>4 DEF Registers
    <3> QED
      BY <1>0, <2>1, <3>1, Silent
  <2> QED
    BY <2>2, <2>3, <2>4
<1>2. CASE ReadLcr
  <2>1. /\ io = "read lcr" /\ io' = "open latch" /\ lcr_value' = uart.latch
        /\ UNCHANGED <<uart, tsr, line, char, given>>
    BY <1>2 DEF ReadLcr, device
  <2> QED
    BY <1>0, <2>1, Silent DEF Registers
<1>3. CASE Access("open latch", 1, LCR, "low")
  <2>1. /\ io = "open latch" /\ io' = "low" /\ uart' = [uart EXCEPT !.latch = 1]
        /\ UNCHANGED <<tsr, line, lcr_value, char, given>>
    BY <1>0, <1>3, Store DEF Access, outb
  <2> QED
    BY <1>0, <2>1, Silent DEF Registers
<1>4. CASE Access("low", divisor % 256, TX, "high")
  <2>1. /\ io = "low" /\ io' = "high" /\ uart' = [uart EXCEPT !.low = divisor % 256]
        /\ UNCHANGED <<tsr, line, lcr_value, char, given>>
    BY <1>0, <1>4, Store, Halves DEF Access, outb
  <2> QED
    BY <1>0, <2>1, Silent, Halves DEF Registers
<1>5. CASE SetHigh
  <2>1. /\ io = "high" /\ io' = "close latch" /\ uart' = [uart EXCEPT !.high = divisor \div 256]
        /\ UNCHANGED <<tsr, line, lcr_value, char, given>>
    BY <1>0, <1>5, Store, Halves DEF SetHigh, Access, outb
  <2> QED
    BY <1>0, <2>1, Silent, Halves DEF Registers
<1>6. CASE Access("close latch", lcr_value, LCR, "format")
  <2>1. /\ io = "close latch" /\ io' = "format" /\ uart' = [uart EXCEPT !.latch = lcr_value]
        /\ UNCHANGED <<tsr, line, lcr_value, char, given>>
    BY <1>0, <1>6, Store DEF Access, outb
  <2> QED
    BY <1>0, <2>1, Silent DEF Registers
<1>7. CASE Access("format", EightBits, LCR, "drain")
  <2>1. /\ io = "format" /\ io' = "drain" /\ uart' = [uart EXCEPT !.latch = 0]
        /\ UNCHANGED <<tsr, line, lcr_value, char, given>>
    BY <1>0, <1>7, Store DEF Access, outb, EightBits
  <2> QED
    BY <1>0, <2>1, Silent DEF Registers
<1>8. CASE Drain
  <2>1. /\ io = "drain" /\ io' \in {"discard", "idle"}
        /\ UNCHANGED <<uart, tsr, line, lcr_value, char, given>>
    BY <1>8 DEF Drain, device
  <2> QED
    BY <1>0, <2>1, Silent
<1>9. CASE Discard
  <2>1. /\ io = "discard" /\ io' = "drain"
        /\ UNCHANGED <<uart, tsr, line, lcr_value, char, given>>
    BY <1>9 DEF Discard
  <2> QED
    BY <1>0, <2>1, Silent
<1> QED
  BY <1>1, <1>2, <1>3, <1>4, <1>5, <1>6, <1>7, <1>8, <1>9 DEF SetUp

LEMMA Short == ASSUME NEW S PROVE <<>> \in Seq(S) /\ \A c \in S : <<c>> \in Seq(S)
OBVIOUS

\* The steps of putc and of the device.
LEMMA RunningRight ==
    ASSUME Right, Wait \/ Send \/ (\E c \in Chars : Putc(c)) \/ Load \/ Shift \/ Receive
    PROVE  Right'
<1> USE DEF LatchRight, HolderRight, DivisorRight, MaskRight, Steps, WithLow, WithHigh,
            Draining, Running
<1>0. Typed /\ LatchRight /\ HolderRight /\ DivisorRight /\ MaskRight
  BY DEF Right
<1>1. CASE Wait
  <2>1. /\ io = "wait" /\ io' \in {"wait", "send"} /\ (io' = "send" => uart.thr = <<>>)
        /\ UNCHANGED <<uart, tsr, line, lcr_value, char, given>>
    BY <1>1 DEF Wait, Ready, HolderEmpty, device
  <2> QED
    BY <1>0, <2>1 DEF Right, Typed
<1>2. CASE Send
  <2>1. /\ io = "send" /\ io' = "idle" /\ uart' = Stored(TX, char)
        /\ UNCHANGED <<tsr, line, lcr_value, char, given>>
    BY <1>2 DEF Send, Access, outb
  <2>2. uart' = [uart EXCEPT !.thr = <<char>>]
    BY <1>0, <2>1, Store DEF Typed
  <2>3. <<char>> \in Seq(Chars)
    BY <1>0, Short DEF Typed
  <2>4. Typed'
    BY <1>0, <2>1, <2>2, <2>3 DEF Typed, Registers
  <2> QED
    BY <1>0, <2>1, <2>2, <2>4 DEF Right, Typed, Registers
<1>3. ASSUME NEW c \in Chars, Putc(c) PROVE Right'
  <2>1. /\ io = "idle" /\ io' = "wait" /\ char' = c /\ given' = Append(given, c)
        /\ UNCHANGED <<uart, tsr, line, lcr_value>>
    BY <1>3 DEF Putc, device
  <2>2. given' \in Seq(Chars)
    BY <1>0, <2>1, AppendProperties DEF Typed
  <2> QED
    BY <1>0, <2>1, <2>2 DEF Right, Typed
<1>4. CASE Load
  <2>1. /\ uart.thr # <<>> /\ tsr' = uart.thr /\ uart' = [uart EXCEPT !.thr = <<>>]
        /\ UNCHANGED <<line, io, lcr_value, char, given>>
    BY <1>4 DEF Load, driver
  <2>2. io \in Running
    BY <1>0, <2>1
  <2>3. uart.thr \in Seq(Chars) /\ uart' \in Registers
    BY <1>0, <2>1, Short DEF Typed, Registers
  <2>4. Typed'
    BY <1>0, <2>1, <2>3 DEF Typed
  <2> QED
    <3>1. /\ uart'.latch = uart.latch /\ uart'.low = uart.low /\ uart'.high = uart.high
          /\ uart'.ier = uart.ier /\ uart'.thr = <<>>
      BY <1>0, <2>1 DEF Typed, Registers
    <3>2. HolderRight'
      BY <2>1, <2>2, <3>1
    <3> QED
      BY <1>0, <2>1, <2>4, <3>1, <3>2 DEF Right
<1>5. CASE Shift
  <2>1. /\ tsr # <<>> /\ line' = line \o tsr /\ tsr' = <<>>
        /\ UNCHANGED <<uart, io, lcr_value, char, given>>
    BY <1>5 DEF Shift, driver
  <2>2. io \in Running
    BY <1>0, <2>1
  <2>3. line' \in Seq(Chars)
    BY <1>0, <2>1, ConcatProperties DEF Typed
  <2> QED
    <3>1. Typed'
      BY <1>0, <2>1, <2>3, Short DEF Typed
    <3> QED
      BY <1>0, <2>1, <2>2, <3>1 DEF Right
<1>6. CASE Receive
  <2>1. UNCHANGED <<uart, tsr, line, io, lcr_value, char, given>>
    BY <1>6 DEF Receive, driver
  <2> QED
    BY <2>1, Frame
<1> QED
  BY <1>1, <1>2, <1>3, <1>4, <1>5, <1>6

-----------------------------------------------------------------------------
\* No step loses a character.
LEMMA StepKeeps ==
    ASSUME Inv, [SerialNext]_serial
    PROVE  NothingLost'
<1>0. /\ uart \in Registers /\ uart.thr \in Seq(Chars) /\ tsr \in Seq(Chars)
      /\ line \in Seq(Chars) /\ given \in Seq(Chars) /\ char \in Chars
      /\ Taken \in Seq(Chars)
      /\ line \o tsr \in Seq(Chars) /\ line \o tsr \o uart.thr \in Seq(Chars)
  <2>1. /\ uart \in Registers /\ tsr \in Seq(Chars)
        /\ line \in Seq(Chars) /\ given \in Seq(Chars) /\ char \in Chars
    BY DEF Inv, Right, Typed
  <2>2. uart.thr \in Seq(Chars)
    BY <2>1 DEF Registers
  <2>3. Taken \in Seq(Chars)
    BY <2>1, Short DEF Taken
  <2> QED
    BY <2>1, <2>2, <2>3, ConcatProperties
<1>1. given = line \o tsr \o uart.thr \o Taken
  BY DEF Inv, NothingLost
<1>2. ASSUME given' = given, line' = line, tsr' = tsr, uart'.thr = uart.thr, Taken' = Taken
      PROVE  NothingLost'
  BY <1>1, <1>2 DEF NothingLost
<1>3. CASE SetUp
  <2>1. UNCHANGED <<tsr, line, given, char>> /\ io \notin Running
    BY <1>3 DEF SetUp, DisableInterrupts, ReadLcr, SetHigh, Drain, Discard, Access, outb, device,
                   Running
  <2>2. tsr = <<>> /\ line = <<>> /\ given = <<>> /\ uart.thr = <<>>
    BY <2>1 DEF Inv, Right, HolderRight
  <2>3. Right'
    BY <1>3, SetUpRight DEF Inv
  <2>4. io' \notin {"wait", "send"}
    BY <1>3 DEF SetUp, DisableInterrupts, ReadLcr, SetHigh, Drain, Discard, Access
  <2>5. uart'.thr = <<>>
    <3>1. CASE io' \notin Running
      BY <2>3, <3>1 DEF Right, HolderRight
    <3>2. CASE io' \in Running
      <4>1. uart' = uart
        BY <1>3, <3>2 DEF SetUp, DisableInterrupts, ReadLcr, SetHigh, Drain, Discard, Access,
                         Running, device
      <4> QED
        BY <2>2, <4>1
    <3> QED
      BY <3>1, <3>2
  <2>6. Taken = <<>> /\ Taken' = <<>>
    BY <2>1, <2>4 DEF Taken, Running
  <2> QED
    BY <1>2, <2>1, <2>2, <2>5, <2>6
<1>4. CASE Wait
  BY <1>2, <1>4 DEF Wait, Taken, device
<1>5. CASE Send
  <2>1. /\ io = "send" /\ io' = "idle" /\ uart' = Stored(TX, char)
        /\ UNCHANGED <<tsr, line, given>>
    BY <1>5 DEF Send, Access, outb
  <2>2. uart.latch = 0 /\ uart.thr = <<>>
    BY <2>1 DEF Inv, Right, LatchRight, HolderRight, Running
  <2>3. uart' = [uart EXCEPT !.thr = <<char>>]
    BY <1>0, <2>1, <2>2, Store
  <2>4. uart'.thr = <<char>>
    BY <1>0, <2>3 DEF Registers
  <2>5. Taken = <<char>> /\ Taken' = <<>>
    BY <2>1 DEF Taken
  <2>6. given = line \o tsr \o <<char>>
    BY <1>0, <1>1, <2>2, <2>5, ConcatEmptySeq
  <2> QED
    BY <1>0, <2>1, <2>4, <2>5, <2>6, ConcatEmptySeq DEF NothingLost
<1>6. ASSUME NEW c \in Chars, Putc(c) PROVE NothingLost'
  <2>1. /\ io = "idle" /\ io' = "wait" /\ char' = c /\ given' = Append(given, c)
        /\ UNCHANGED <<uart, tsr, line>>
    BY <1>6 DEF Putc, device
  <2>2. Taken = <<>> /\ Taken' = <<c>>
    BY <2>1 DEF Taken
  <2>3. given = line \o tsr \o uart.thr
    BY <1>0, <1>1, <2>2, ConcatEmptySeq
  <2>4. given' = given \o <<c>>
    BY <1>0, <1>6, <2>1, AppendIsConcat
  <2> QED
    BY <2>1, <2>2, <2>3, <2>4 DEF NothingLost
<1>7. CASE Load
  <2>1. /\ tsr = <<>> /\ tsr' = uart.thr /\ uart' = [uart EXCEPT !.thr = <<>>]
        /\ UNCHANGED <<line, io, char, given>>
    BY <1>7 DEF Load, driver
  <2>2. uart'.thr = <<>> /\ Taken' = Taken
    BY <1>0, <2>1 DEF Registers, Taken
  <2>3. line \o tsr = line /\ (line \o uart.thr) \o <<>> = line \o uart.thr
    BY <1>0, <2>1, ConcatEmptySeq
  <2> QED
    BY <1>1, <2>1, <2>2, <2>3 DEF NothingLost
<1>8. CASE Shift
  <2>1. /\ line' = line \o tsr /\ tsr' = <<>>
        /\ UNCHANGED <<uart, io, char, given>>
    BY <1>8 DEF Shift, driver
  <2>2. Taken' = Taken /\ line' \o tsr' = line \o tsr
    BY <1>0, <2>1, ConcatEmptySeq DEF Taken
  <2> QED
    BY <1>1, <2>1, <2>2 DEF NothingLost
<1>9. CASE Receive
  BY <1>2, <1>9 DEF Receive, Taken, driver
<1>10. CASE UNCHANGED serial
  BY <1>2, <1>10 DEF serial, device, driver, Taken
<1> QED
  BY <1>3, <1>4, <1>5, <1>6, <1>7, <1>8, <1>9, <1>10 DEF SerialNext, Driver, Chars

LEMMA Begins == SerialInit => Inv
<1> SUFFICES ASSUME SerialInit PROVE Inv
  OBVIOUS
<1>1. PICK latch \in {0, 1} :
          uart = [latch |-> latch, low |-> 0, high |-> 0, ier |-> 1, thr |-> <<>>]
  BY DEF SerialInit
<1>2. Typed
  <2>1. uart \in Registers
    BY <1>1, Short DEF Registers
  <2> QED
    <3>1. tsr = <<>> /\ line = <<>> /\ given = <<>> /\ lcr_value = 0 /\ io = "disable"
      BY DEF SerialInit
    <3>2. char \in Chars
      <4>1. char = "none"
        BY DEF SerialInit
      <4>2. "none" \in Chars
        BY DEF Chars
      <4> QED
        BY <4>1, <4>2
    <3>3. tsr \in Seq(Chars) /\ line \in Seq(Chars) /\ given \in Seq(Chars)
      BY <3>1, Short
    <3> QED
      BY <2>1, <3>1, <3>2, <3>3 DEF Typed, Steps
<1>3. LatchRight /\ HolderRight /\ DivisorRight /\ MaskRight
  BY <1>1 DEF SerialInit, LatchRight, HolderRight, DivisorRight, MaskRight,
              WithLow, WithHigh, Draining, Running
<1>4. Taken = <<>> /\ uart.thr = <<>>
  BY <1>1 DEF SerialInit, Taken
<1>5. NothingLost
  <2>1. line = <<>> /\ tsr = <<>> /\ given = <<>>
    BY DEF SerialInit
  <2>2. <<>> \o <<>> = <<>>
    BY Short, ConcatEmptySeq
  <2> QED
    BY <1>4, <2>1, <2>2 DEF NothingLost
<1> QED
  BY <1>2, <1>3, <1>5 DEF Inv, Right

LEMMA Invariance == Inv /\ [SerialNext]_serial => Inv'
<1> SUFFICES ASSUME Inv, [SerialNext]_serial PROVE Inv'
  OBVIOUS
<1>1. NothingLost'
  BY StepKeeps
<1>2. CASE UNCHANGED serial
  BY <1>1, <1>2, Frame DEF Inv, serial, device, driver
<1>3. CASE SerialNext
  BY <1>1, <1>3, SetUpRight, RunningRight DEF SerialNext, Driver, Inv, Chars
<1> QED
  BY <1>2, <1>3

\* Every character given to serial_ns16550a_putc is sent once, in order, or still on its
\* way: real_serial_ns16550a_putc waits for the holder, the set-up closes the latch.
THEOREM CharactersKept == SerialSpec => []NothingLost
<1>1. Inv => NothingLost
  BY DEF Inv
<1> QED
  BY <1>1, Begins, Invariance, PTL DEF SerialSpec

\* The rate that real_serial_ns16550a_init stores is the one that was asked for, whichever
\* state of the latch it found.
THEOREM RateStays == SerialSpec => []RateSet
<1>1. Inv => RateSet
  <2> SUFFICES ASSUME Inv, io \in {"idle", "wait", "send"} PROVE RateSet
    BY DEF RateSet
  <2>1. uart.low = divisor % 256 /\ uart.high = divisor \div 256 /\ uart.latch = 0
    BY DEF Inv, Right, DivisorRight, LatchRight, WithLow, WithHigh, Draining, Running
  <2>2. uart.ier = 0 \/ lcr_value = 1
    BY DEF Inv, Right, MaskRight, WithLow, WithHigh, Draining, Running
  <2>3. uart.low + 256 * uart.high = divisor
    BY <2>1, Halves
  <2> QED
    BY <2>1, <2>2, <2>3 DEF RateSet, divisor
<1> QED
  BY <1>1, Begins, Invariance, PTL DEF SerialSpec
=============================================================================
