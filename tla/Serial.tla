------------------------------- MODULE Serial -------------------------------
(***************************************************************************)
(* The serial port of the LoongArch machine: the driver of                 *)
(* drivers/serial/ns16550a.c, one access to a register a step, and the     *)
(* device it drives.  The registers at offsets 0 and 1 are the two halves  *)
(* of the divisor while the latch bit of the line control register is set, *)
(* the transmitter and the interrupt enables otherwise.  The FIFO is never *)
(* turned on: the device holds one character and sends another.            *)
(***************************************************************************)
EXTENDS Integers, Sequences

CONSTANTS
    Baud,               \* the baud rate the port is set to
    MaxIn               \* bound on the characters received

ASSUME SerialAssumption == Baud \in Nat \ {0} /\ Baud <= 115200 /\ MaxIn \in Nat

VARIABLES
    uart,               \* what the registers hold that can be written: latch, low, high, ier, thr
    tsr,                \* the character on its way out, if any
    line,               \* history: the characters sent
    rbr, heard,         \* whether a character has come in and not been read; how many have come
    io,                 \* the driver's next access to the device
    lcr_value,          \* the latch bit that the driver read
    char,               \* the character to send
    given               \* history: the characters the driver was given

device == <<uart, tsr, line, rbr, heard>>
driver == <<io, lcr_value, char, given>>
serial == <<device, driver>>

-----------------------------------------------------------------------------
\* Definitions marked `slip' are not the code's: each is a plausible mistake in the
\* definition that follows it, and some property must tell the two apart.

\* The registers, and what a store at an offset changes.
TX == 0
IER == 1
LCR == 3

Stored(offset, v) ==
    CASE offset = LCR -> [uart EXCEPT !.latch = v]
      [] offset = TX -> IF uart.latch = 1 THEN [uart EXCEPT !.low = v] ELSE [uart EXCEPT !.thr = <<v>>]
      [] offset = IER -> IF uart.latch = 1 THEN [uart EXCEPT !.high = v] ELSE [uart EXCEPT !.ier = v]

outb(v, offset) == uart' = Stored(offset, v) /\ UNCHANGED <<tsr, line, rbr, heard>>

Access(here, v, offset, next) ==
    /\ io = here /\ io' = next /\ outb(v, offset)
    /\ UNCHANGED <<lcr_value, char, given>>

\* The line status: a character has come in, the holding register is empty.
DataReady == rbr
HolderEmpty == uart.thr = <<>>

-----------------------------------------------------------------------------
\* real_serial_ns16550a_init.  The modem control register is left out.
divisor == (115200 \div Baud) % 65536

LatchKept == lcr_value                                                 \* slip
EightBits == 0

ReadLcr ==
    /\ io = "read lcr" /\ io' = "open latch"
    /\ lcr_value' = uart.latch
    /\ UNCHANGED <<device, char, given>>

Drain ==
    /\ io = "drain" /\ io' = IF DataReady THEN "discard" ELSE "idle"
    /\ UNCHANGED <<device, lcr_value, char, given>>

Discard ==
    /\ io = "discard" /\ io' = "drain"
    /\ rbr' = FALSE
    /\ UNCHANGED <<uart, tsr, line, heard, lcr_value, char, given>>

DisableInterrupts == Access("disable", 0, IER, "read lcr")

LowAgain == Access("high", divisor % 256, IER, "close latch")          \* slip
SetHigh == Access("high", divisor \div 256, IER, "close latch")

SetUp ==
    \/ DisableInterrupts \/ ReadLcr
    \/ Access("open latch", 1, LCR, "low")
    \/ Access("low", divisor % 256, TX, "high")
    \/ SetHigh
    \/ Access("close latch", lcr_value, LCR, "format")
    \/ Access("format", EightBits, LCR, "drain")
    \/ Drain \/ Discard

\* real_serial_ns16550a_putc: the wait, then the store.
PollsInput == DataReady                                                \* slip
Ready == HolderEmpty

Wait ==
    /\ io = "wait"
    /\ io' = IF Ready THEN "send" ELSE "wait"
    /\ UNCHANGED <<device, lcr_value, char, given>>
Send == Access("send", char, TX, "idle")

Putc(c) == /\ io = "idle" /\ io' = "wait"
           /\ char' = c /\ given' = Append(given, c)
           /\ UNCHANGED <<device, lcr_value>>

Driver == SetUp \/ Wait \/ Send

-----------------------------------------------------------------------------
\* The device: a held character moves on when the one before it is out.
Load == /\ uart.thr # <<>> /\ tsr = <<>>
        /\ tsr' = uart.thr /\ uart' = [uart EXCEPT !.thr = <<>>]
        /\ UNCHANGED <<line, rbr, heard, driver>>

Shift == /\ tsr # <<>>
         /\ line' = line \o tsr /\ tsr' = <<>>
         /\ UNCHANGED <<uart, rbr, heard, driver>>

\* A character that comes in while the port is set up; nothing reads those that come later.
Receive == /\ io \notin {"idle", "wait", "send"} /\ heard < MaxIn
           /\ heard' = heard + 1 /\ rbr' = TRUE
           /\ UNCHANGED <<uart, tsr, line, driver>>

\* The firmware may have left the latch open, and leaves another rate, interrupts that are
\* on and, perhaps, a character unread.
SerialInit ==
    /\ \E latch \in {0, 1} :
           uart = [latch |-> latch, low |-> 0, high |-> 0, ier |-> 1, thr |-> <<>>]
    /\ tsr = <<>> /\ line = <<>> /\ rbr \in BOOLEAN /\ heard = 0
    /\ io = "disable" /\ lcr_value = 0 /\ char = "none" /\ given = <<>>

SerialNext == Driver \/ (\E c \in STRING : Putc(c)) \/ Load \/ Shift \/ Receive

SerialSpec == SerialInit /\ [][SerialNext]_serial

-----------------------------------------------------------------------------
\* The characters the driver has taken are on the line, in the device or still to be
\* stored: none is overwritten, sent twice or stored into the divisor.
Taken == IF io \in {"wait", "send"} THEN <<char>> ELSE <<>>
NothingLost == given = line \o tsr \o uart.thr \o Taken

\* A character is only sent once the port runs at its rate, its latch closed behind the
\* divisor, and its interrupts are off unless the firmware left the latch open: the code
\* clears them before it looks at the latch.
RateSet ==
    io \in {"idle", "wait", "send"} =>
        /\ uart.latch = 0
        /\ uart.ier = 0 \/ lcr_value = 1
        /\ uart.low + 256 * uart.high = (115200 \div Baud) % 65536
=============================================================================
