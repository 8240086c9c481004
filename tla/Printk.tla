------------------------------- MODULE Printk -------------------------------
(***************************************************************************)
(* What a message of the program goes through: printk of lib/stdio.c and   *)
(* efi_printk of drivers/firmware/efi/libstub/printk.c take its level off, *)
(* let vsnprintf write it into a buffer on the stack and give the buffer   *)
(* to the serial port of the LoongArch machine, character by character,    *)
(* or to efi_puts.  panic_spin of kernel/debug.c prints where a BUG is and *)
(* never returns.  The formatter, the driver and the device are those of   *)
(* the modules Vsnprintf and Serial; the stub prints before the kernel     *)
(* sets the port up, the kernel afterwards.                                *)
(***************************************************************************)
EXTENDS Serial, SequencesExt, FiniteSetsExt

CONSTANTS
    Bits, PointerSize, One, Two, High, Low, Utf8, Null,   \* see Vsnprintf
    Size,               \* sizeof(printf_buf)
    Messages,           \* [level, fmt, args, meant]: the calls; level -1 is none
    Report,             \* the messages of panic_spin
    efi_loglevel,
    Truncated, Stub,    \* "[Message truncated]\n" and "EFI stub: "
    MaxCalls            \* bound on the calls

VARIABLES
    call, f, a, todo, words, w, len, right, buf, pos, ret, strays, shown, kept, cut,
                        \* the state of vsnprintf
    at,                 \* "idle", "format", "print", "note" or "halt"
    func,               \* which of the two is called
    next,               \* the next character to print
    result,             \* what the last call returned
    panic, script,      \* whether panic_spin is called, and what it has yet to print
    screen,             \* what efi_puts has shown
    calls,              \* the calls begun
    due, owed, expect   \* history: what the line and the screen should get, and the caller

format == <<call, f, a, todo, words, w, len, right, buf, pos, ret, strays, shown, kept, cut>>
print == <<at, func, next, result, panic, script>>
history == <<calls, due, owed, expect>>
vars == <<serial, format, print, screen, history>>

CallOf(m, fmt) == [fmt |-> fmt, args |-> m.args, size |-> Size, meant |-> m.meant]

\* The calls are the ones made below: the initial states of the module, which `Calls' is
\* for, are not used.
V == INSTANCE Vsnprintf WITH Calls <- {}

-----------------------------------------------------------------------------
\* Definitions marked `slip' are not the code's: each is a plausible mistake in the
\* definition that follows it, and some property must tell the two apart.

\* printk_get_level and printk_skip_level, and the number both functions make of a level.
LevelNumber == [c \in {"0", "1", "2", "3", "4", "5", "6", "7"} |->
                   CHOOSE n \in 0 .. 7 : V!SmallDigits[n + 1] = c]
HasLevel(fmt) == Len(fmt) > 1 /\ fmt[1] = "SOH" /\ fmt[2] \in DOMAIN LevelNumber \cup {"c"}
Skipped(fmt) == IF HasLevel(fmt) THEN SubSeq(fmt, 3, Len(fmt)) ELSE fmt
loglevel(fmt) == IF HasLevel(fmt) /\ fmt[2] # "c" THEN LevelNumber[fmt[2]] ELSE -1

\* What the caller wrote must come out: the part of its text that fits in the buffer, as
\* far as its first zero, and a note if that is not all.
Upto(text) == SubSeq(text, 1, CHOOSE n \in 0 .. Len(text) :
                  (n = Len(text) \/ text[n + 1] = V!Nul) /\ \A i \in 1 .. n : text[i] # V!Nul)
Length(m) == Len(FlattenSeq(m.meant))
Text(m) == Upto(FlattenSeq(V!Fitting(m.meant, Size)))
               \o (IF Length(m) < Size THEN <<>> ELSE Truncated)
Result(m) == IF Length(m) < Size THEN Length(m) ELSE -1

\* The function is entered and vsnprintf starts on its buffer.
Enter(m) ==
    /\ at = "idle" /\ at' = "format"
    /\ call' = CallOf(m, Skipped(m.fmt))
    /\ f' = 1 /\ a' = 1 /\ todo' = <<>> /\ words' = <<>> /\ w' = 1 /\ len' = 0 /\ right' = 0
    /\ buf' = [i \in 0 .. Size - 1 |-> Null] /\ pos' = 0 /\ ret' = V!Running
    /\ strays' = {} /\ shown' = <<>> /\ kept' = 0 /\ cut' = FALSE
    /\ expect' = Result(m)
    /\ UNCHANGED <<serial, next, result>>

printk(m) ==
    /\ io = "idle" /\ Enter(m) /\ func' = "printk"
    /\ due' = due \o Text(m)
    /\ UNCHANGED <<screen, owed>>

\* A message of a level that is not shown costs nothing, one of any other gets a prefix.
LevelsAbove(m) == loglevel(m.fmt) > efi_loglevel                       \* slip
Silent(m) == loglevel(m.fmt) >= efi_loglevel

efi_printk(m) ==
    /\ io = "disable" /\ at = "idle"
    /\ owed' = owed \o (IF m.level >= efi_loglevel THEN <<>>
                         ELSE IF m.level >= 0 THEN Stub \o Text(m) ELSE Text(m))
    /\ \/ /\ Silent(m)
          /\ result' = 0 /\ expect' = IF m.level >= efi_loglevel THEN 0 ELSE Result(m)
          /\ UNCHANGED <<serial, format, at, func, next, screen>>
       \/ /\ ~Silent(m)
          /\ Enter(m) /\ func' = "efi_printk"
          /\ screen' = screen \o (IF loglevel(m.fmt) >= 0 THEN Stub ELSE <<>>)
    /\ UNCHANGED due

Call(m) ==
    /\ ~panic /\ calls < MaxCalls /\ calls' = calls + 1
    /\ printk(m) \/ efi_printk(m)
    /\ UNCHANGED <<panic, script>>

Format ==
    /\ at = "format"
    /\ IF ret = V!Running THEN V!Next /\ UNCHANGED <<at, next>>
       ELSE at' = "print" /\ next' = 0 /\ UNCHANGED format
    /\ UNCHANGED <<serial, func, result, panic, script, screen, history>>

\* The string that is printed: the buffer, then the note.  Behind the buffer is anything.
String(i) == CASE at = "print" -> IF i \in DOMAIN buf THEN buf[i] ELSE Null
               [] at = "note" -> IF i < Len(Truncated) THEN Truncated[i + 1] ELSE V!Nul

\* serial_ns16550a_puts.
PutsChar ==
    /\ at \in {"print", "note"} /\ func = "printk" /\ String(next) # V!Nul
    /\ Putc(String(next)) /\ next' = next + 1
    /\ UNCHANGED <<device, format, at, func, result, panic, script, screen, history>>

\* The string is out, at once when efi_puts shows it: the note follows or the call returns.
NoteLate == at = "print" /\ ret > Size                                 \* slip
NoteFollows == at = "print" /\ ret >= Size

Shows ==
    LET cells == [i \in 1 .. Len(Truncated) + Size |-> String(i - 1)]
    IN  IF func = "efi_printk" THEN Upto(cells) ELSE <<>>

Printed ==
    /\ at \in {"print", "note"}
    /\ func = "printk" => io = "idle" /\ String(next) = V!Nul
    /\ screen' = screen \o Shows
    /\ IF NoteFollows THEN at' = "note" /\ next' = 0 /\ UNCHANGED result
       ELSE at' = "idle" /\ result' = (IF at = "note" THEN -1 ELSE ret) /\ UNCHANGED next
    /\ UNCHANGED <<serial, format, func, panic, script, history>>

-----------------------------------------------------------------------------
\* panic_spin.
Panic ==
    /\ io = "idle" /\ at = "idle" /\ ~panic
    /\ panic' = TRUE /\ script' = Report
    /\ UNCHANGED <<serial, format, at, func, next, result, screen, history>>

Tell ==
    /\ panic /\ script # <<>> /\ printk(Head(script)) /\ script' = Tail(script)
    /\ UNCHANGED <<panic, calls>>

Resume == at' = "idle" /\ panic' = FALSE                               \* slip
Spin == at' = "halt" /\ panic' = TRUE

Halt ==
    /\ panic /\ script = <<>> /\ at = "idle" /\ Spin
    /\ UNCHANGED <<serial, format, func, next, result, script, screen, history>>

\* The port is set up by the kernel, so after the stub's last call.
SetUpPort ==
    /\ io = "disable" => at = "idle"
    /\ Driver /\ UNCHANGED <<format, print, screen, history>>

Transmit == (Load \/ Shift) /\ UNCHANGED <<format, print, screen, history>>
Incoming == Receive /\ UNCHANGED <<format, print, screen, history>>

-----------------------------------------------------------------------------
Init ==
    /\ SerialInit
    /\ V!Start([fmt |-> <<>>, args |-> <<>>, size |-> Size, meant |-> <<>>])
    /\ at = "idle" /\ func = "printk" /\ next = 0 /\ result = 0
    /\ panic = FALSE /\ script = <<>> /\ screen = <<>>
    /\ calls = 0 /\ due = <<>> /\ owed = <<>> /\ expect = 0

Kernel == Format \/ PutsChar \/ Printed \/ Tell \/ Halt \/ (io # "disable" /\ SetUpPort)

Next == (\E m \in Messages : Call(m)) \/ Panic \/ Kernel \/ SetUpPort \/ Transmit \/ Incoming

\* The processor goes on, and the port sends what it is given.
Spec == Init /\ [][Next]_vars /\ WF_vars(Kernel) /\ WF_vars(Transmit)

-----------------------------------------------------------------------------
\* The characters the port was given are the text that is due, in order; all of them once
\* the call has returned.
LineGetsText ==
    /\ IsPrefix(given, due)
    /\ at \in {"idle", "halt"} => given = due

\* The caller learns the length of its text, or that it was cut; the screen of the stub
\* shows the text with its prefix unless its level is too low.
CallersTold == at = "idle" => result = expect /\ screen = owed

\* Every call returns, and every character of it gets out.
Returns == at = "format" ~> (at \in {"idle", "halt"} /\ line = due)

\* A BUG is reported to its last character and nothing happens after it.
Stops == panic ~> [](at = "halt" /\ line = due)
=============================================================================
