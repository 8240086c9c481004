# XOS boot: a verification project

TLA+ models of the boot of the XOS kernel, TLC configurations that check them on small
instances, and TLAPS proofs of what matters most for every instance.

XOS boots on two machines. On x86, GRUB loads the kernel, `page_create` maps the first
4 MB, and `start_kernel` calls `setup_arch`, which reads the boot loader's memory map,
sets up the boot memory allocator, builds the page tables and describes memory by zones.
On LoongArch an EFI stub relocates the kernel, leaves the firmware's boot services and
jumps to it. In both cases the kernel then prints a few lines and loops: there are no
processes, interrupts or drivers beyond output. So the program's logic is the boot, and
its hazards are arithmetic at boundaries, state that one call leaves for the next, the
order of phases, and firmware that changes things behind the stub's back.

    boot loader's map                                  firmware
          |                                                |  memory map, pools, tables
    E820 (setup.c)                                  EfiStub (libstub)
          |  e820                                          |  virtual map, kernel
    SetupArch (setup.c, init.c, page_alloc.c)              v
          |  free / reserve / alloc            EfiPuts (printk.c) -> firmware console
    Bootmem (bootmem.c)  implements  BootmemPool    ^ efi_printk
          |  page tables, mem_map, bitmaps          |
    FreeArea (zones)                       Printk (stdio.c, debug.c) -- Vsnprintf
                                                    |  print_str         meant: PrintfText
    KallsymsTable (scripts) -> Kallsyms     x86: Console (print.c)  implements  Paper
       the build's symbols     look-ups     LoongArch: Serial (ns16550a.c)

## Inventory

**Boot memory allocator**, `mm/bootmem.c`. State: a bitmap with one bit per frame, the
frame and offset in which the last block ended. Operations: `init_bootmem`,
`free_bootmem` (rounds inward), `reserve_bootmem` (rounds outward), `__alloc_bootmem`.
Every other part of the x86 boot takes its memory from it, directly or through
`alloc_bootmem_node` and `alloc_bootmem_low_pages`. Hard: the merge of a small block into
the page the last block left partly used, which depends on the whole history; the scan
with its goal, stride and restart. Correct when blocks are disjoint, aligned and in
registered memory, and the machine is stopped only when nothing fits.

**Memory map**, `arch/x86/kernel/setup.c`. State: `biosmap` and `e820`. Operations:
`init_biosmap`, `sanitize_e820_map`, `copy_e820_map`. Hard: overlapping entries that meet
in one address, tables that fill up, a map that is refused half way. Correct when each
byte keeps its strictest type and exactly the ISA hole is cut out.

**Memory set-up**, `setup.c` and `arch/x86/init/init.c`. State: `max_low_pfn`, the page
directory. Operations: `setup_memory`, `paging_init`. Hard: rounding that is done twice
or not at all, the allocator's bitmap being written before memory is known, page tables
being written through the mapping they replace. Correct when the allocator's frames are
exactly the usable RAM, the kernel is never given away and all of low memory is mapped.

**Zones**, `mm/page_alloc.c`. State: the node's zones, `mem_map`, buddy bitmaps, fallback
lists. Operation: `free_area_init` (the file does not allocate pages). Hard: the alignment
of `mem_map` inside its block, the size of bitmaps, empty zones.

**EFI stub**, `drivers/firmware/efi/libstub`. State: the boot memory map and its key, the
runtime map; in the firmware, pools, configuration tables and the current map. Hard: the
map can change between any two calls; after the first `exit_boot_services` nothing may be
allocated or freed; three error paths share a clean-up. Correct when the kernel gets the
final map, and a boot that fails before it tried to leave gives back the pool and the table
of its memory map. The pools of the virtual map and of the memreserve table and the kernel's
pages stay behind: the code frees none of them.

**EFI text output**, `libstub/printk.c`: UTF-8 to UTF-16 through a buffer on the stack.
Hard: encodings cut short or out of range, words that do not fit.

**Console**, `arch/x86/lib/print.c`. State: cursor, video memory. Hard: wrap, line feed,
scroll and backspace in combination, at the edges of the screen.

**Formatted printing**, `vsnprintf` of `libstub/vsprintf.c`, which the kernel uses too.
State: the place in the format and the arguments, `pos`, the buffer. Hard: `pos` runs past
the buffer while the text is counted, so every store is guarded on its own; a wide
character is stored whole or not at all; two decoders of UTF-16 must agree; the meanings of
flags, width, precision and qualifier depend on each other. Correct when the text is what C
prescribes (with the one exception and the additions its comments declare), the buffer
holds it as far as it fits, and the result is its full length.

**Messages**, `printk` of `lib/stdio.c`, `efi_printk`, `panic_spin` of `kernel/debug.c`.
Operations: a level is taken off, a buffer formatted, printed and, if it was too small, a
note. Hard: the edge where a text just does not fit; levels that are none.

**Serial port**, `drivers/serial/ns16550a.c`. State: the device's registers, two of which
are others while the latch bit is set. Operations: set-up, `putc`, `puts`. Hard: the order
of accesses, a device that works on between them, waiting for the right bit.

**Kernel symbols**, `scripts/kallsyms.c` and `kernel/kallsyms.c`. State: the symbols, the
token table and its counts while names are compressed; the tables in the kernel. Hard: the
tables describe a kernel that they are a part of, so they are made twice and must not
change in between; counts kept up to date incrementally; aliases at the edge of a search.

**Strings**, **processor entry**, **locks and atomics**, **build system**: listed in
`PROJECT.json` with what is and is not modelled. Nothing else in the tree is a part of the
running kernel; nothing built takes a lock, and `include/` is mostly headers taken from
Linux.

The hazards found while reading, each at its line, are the "hazards" of `PROJECT.json`;
each names the properties that would catch it, or says why none does.

## Modules

| module | models | state and steps |
|---|---|---|
| `Bootmem` | `mm/bootmem.c` | The variables are the fields of `bootmem_data_t`, the bitmap as a set of frames. One action is one call. `__alloc_bootmem_core` is `Found` (both scans) and three placements: a block of its own, in the tail of the last page, from there across into new frames. |
| `BootmemPool` | what callers may rely on | A pool of frames, then disjoint, aligned blocks from it; or the machine stops. |
| `E820` | the map in `setup.c` | The tables and the locals of `sanitize_e820_map`. `stage` is the function, or the loop of that function, that runs next; a step is one round of it: an entry recorded, a comparison of the sort, a change point swept, an entry copied. The removal loop of the overlap list is an operator. |
| `FreeArea` | sizes in `page_alloc.c` | Operators: zone sizes, `mem_map`, bitmaps, watermarks, fallback lists. |
| `SetupArch` | `setup_arch` | `INSTANCE`s of `E820` and `Bootmem`, and `FreeArea`. `pc` is the function that runs next; a step is a step of the memory map, a call of the allocator or one round of a loop; `index` and `order` are the loops' counters. |
| `EfiStub` | `libstub` | `pc` is the firmware call that comes next; a step is that call with one of its outcomes and the code up to the next one. `FirmwareEvent` changes the map between any two. |
| `EfiPuts` | `utf8_to_utf32`, `efi_puts` | A step is one turn of the loop. |
| `Console` | `print.c` | A step is one `put_char`, with its scroll and `flush`. |
| `Paper` | what a console promises | Typing on an endless roll, of which the screen shows the end. |
| `Vsnprintf` | `libstub/vsprintf.c`, `strnlen` | A step reads a character or a directive of the format, or writes one character. What a directive writes is decided before any of it is written, as in the code, by operators named for its parts. |
| `PutDec` | `put_dec`, `put_dec_helper4`, `put_dec_full4` | Operators in the widths of the code's types: the four parts of a number, the sums, the groups of four digits, the zeros stripped off. |
| `PrintfText` | what C says of `printf` | Operators that build a format, its arguments and the text they mean, from the parts of a directive and in other terms than the code's. Where C defines nothing, what the comments in `vsprintf.c` declare; `ZeroPrefix` chooses between the two where they differ. |
| `Serial` | `ns16550a.c` and its device | A step is one access to a register; the device loads, sends and receives between them. |
| `Printk` | `printk`, `efi_printk`, `panic_spin`, `serial_ns16550a_puts` | Composes `Vsnprintf` (`INSTANCE`) and `Serial`: a step is one of theirs, or the code between them. |
| `KallsymsTable` | `scripts/kallsyms.c`, both passes | The global tables; an action is a function `main` calls, or a round of `optimize_result`. `Relink` is the link between the passes. |
| `Kallsyms` | `kernel/kallsyms.c` | The tables as the kernel has them, and the look-ups as operators. |
| `*Proofs` | | Theorems about the module they extend. |
| `MC*` | | Inputs for TLC. |

`BUG()` is `panic_spin`, which never returns: it sets `panicked`, which disables every
further step. Addresses are physical, since `phys_to_virt` only adds a constant.
`node_boot_start` is 0, as `init_bootmem` always passes; so is the scan's `offset`. `ram`,
`allocs`, `late`, `gone`, `strays`, `printed`, `seen` and `meant`, in `Vsnprintf` `shown`,
`kept` and `cut`, in `Serial` `line` and `given`, in `Printk` `due`, `owed` and `expect`,
and in `KallsymsTable` `first` are history variables: no step of the code depends on them,
except that frames are registered before the first allocation, as `setup_memory` does, and
that `MaxAllocs`, `MaxText`, `MaxIn` and `MaxCalls` bound a run. In `EfiPuts`, the
operators above the mention of slips say what UTF-8 and UTF-16 *are* and are used to state
the properties; the ones below are the code's.

A definition marked `slip` is a plausible mistake in the one that follows it. It is not
used by the model. Substituted for the right one, it must break a property: this shows
that the property sees that part of the code.

### What is abstracted

* Contents of memory. A page table is its address and the frames it maps are those from
  its place in the directory on; a page structure is its zone and its frame's address.
  List heads, counts, flags and wait tables are left out.
* What is printed on the way (`printk`, `efi_err`), except where printing is the subject.
* In `Vsnprintf` an octet is a name, a wide word is one of a few that differ in the length of
  their encoding and in being a surrogate, and a decimal number has the digits that
  division gives, where the code multiplies and shifts (`PutDec`). Types have a few bits, so
  that every cast loses something.
* In `Printk` an `efi_puts` is one step (its own model is `EfiPuts`), and the port's modem
  control register and `getc` are left out. The code clears the interrupt enables before it
  looks at the latch; should the firmware have left it open, that store goes to the divisor,
  which is set afterwards, and `RateSet` claims nothing of interrupts. `Baud` is 300 in the
  configuration, so that both halves of the divisor are used; the code asks for 9600.
* In `KallsymsTable` a character is a number below 12, a marker stands for every second
  symbol, the guess at names a linker script provides is a set of names, and the options
  `--symbol-prefix` and `--absolute-percpu`, which no rule of the Makefile passes, are left
  out. Names are short enough for their expansion to fit `write_src`'s buffer. A text range
  that is not in the map is at address 0, as in the code.
* In `EfiStub`, a memory map is its number of descriptors and its key. The kernel image's
  copy, the command line and the attribute bits of descriptors are left out.
* Attribute bytes of the screen, which are always the same.

## Runs

| run | instance | distinct states |
|---|---|---|
| `bootmem` | nodes of 5 and 7 pages of 4 bytes; 4 regions, partial pages and one past the end; sizes 0, 1, 3, 6; alignments 1, 3, 4, 8; goals 0 and 8; up to 3 blocks | 43 745 |
| `e820` | every map of up to 3 entries, addresses 0-2, sizes 0-3, types 1 and 2, and 16 of 4; a hole at 2, tables of 3 entries | 391 191 |
| `setup_arch` | 156 maps on up to 52 frames of 16 bytes, page tables of 16 entries, 3 orders; under fairness | 6 718 |
| `efi_stub` | slack 2, maps of up to 6 descriptors, 4 firmware events, every outcome of every call (a second or third reading of the map fails for want of room or for no reason the stub can know) | 32 310 |
| `console` | a screen of 2 lines of 3 cells, 2 glyphs, texts of up to 7 characters | 28 779 |
| `efi_puts` | texts of up to 4 characters at the edges of the encodings, strings of up to 4 octets that may encode nothing; buffer of 5 words | 58 544 |
| `vsnprintf` | every conversion with ten sets of flags, three widths, four precisions and the values at the edges of types of 2 to 6 bits; wide strings of up to 2 words in up to 7 octets; formats of up to 3 parts; buffers of 0-8 and 20 octets | 100 304 |
| `printk` | two calls of eight messages with the levels 3, 7, c, none and no level at all, from the stub, the kernel or both; a BUG at any time; a buffer of 4 octets; a device that starts with its latch open or closed and with or without a character received | 64 002 |
| `kallsyms` | 1024 symbol maps: fixed lines of every kind and up to two symbols at the edges of the ranges, weak, provided, aliased or absolute, with names of 2-5 characters of which 4 may be kept, which move by 0, 2 or 3 in the second link; with and without `--all-symbols` | 22 034 |

Why these are enough. A merge needs a block that ends inside a page and one that
follows; a wrong tail shows in a third: three blocks, and sizes below, at and above what
is left of a page of 4 bytes. Alignments 1 and 4 divide the page, 8 spans two, and 3 is
the bad argument that must stop the machine, as size 0 is. Goal 8 is the third frame,
with room both below and above. In `e820` three entries are what it takes for more than
two to meet, zero-sized and touching ones included, and a table of 3 is full before
all that three entries sanitize into is in it. Maps of four entries overrun `biosmap`, and
there the specification ends. The maps of `setup_arch` reach from no memory, where the
reservation of the kernel must stop the machine, through exactly the DMA limit and
several partly filled page tables, to more than `MAXMEM`; a third entry lies in low
memory, across the hole and the kernel, in the memory above, or at its end and beyond,
at unaligned addresses, as RAM or not. `efi_stub` has two events more than the two that
defeat the stub, and slack that events can use up. Seven characters fill the console's
six cells and scroll. Five words are a pair, a full round and the terminator, so that
pieces end at every kind of word. In `vsnprintf` a width of 7 and precisions of 0 and 4 are
below, at and above the digits of the numbers and the octets of the strings; sizes 0-8 cut
a wide string at every octet, and size 0 has no terminator. A text of `printk` fits four
octets, just does not, ends with a character that does not, or holds a zero. In `kallsyms`
a marker stands for two symbols, so that look-ups start in the first, the last and a middle
block, a text for initialisation behind the tables is what moves, and names are shorter than
`KSYM_NAME_LEN`, just as long, and too long.

What the runs show:

* `bootmem`: the bitmap is exact and the tail the next merge will use is nobody's
  (`RecordsExact`, of `BitmapExact` and `TailFree`). A valid request stops the machine only
  when no aligned run is free (`AllocStopsOnlyWhenFull`), and memory above the goal is
  preferred (`GoalFirst`). Blocks are disjoint, aligned and in registered frames, since all
  this implements `BootmemPool` (`ImplementsPool`).
* `e820`: where entries meet in pairs each byte keeps its largest type
  (`PrecedenceOfPairs`) and the result is ordered, disjoint and shortest (`Canonical`);
  the copy removes the hole and nothing else (`HoleCutOut`); `biosmap` is overrun exactly by
  a map of more than `E820MAX` entries, which `init_biosmap` copies uncounted
  (`setup.c:44-49`), and no other table ever is (`TablesFit`).
* `setup_arch`: from any of the maps, the allocator ends up with exactly the RAM the boot
  loader reported less what is taken, but for one frame that double rounding may lose
  (`RamExact`); no block touches page 0, the hole, the kernel or the bitmap
  (`KernelKept`); a sanitized map never trips the double-free check, and reserving stops
  the machine only on a node too short for the kernel (`StopsOnlyWhenShort`); page tables
  lie in memory that is mapped when they are written and map every block afterwards
  (`MemoryReachable`); `mem_map` and the bitmaps fit their blocks (`ArraysFit`), each frame
  has its page structure in the right zone (`PagesMatchFrames`), and fallback lists are
  complete and ordered (`ZonelistsSound`). Every boot ends, set up or stopped (`BootEnds`).
* `efi_stub`: a table is never in freed memory (`TablesLive`); the kernel and the runtime
  services get the final map (`KernelSeesFinalMap`); one change of the map while leaving
  is survived (`OneChangeSurvived`); nothing is allocated or freed while leaving
  (`NoMemoryCallsWhileLeaving`); the buffer is too small only for a map that outgrew the
  slack (`SlackSuffices`); a boot that fails before it leaves takes its map back, and only
  that (`MapTakenBack`).
* `console`: the screen shows the end of what an endless console would have typed
  (`ImplementsPaper`), and only a backspace at the home position writes outside of it
  (`StraysOnlyAtHome`).
* `efi_puts`: pieces and terminators fit the buffer (`InBuffer`), nothing behind the end
  of the string is read (`StopsAtZero`), and texts arrive as they are (`TextShown`).
* `vsnprintf`: stores stay in the buffer (`InBuffer`); it holds the text as far as it fits,
  whole characters only, and a terminator (`HoldsWhatFits`); the text is the one
  `PrintfText` derives from the call, the result is its length, and no word is read behind
  the terminator of a wide string (`AsMeant`). `len`, which one decoder of UTF-16 counts up
  and the other down, has the width of a `long` and wraps round: if the two disagreed (the
  slip `NeverThree`), the loop would go on and the text and the result would be wrong. The
  text differs from C's in one case: `%#x` of zero is `0x0`, as the comment at
  `vsprintf.c:435-439` says, where C has `0`. `DepartsFromC` in `MCVsnprintf` checks that
  the two rules differ on those directives and on no other of the run.
* `printk`: no character is lost, sent twice or stored into the divisor (`NothingLost`), and
  none is sent before the rate is set (`RateSet`); the line gets the text that is due, with
  its note (`LineGetsText`); callers get its length or -1 and the stub's screen the text and
  its prefix (`CallersTold`). Every call returns and its text gets out (`Returns`); a BUG is
  reported to its last character and nothing follows (`Stops`).
* `kallsyms`: compression loses nothing and its counts stay exact (`CompressionSound`);
  names lead to symbols through the markers and through the stream (`NamesFound`), but for
  those of exactly `KSYM_NAME_LEN` characters: `scripts/kallsyms.c:124` lets them into the
  tables, `kernel/kallsyms.c:103` gives back one character fewer, and the property says that
  such a name is not found and what is left of it is; an
  address leads to the nearest symbol at or below it and to the best of its aliases
  (`NearestSymbol`); both passes make tables of one size (`PassesAgree`).

`MemoryReachable` says that a page table lies in the 4 MB `page_create` mapped unless every
frame of RAM there holds a page table already. More cannot be promised: on a machine whose
memory below the hole and behind the kernel is reserved, the tables do not fit into those
4 MB, and a store to one beyond them would be a fault without a handler. On a PC hundreds of
kilobytes are free there. The comment at `init.c:95-96` counts on 8 MB.

`MemoryReachable` also says that all of low memory is mapped when `cr3` is loaded, and not
that nothing else is: the loop that fills one table is part of a step, so the entries behind
the end of memory in the last table are not modelled. Nor does a property object to line 423
of `setup.c`, which writes the allocator's bitmap before the frames it lies in are known to
be RAM: that is a fact of the order of the lines; what the properties cover is that the
bitmap's frames are never given out.

A map of more than `E820MAX` entries ends `SetupArch` in `setup_memory_region`, where the
array is overrun. The maps of `setup_arch` all fit, so `BootEnds` speaks of those.

`PassesAgree` rests on a gap between the two ranges, as `vmlinux.lds.S` leaves one: were
`_sinittext` at the very address of `_etext`, the symbols there would be dropped in one pass
and kept in the other.

The type invariants (`TypeOK`) of `Bootmem`, `E820`, `SetupArch`, `EfiStub`, `EfiPuts` and
`Console` are proved, so no run repeats them.

### Fairness

`E820` and `SetupArch` assume `WF_vars(Next)`: one processor executes the boot with
interrupts off, so while a next instruction exists it is executed. `Printk` assumes the same
of the code that runs (`WF_vars(Kernel)`), not of the callers, and that the port sends what
it is given (`WF_vars(Transmit)`): a port that never does hangs `putc`, which has no limit.
Nothing stronger is assumed. The other modules state safety only: a call of the allocator,
of `put_char` or of `efi_puts` is one made by somebody else, and a firmware call may never
return. So deadlock is not checked either: each of these systems may stop, and the boot
ends.

### Disagreements between the code and its comments

Three runs look for a violation, and find it.

* `e820_precedence`: `sanitize_e820_map` removes an entry from the overlap list in a loop
  that counts the list down once per entry looked at, not once per entry found
  (`setup.c:158`). With three entries open, a reserved byte can come out as RAM, against
  the comment at `setup.c:161-162`. That is why `PrecedenceOfPairs` speaks of pairs.
* `e820_words`: only the low words of the map's 64-bit addresses and sizes are copied
  (`setup.c:46`), so of a map of two entries or more, memory from 4 GB on is registered at
  the address of its low word, RAM in `e820` where the boot loader reported none. (A map of
  one entry is ignored altogether, `setup.c:231`.)
* `efi_puts_signs`: the test for surrogates looks at the low word only (`printk.c:58`), so
  a character such as U+1D800 is taken for one and its octets are shown one by one.

Seen while modelling, without a run of their own: a map of fewer than two entries leaves
`e820` empty, where `setup.c:217-219` promises to fake one; the 8 MB of `init.c:95-96`,
above; a name of exactly `KSYM_NAME_LEN` characters is in the tables and not found, above;
`kernel_text_start` and `kernel_text_end`, by which `kernel/kallsyms.c` tells the kernel's
text, are declared in `sections.h` and defined by no linker script of the tree (the
look-ups are not built): the symbol maps of the runs have them; `ns16550a.c:29` writes
0xc7 to the modem control register, which turns on DTR, RTS and OUT1, while its comment
says OUT2; `kallsyms_lookup_size_offset` returns an index as a truth value, so that of an
address in the first symbol is 0.

## Proofs

For every value of the constants, from the assumptions named in the modules.

**`BootmemProofs`** proves every invariant of `Bootmem` and so `RecordsExact`,
`AllocStopsOnlyWhenFull` and `GoalFirst`, and that the allocator implements `BootmemPool`.
Assumed are a page size other than 0, arguments of the right types, and that of a page size
and an alignment that is a power of two one divides the other (`PowersAssumption`), which
holds as the page size is one too.
No invariant is inductive alone: that a block placed in the tail overlaps no other needs
`TailFree`; that `TailFree` survives a block in fresh frames needs the bits of all blocks
to be set, `BitmapExact`; that in turn needs blocks to lie in registered memory,
`BlocksInRam`, and registration to precede them. The inductive invariant is the
conjunction of the six with `Untouched` (before `init_bootmem` there is nothing). The
proof goes placement by placement (`FreshStep`, `TailStep`, `AcrossStep`): each hands out
a block with the properties `HandOut` lists, and from these alone the rest follows
(`HandedKeeps`, `HandedGives`). `ScanMeets` shows that a scan which starts at an aligned
frame and steps by the alignment meets every aligned frame behind it, and `ScanFromGoal`
that one which starts at a rounded-up goal meets those above it.

**`E820Proofs`** proves, for every map of any number of entries and every capacity of the
tables, that `biosmap` is overrun exactly if the map is longer than it and that every other
table stays within its capacity (`TablesFit`), that a sanitized map is
in order and disjoint (`InOrder`), that the copy cuts out the hole and nothing else
(`HoleCutOut`), and, where no more than two entries meet at an address, that every byte
keeps the largest of its types (`PrecedenceOfPairs`) and that entries that touch differ
(`Canonical`). The invariant `IInv` follows the loops. Recorded points
are the two ends of entries (`PointsOfEntries`), and behind the bubble sort they are in
order: within a pass, the largest point so far is the last one looked at, and a pass
without an exchange leaves none to make (`SortedSoFar`). While points are swept, the new
entries are in order and below the last change of type, which is at or below the point that
comes next (`SweptInOrder`); nothing of this depends on what the overlap list holds, so it
is untouched by its bug. In the copy, `e820` lies below the entries still to come
(`CopiedInOrder`) and its RAM is that of the entries copied, less the hole, as far as the
table goes (`CopiedExactly`). Order is what makes the last two work: a byte that an earlier
entry did not tell about cannot be told about by a later one.

A second invariant, `PairInv`, is about maps in which entries meet in pairs. The points are
the two ends of each entry that is not empty, each once, and sorting only permutes them
(`PointsExact`). Behind the first n points the overlap list holds the entries whose start is
among them and whose end is not (`ListOf`): three of them would meet at the address of the
next point (`NoThird`, the pigeonhole step on cardinalities), so the list never exceeds two,
which is the length up to which `RemoveEntry` is right. Since the points are sorted, the
entries in the list are the ones over every byte up to the next point (`TypeBetween`); with
that, the table and the entry under construction give each byte behind the sweep its type
(`SweptTypes`). That no two entries of the result can be merged needs to know what happens
when several points share an address: starts come before ends, so the type first rises and
then falls there, and an empty entry that is skipped between two others was larger than both
neighbours, or never smaller (`Rises`, `Falls`, `Apart`).

`RoomInv` bounds the tables. An entry records at most two change points (`TwoPoints`). The
entries of the overlap list are different ones, each begun at a point that was swept
(`Begun`), since every point is there once; the bug of the list's removal loses entries but
repeats none. So there are no more of them than the map has entries (`DifferentFew`).
`new_bios` and `e820` are guarded by the code. A map that is too long for `biosmap` has ended
in `overrun` before any of this.

A third invariant, `GapInv`, adds what rounding to frames needs: the entries of a sanitized
map are not empty, and no two RAM entries of `biosmap` or of `e820` touch, so that bytes that
are RAM throughout lie in one entry (`RunOfRam`). `RamMatches` puts the three together: up to
the end of its last RAM, `e820` has a byte as RAM exactly if the boot loader reported it as
RAM outside the hole.

**`SetupProofs`** proves every invariant of `SetupArch`, on every memory map.
It instantiates the two proof modules of its parts: a step of the boot is a step of the map
or of the allocator, or leaves them alone (`MapStep`, `AllocatorSteps`), so their inductive
invariants hold throughout, with `Control`, which ties `pc` to what the allocator has been
told (`PartsInv`). On top of that come six groups, each proved from the ones before:

* `RamInv`: RAM registered so far ends at or before the entries still to come, outside the
  hole and below `max_low_pfn`. That is why no frame is freed twice, and with what the two
  reservations clear it gives `KernelKept` and `StopsOnlyWhenShort`. It rests on the order of
  `e820`, which `E820Proofs` has and which rounding keeps: two entries that share a frame
  share none they cover whole.
* `ExactInv`: the frames registered are those wholly inside the low part of one of the
  entries done, less what has been reserved, and the entries keep `GapInv`. A frame that is
  RAM throughout lies in one entry, because RAM entries do not touch; it is therefore not
  lost between two of them, and with `RamMatches` this is `RamExact`. What the allocator may
  not use includes every byte of the bitmap that `init_bootmem` sets, and the frame behind
  it may be lost, since the end is rounded up twice. The hypothesis `WordsSuffice` says
  that the low words of the map are the map: `setup_memory_region` copies nothing else, and
  the run `e820_words` shows what happens to an entry that has more. The theorem does
  not assume that no table is full: frames below `max_low_pfn` come before the end of what
  got into `e820`.
* `Types`, the rest of `TypeOK`.
* `ArraysInv`: `mem_map` is the aligned address of a block of `MapSize` bytes, a bitmap has
  the size its zone calls for. With the arithmetic, `MapFits` and `BitForEveryPair`, they
  fit (`ArraysFit`).
* `PagesInv`: the zones set up so far are the first ones and the page structures are those
  of the frames before the next zone. With `ZonesSplit` it gives `PagesMatchFrames`, and
  with it `ZonelistsSound`.
* `TablesInv`: until `cr3` is loaded every block is a page table and starts a frame, with
  nothing left over in its page, so that the allocator hands out the first free frame each
  time; a table beyond the first mapping then means that there is no free frame within it.
  That the blocks of later are mapped too follows from their lying in RAM, below
  `max_low_pfn` (`MemoryReachable`).

Assumed are what the modules name: sizes that are not 0, 640 KB, 1 MB and the end of the
kernel in this order and the first two at page boundaries, the DMA limit at a multiple of
the largest block, and a cache line that divides a page.
`PowersOfTwo` is arithmetic: that 2^k is a number, and 2^(k+3) is 8 times it. The provers
know nothing of powers, so it is an assumption, which TLC evaluates.

**`EfiStubProofs`** proves every property of `EfiStub`. The invariant gives the meaning of
each `pc`: the status, the state of boot services, the pools and tables held, the map the
virtual map was made from (`StatusInv`, `ServicesInv`, `PoolsInv`, `VirtmapInv`), that a
key the stub holds is one the firmware gave (`KeyInv`), and that a stale key means an event
since (`LateInv`). `SlackEnough` needs, separately, that the buffer keeps the size it was
given (`SlotsInv`).

**`EfiPutsProofs`** proves that `efi_puts` keeps to its buffer and its string, for every
string of octets and every buffer of at least three words. The point is in
`DecodedInside` and `LooksInside`: a decoding ends at the first octet that is no trailing
one, and the terminator is none. That a text is shown (`TextShown`) is proved for texts of
any length, provided that no character of theirs looks like a surrogate to `utf8_to_utf32`
(`MeantPlain`): the others, such as that of the run `efi_puts_signs`, are not. The invariant
`ShownSoFar` says that the octets before `s8` encode the first k characters, whose words are
the pieces sent and what is in the buffer. `FlattenAppend` lets a concatenation grow by a
character, `PrefixesAgree` finds the next character's octets at `s8`, and `DecodesCharacter`
gives back, for each length of encoding, what `Utf8` put into them.

**`ConsoleProofs`** proves that a console of any size implements `Paper`. A step must be
matched with typing on a roll whose cells are numbered from the first line ever printed,
so the lines scrolled off must be whole ones (`WholeLines`, the strengthening); then a
scroll moves what is `Shown` not at all (`FinishShown`), and each case of `put_char`
is a step of the roll or none (`StepsRefine`).

**`VsnprintfProofs`** proves `InBuffer` and `HoldsWhatFits` for every format, arguments and
size. A store is guarded on its own, so the first needs only that `buf` has `size` octets.
The second needs that the part of the text that fits is never written over: `kept` is `pos`
until a character does not fit; from then on `pos` is at least `size`, so that nothing more
is stored, and the terminator stands at `kept` or is put there when the call ends.
It also proves that `put_dec` gives the decimal digits of every `unsigned long long`, which no
test can go through and whose numbers TLC does not hold. `TenthExact` and `Helper4Exact` are
the two divisions by multiplication, with the bounds up to which they are exact: the 16389 of
the comment in the code, and 1128869999 for the other. `SumsExact` keeps every sum below that,
and below 2^32; what it carries from one group of digits to the next makes up the number.
`DecimalDigits` follows group by group, from what four digits behind others add to the number
they stand for (`ValueOfFour`), and from zeros in front adding nothing. There are at most
twenty digits: `tmp` in `vsnprintf` has room for 22. `PutDec` is a module of operators
only, and no run evaluates it.

**`SerialProofs`** proves `NothingLost` and `RateSet`, for every baud rate up to 115200 and
every string of characters. The invariant gives, for each access the driver makes next, what
the latch, the divisor and the holding register are at that moment; the device's steps
between any two accesses change none of it that matters: while the driver waits, the holding
register can only become empty, and it stays so until the driver's own store.

Only model-checked: `AsMeant`, and with it `LineGetsText` and `CallersTold`, and everything
on `Kallsyms`, which are about what recursive definitions compute for every format and every
table of symbols; and `BootEnds`, `Returns` and `Stops`, which need fairness.

## Not modelled

* Processor entry (`boot.c` but for the extent of its mapping, `head.S`,
  `grub_head.S`): descriptor tables, address windows and stacks are processor state.
* Of the serial port: `getc`, which nothing calls, and the modem control register.
* Of `kallsyms.c`: `__sprint_symbol` and what prints through it, formatting only, and
  `kallsyms_lookup_size_offset`.
* What follows once a map of more than `E820MAX` entries has overrun `biosmap`, and entries
  of the multiboot map larger than the minimum size.
* Helpers without a caller: `init_screen`, `SCREEN_UP`, `alloc_screen_info`,
  `printk_skip_headers`, the bit and atomic operations beyond what `Bootmem` uses as sets.
* Everything under `scripts/` but `kallsyms.c`, about seven tenths of the tree's lines of C:
  kconfig with its editors, dtc and libfdt, modpost, asn1_compiler, recordmcount, copied from
  Linux to build the kernel. They are other programs. Most of the rest is headers
  (`loongarch.h` and others): register numbers, types and inline assembly. What XOS itself
  does is a few thousand lines, and those are what the models are about.

## Plan

The order puts first what everything else in the boot rests on.

1. Done: `Bootmem` with its pool and its proofs; `E820`; `SetupArch` with `FreeArea`;
   `EfiStub` and its proofs; `Console` with `Paper`, `EfiPuts`, and their proofs.
2. Done: `Vsnprintf` against `PrintfText`; `Serial`; `Printk` over both; `KallsymsTable` and
   `Kallsyms`; proofs for `Vsnprintf` and `Serial`; liveness of the boot on every map.
3. Done: proofs of `GoalFirst`; of the memory map (`E820Proofs`), with the largest type of a
   byte where entries meet in pairs; of the set-up of memory, the page tables and the zones,
   from the theorems on the parts (`SetupProofs`).
4. Done: proof of `RamExact`, for maps whose addresses and sizes have one word
   (`RegisteredExactly`), from the three invariants of `E820Proofs`; and of `TextShown`
   (`PlainTextShown`).
5. Done: proof that `put_dec`'s multiplications divide, for every number (`DecimalDigits`).
6. Left: that the digits of `Vsnprintf`, of a few bits, are those of `DecimalDigits` at the
   code's widths; and what of `Kallsyms` can be said without recursive operators.
