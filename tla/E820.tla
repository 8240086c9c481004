-------------------------------- MODULE E820 --------------------------------
(***************************************************************************)
(* The physical memory map of arch/x86/kernel/setup.c: the boot loader's   *)
(* multiboot map is copied into biosmap, sanitize_e820_map replaces        *)
(* overlapping entries of biosmap by disjoint ones, and copy_e820_map      *)
(* copies the result into e820, cutting the 640 KB - 1 MB hole out of RAM. *)
(* setup_memory_region calls the three functions in this order.  A step of *)
(* sanitize_e820_map and of copy_e820_map is one round of one of their     *)
(* loops; `stage' is the function, or the loop of sanitize_e820_map, that  *)
(* runs next.  A boot loader's map of more than E820MAX entries runs over  *)
(* biosmap; what a program does that wrote past an array is not defined,   *)
(* and the specification ends there.                                       *)
(***************************************************************************)
EXTENDS Integers, Sequences, SequencesExt

CONSTANTS
    MemoryMaps,         \* multiboot memory maps a boot loader may hand over
    WORD,               \* 2^32: one past the largest low word
    E820MAX,            \* capacity of struct e820map, and of the arrays on the stack
    HOLE_START,         \* 0xA0000
    HOLE_END            \* 0x100000

E820_RAM == 1

Entry == [addr : Nat, size : Nat, type : Nat \ {0}]

Parameters ==
    /\ MemoryMaps \subseteq Seq(Entry)
    /\ WORD \in Nat \ {0} /\ E820MAX \in Nat \ {0}
    /\ HOLE_START \in Nat /\ HOLE_END \in Nat /\ HOLE_START < HOLE_END

ASSUME MapAssumption == Parameters

VARIABLES
    mmap,               \* the multiboot map; an address and a size have two words
    biosmap,
    e820,
    stage,
    round,              \* counter of the loop that runs
    change_point,       \* the points, in the order of the pointers to them
    still_changing,
    overlap_list,       \* entries of biosmap
    last,               \* last_type and last_addr
    new_bios            \* its complete entries

locals == <<change_point, still_changing, overlap_list, last, new_bios>>
vars == <<mmap, biosmap, e820, stage, round, locals>>

-----------------------------------------------------------------------------
\* init_biosmap: only the low words of an entry's address and size are copied.
LowWords(mm) ==
    [i \in DOMAIN mm |-> [addr |-> mm[i].addr % WORD,
                          size |-> mm[i].size % WORD,
                          type |-> mm[i].type]]

\* The 64-bit sum of address and size wraps round.
Wraps(e) == e.addr + e.size >= WORD * WORD

\* Definitions marked `slip' are not the code's: each is a plausible mistake in the
\* definition that follows it, and some property must tell the two apart.

\* The maps sanitize_e820_map leaves as they are.
RefusesPairs(map) == Len(map) <= 2 \/ \E i \in DOMAIN map : Wraps(map[i]) \* slip
Refuses(map) == Len(map) < 2 \/ \E i \in DOMAIN map : Wraps(map[i])

\* Two change points for an entry that is not empty.
ChangePoints(map, i) ==
    LET e == map[i]
    IN  IF e.size = 0 THEN <<>>
        ELSE <<[addr |-> e.addr, entry |-> i], [addr |-> e.addr + e.size, entry |-> i]>>

IsStart(p) == p.addr = biosmap[p.entry].addr

\* The order of the bubble sort: by address, a start before an end.
AddrOnly(p, q) == p.addr < q.addr                                     \* slip
Precedes(p, q) ==
    \/ p.addr < q.addr
    \/ p.addr = q.addr /\ IsStart(p) /\ ~IsStart(q)

\* The end of an entry leaves the overlap list.  The loop counts the list down
\* once per entry it looks at, so it stops half way with half of the list.
ListUnchanged(list, entry) == list                                    \* slip
RemoveEntry(list, entry) ==
    [i \in 1..(Len(list) \div 2) |->
        IF list[i] = entry THEN list[Len(list) + 1 - i] ELSE list[i]]

\* The type of an overlap: the largest; 0 when nothing is there.
TypeOf(map, list) == Max({0} \cup {map[list[i]].type : i \in DOMAIN list})

\* A full new_bios table ends the loop over the change points.
NeverFull(table) == FALSE                                             \* slip
Full(table) == Len(table) >= E820MAX

\* The entry that ends where another type begins is kept only if it is memory of some
\* type and not empty.
Closed(table, type, addr, end) ==
    IF type = 0 \/ addr = end THEN table
    ELSE Append(table, [addr |-> addr, size |-> end - addr, type |-> type])

\* add_memory_region: a full table ignores the region.
AddMemoryRegion(table, start, size, type) ==
    IF Len(table) = E820MAX THEN table
    ELSE Append(table, [addr |-> start, size |-> size, type |-> type])

\* One entry of copy_e820_map: RAM loses the part between HOLE_START and HOLE_END.
WholeEntry(table, e) == AddMemoryRegion(table, e.addr, e.size, e.type) \* slip
CopyEntry(table, e) ==
    LET end   == e.addr + e.size
        holed == e.type = E820_RAM /\ e.addr < HOLE_END /\ end > HOLE_START
        below == IF e.addr < HOLE_START
                 THEN AddMemoryRegion(table, e.addr, HOLE_START - e.addr, e.type)
                 ELSE table
    IN  IF ~holed THEN AddMemoryRegion(table, e.addr, e.size, e.type)
        ELSE IF end <= HOLE_END THEN below
        ELSE AddMemoryRegion(below, HOLE_END, end - HOLE_END, e.type)

-----------------------------------------------------------------------------
Init ==
    /\ mmap \in MemoryMaps
    /\ biosmap = <<>>
    /\ e820 = <<>>
    /\ stage = "init_biosmap"
    /\ round = 1
    /\ change_point = <<>>
    /\ still_changing = FALSE
    /\ overlap_list = <<>>
    /\ last = [type |-> 0, addr |-> 0]
    /\ new_bios = <<>>

\* Every entry is copied: nothing compares their number with E820MAX.
InitBiosmap ==
    /\ stage = "init_biosmap"
    /\ biosmap' = LowWords(mmap)
    /\ stage' = IF Len(mmap) > E820MAX THEN "overrun" ELSE "sanitize_e820_map"
    /\ UNCHANGED <<mmap, e820, round, locals>>

\* sanitize_e820_map up to its loops: a map it refuses goes to copy_e820_map as it is.
CheckMap ==
    /\ stage = "sanitize_e820_map"
    /\ stage' = IF Refuses(biosmap) THEN "copy_e820_map" ELSE "record"
    /\ UNCHANGED <<mmap, biosmap, e820, round, locals>>

\* The loop that records the change points.
RecordEntry ==
    /\ stage = "record" /\ round <= Len(biosmap)
    /\ change_point' = change_point \o ChangePoints(biosmap, round)
    /\ round' = round + 1
    /\ UNCHANGED <<mmap, biosmap, e820, stage, still_changing, overlap_list, last, new_bios>>

StartSort ==
    /\ stage = "record" /\ round > Len(biosmap)
    /\ stage' = "sort"
    /\ round' = 2
    /\ UNCHANGED <<mmap, biosmap, e820, locals>>

\* One comparison of the bubble sort.
SortPoint ==
    LET p == change_point[round - 1]
        q == change_point[round]
    IN  /\ stage = "sort" /\ round <= Len(change_point)
        /\ IF Precedes(q, p)
           THEN /\ change_point' = [change_point EXCEPT ![round - 1] = q, ![round] = p]
                /\ still_changing' = TRUE
           ELSE UNCHANGED <<change_point, still_changing>>
        /\ round' = round + 1
        /\ UNCHANGED <<mmap, biosmap, e820, stage, overlap_list, last, new_bios>>

\* A pass that exchanged points is followed by another.
EndPass ==
    /\ stage = "sort" /\ round > Len(change_point)
    /\ stage' = IF still_changing THEN "sort" ELSE "sweep"
    /\ round' = IF still_changing THEN 2 ELSE 1
    /\ still_changing' = FALSE
    /\ UNCHANGED <<mmap, biosmap, e820, change_point, overlap_list, last, new_bios>>

\* One round of the loop over the change points, which makes an entry from each change
\* of type to the next.
SweepPoint ==
    LET p    == change_point[round]
        list == IF IsStart(p) THEN Append(overlap_list, p.entry)
                ELSE RemoveEntry(overlap_list, p.entry)
        type == TypeOf(biosmap, list)
    IN  /\ stage = "sweep" /\ round <= Len(change_point) /\ ~Full(new_bios)
        /\ overlap_list' = list
        /\ IF type = last.type THEN UNCHANGED <<last, new_bios>>
           ELSE /\ new_bios' = Closed(new_bios, last.type, last.addr, p.addr)
                /\ last' = [type |-> type, addr |-> IF type = 0 THEN last.addr ELSE p.addr]
        /\ round' = round + 1
        /\ UNCHANGED <<mmap, biosmap, e820, stage, change_point, still_changing>>

EndSweep ==
    /\ stage = "sweep" /\ (round > Len(change_point) \/ Full(new_bios))
    /\ biosmap' = new_bios
    /\ stage' = "copy_e820_map"
    /\ round' = 1
    /\ UNCHANGED <<mmap, e820, locals>>

\* copy_e820_map ignores a map of fewer than two entries, and an entry that wraps round
\* ends it.
Copies == Len(biosmap) >= 2 /\ round <= Len(biosmap) /\ ~Wraps(biosmap[round])

CopyRound ==
    /\ stage = "copy_e820_map" /\ Copies
    /\ e820' = CopyEntry(e820, biosmap[round])
    /\ round' = round + 1
    /\ UNCHANGED <<mmap, biosmap, stage, locals>>

EndCopy ==
    /\ stage = "copy_e820_map" /\ ~Copies
    /\ stage' = "done"
    /\ UNCHANGED <<mmap, biosmap, e820, round, locals>>

Next ==
    \/ InitBiosmap \/ CheckMap \/ RecordEntry \/ StartSort \/ SortPoint \/ EndPass
    \/ SweepPoint \/ EndSweep \/ CopyRound \/ EndCopy

Spec == Init /\ [][Next]_vars /\ WF_vars(Next)

-----------------------------------------------------------------------------
(* Properties.                                                             *)

Covers(e, x) == e.addr <= x /\ x < e.addr + e.size

\* The type a table gives byte x: the largest of the entries over it, 0 for none.
TypeAt(map, x) == Max({0} \cup {map[i].type : i \in {j \in DOMAIN map : Covers(map[j], x)}})

\* The bytes at which a table's types can change, and so all that need comparing.
Corners(map) == UNION {{map[i].addr, map[i].addr + map[i].size} : i \in DOMAIN map}

\* At most two entries of a map meet at any address, end points included.
MeetsInPairs(map) ==
    \A x \in Corners(map) :
        Cardinality({i \in DOMAIN map : map[i].size # 0 /\ map[i].addr <= x
                                            /\ x <= map[i].addr + map[i].size}) <= 2

SanitizedMap == stage \in {"copy_e820_map", "done"}

TypeOK ==
    /\ mmap \in MemoryMaps
    /\ biosmap \in Seq(Entry)
    /\ e820 \in Seq(Entry)
    /\ stage \in {"init_biosmap", "sanitize_e820_map", "record", "sort", "sweep",
                  "copy_e820_map", "done", "overrun"}
    /\ round \in Nat \ {0}
    /\ change_point \in Seq([addr : Nat, entry : Nat \ {0}])
    /\ still_changing \in BOOLEAN
    /\ overlap_list \in Seq(Nat \ {0})
    /\ last \in [type : Nat, addr : Nat]
    /\ new_bios \in Seq(Entry)

\* The table tells the type of byte x: a full one only up to its last entry.
Tells(map, x) ==
    Len(map) < E820MAX \/ x < map[Len(map)].addr + map[Len(map)].size

\* setup.c:161-162: "if there are overlapping entries, decide which "type" to use
\* (larger value takes precedence)".  Every byte keeps the largest of its types.
PrecedenceKept ==
    SanitizedMap =>
        LET old == LowWords(mmap)
        IN  \A x \in Corners(old) : Tells(biosmap, x) => TypeAt(biosmap, x) = TypeAt(old, x)

\* The same for maps in which no more than two entries meet at an address.
PrecedenceOfPairs == MeetsInPairs(LowWords(mmap)) => PrecedenceKept

\* A sanitized map is in address order and without overlaps.
InOrder ==
    SanitizedMap /\ Len(mmap) >= 2 =>
        \A i, j \in DOMAIN biosmap :
            i < j => biosmap[i].addr + biosmap[i].size <= biosmap[j].addr

\* In maps in which entries meet in pairs a sanitized map is as short as it can be:
\* entries that touch differ in type.
NoneToMerge ==
    SanitizedMap /\ Len(mmap) >= 2 /\ MeetsInPairs(LowWords(mmap)) =>
        \A i \in 1..(Len(biosmap) - 1) :
            LET e == biosmap[i]
                f == biosmap[i + 1]
            IN  e.addr + e.size = f.addr => e.type # f.type

\* What sanitize_e820_map makes of a map is ordered, disjoint and minimal.
Canonical == InOrder /\ NoneToMerge

\* No array is written past its end, but for biosmap, which is exactly when the boot
\* loader reports more than the "number of entries in E820MAP" (e820.h:16).  The two
\* points of each entry, the entries that overlap, those sanitize_e820_map makes and those
\* the hole makes more of stay within theirs.
TablesFit ==
    /\ Len(biosmap) > E820MAX <=> stage # "init_biosmap" /\ Len(mmap) > E820MAX
    /\ Len(change_point) <= 2 * E820MAX
    /\ Len(overlap_list) <= E820MAX
    /\ Len(new_bios) <= E820MAX
    /\ Len(e820) <= E820MAX

\* Copying neither adds memory nor loses any outside the hole: as far as the table
\* goes, a byte of e820 is RAM exactly if it is RAM in biosmap and not in the hole.
HoleCutOut ==
    stage = "done" /\ Len(biosmap) >= 2 =>
        \A x \in Corners(biosmap) \cup Corners(e820) \cup {HOLE_START, HOLE_END} :
            Tells(e820, x) =>
                (TypeAt(e820, x) = E820_RAM <=>
                    TypeAt(biosmap, x) = E820_RAM /\ ~(HOLE_START <= x /\ x < HOLE_END))

\* multiboot.h:87: base_addr_low holds the low 32 bits of the start address and
\* base_addr_high the high 32 bits, "64 bits in all".  Every byte that setup_memory_region
\* registers as RAM is, by its 64-bit address, memory the boot loader reported as RAM.
OnlyReportedRam ==
    stage = "done" =>
        \A e \in ToSet(e820) : e.type = E820_RAM =>
            \A x \in e.addr .. (e.addr + e.size - 1) :
                \E m \in ToSet(mmap) : m.type = E820_RAM /\ Covers(m, x)
=============================================================================
