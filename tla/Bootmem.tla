------------------------------ MODULE Bootmem ------------------------------
(***************************************************************************)
(* The boot-time physical memory allocator of mm/bootmem.c: one bit per    *)
(* page frame of the node, and a (last_pos, last_offset) pair that lets    *)
(* consecutive small allocations share a page.                             *)
(*                                                                         *)
(* Addresses are physical byte addresses: phys_to_virt only adds a         *)
(* constant.  node_boot_start is 0, the value init_bootmem always passes,  *)
(* so the byte offset of the node and the scan's `offset' are 0 too.       *)
(* BUG() calls panic_spin, which never returns: it sets panicked and the   *)
(* system takes no further step.                                           *)
(***************************************************************************)
EXTENDS Integers, Sequences, FiniteSets

CONSTANTS
    PAGE_SIZE,          \* bytes in a page frame
    MaxPfns,            \* values of max_low_pfn the node may be set up with
    Regions,            \* [addr, size] arguments of free_bootmem and reserve_bootmem
    Sizes,              \* sizes asked of the allocator
    Aligns,             \* alignments asked
    Goals,              \* goals asked
    MaxAllocs           \* bound on the number of blocks handed out

Divides(d, n) == \E k \in 1..n : n = d * k

ASSUME PageSizeAssumption == PAGE_SIZE \in Nat \ {0}

ASSUME ArgumentsAssumption ==
    /\ MaxPfns \subseteq Nat
    /\ Regions \subseteq [addr : Nat, size : Nat]
    /\ Sizes \subseteq Nat
    /\ Aligns \subseteq Nat \ {0}
    /\ Goals \subseteq Nat
    /\ MaxAllocs \in Nat

PowerOfTwo(n) == \E k \in 0..30 : n = 2^k

\* PAGE_SIZE is itself a power of two (asm/page.h), and of two powers of two
\* one divides the other.
ASSUME PowersAssumption ==
    \A a \in Aligns : PowerOfTwo(a) =>
        IF a <= PAGE_SIZE THEN Divides(a, PAGE_SIZE) ELSE Divides(PAGE_SIZE, a)

VARIABLES
    on_pgdat_list,      \* the node has been pushed on pgdat_list
    node_low_pfn,       \* first page frame past the node
    node_bootmem_map,   \* page frames whose bit is set: reserved or allocated
    last_pos,           \* page frame in which the last allocation ended
    last_offset,        \* offset of that end in the page, 0 when the page is full
    panicked,           \* a BUG was reached
    ram,                \* history: frames registered free, less those reserved
    allocs              \* history: blocks handed out, in order

bdata == <<node_low_pfn, node_bootmem_map, last_pos, last_offset>>

vars == <<on_pgdat_list, bdata, panicked, ram, allocs>>

-----------------------------------------------------------------------------
\* Definitions marked `slip' are not the code's: each is a plausible mistake in the
\* definition that follows it, and some property must tell the two apart.

PageDown(x) == x \div PAGE_SIZE

PageUpShort(x) == (x + PAGE_SIZE - 2) \div PAGE_SIZE          \* slip: one byte short
PageUp(x)      == (x + PAGE_SIZE - 1) \div PAGE_SIZE

\* x & ~PAGE_MASK.
InPage(x)   == x % PAGE_SIZE

Unaligned(x, align) == x                                     \* slip: alignment ignored
RoundDown(x, align) == (x \div align) * align                \* slip: the wrong way
RoundUp(x, align) == ((x + align - 1) \div align) * align

Init ==
    /\ on_pgdat_list = FALSE
    /\ node_low_pfn = 0
    /\ node_bootmem_map = {}
    /\ last_pos = 0
    /\ last_offset = 0
    /\ panicked = FALSE
    /\ ram = {}
    /\ allocs = <<>>

\* init_bootmem: every frame of the node starts out reserved.  Called once.
InitBootmem(pages) ==
    /\ ~on_pgdat_list
    /\ on_pgdat_list' = TRUE
    /\ node_low_pfn' = pages
    /\ node_bootmem_map' = 0..(pages - 1)
    /\ UNCHANGED <<last_pos, last_offset, panicked, ram, allocs>>

\* Every free_bootmem and reserve_bootmem of the kernel comes before its first
\* allocation (setup_memory returns before paging_init is called).
Registering == on_pgdat_list /\ ~panicked /\ allocs = <<>>

\* free_bootmem: the frames wholly inside the region become free.  Bits are
\* cleared in order up to the first frame that is free already, which is a BUG.
FreeBootmem(addr, size) ==
    LET bad     == size = 0 \/ PageDown(addr + size) > node_low_pfn
        pages   == IF bad THEN {} ELSE PageUp(addr)..(PageDown(addr + size) - 1)
        cleared == {p \in pages : \A q \in pages \ node_bootmem_map : p < q}
    IN  /\ Registering
        /\ panicked' = (bad \/ cleared # pages)
        /\ node_bootmem_map' = node_bootmem_map \ cleared
        /\ ram' = ram \cup cleared
        /\ UNCHANGED <<on_pgdat_list, node_low_pfn, last_pos, last_offset, allocs>>

\* reserve_bootmem: every frame the region touches becomes reserved; a frame
\* that is reserved already is only reported.
ReserveBootmem(addr, size) ==
    LET first == PageDown(addr)
        end   == PageUp(addr + size)
        bad   == size = 0 \/ first >= end \/ first >= node_low_pfn \/ end > node_low_pfn
        pages == IF bad THEN {} ELSE first..(end - 1)
    IN  /\ Registering
        /\ panicked' = bad
        /\ node_bootmem_map' = node_bootmem_map \cup pages
        /\ ram' = ram \ pages
        /\ UNCHANGED <<on_pgdat_list, node_low_pfn, last_pos, last_offset, allocs>>

-----------------------------------------------------------------------------
\* __alloc_bootmem_core.

\* The frame the scan starts from: the goal, rounded up to the alignment.
FromBottom(align, goal) == 0                                 \* slip: goal ignored
Preferred(align, goal) ==
    PageDown(RoundUp(IF PageDown(goal) < node_low_pfn THEN goal ELSE 0, align))

\* The stride of the scan.
Incr(align) == IF align >= PAGE_SIZE THEN PageDown(align) ELSE 1

\* A run of n frames from i, all of the node and all free.
Fits(i, n) == i + n <= node_low_pfn /\ i..(i + n - 1) \cap node_bootmem_map = {}

\* The frames the scan can stop at when it starts from frame `from'.
Candidates(from, size, align) ==
    {i \in from..(node_low_pfn - 1) :
        (i - from) % Incr(align) = 0 /\ Fits(i, PageUp(size))}

\* slip: the scan is not restarted below the goal
FoundAbove(size, align, goal) == Candidates(Preferred(align, goal), size, align)

\* The scan from the preferred frame, and when that finds nothing the scan from 0.
Found(size, align, goal) ==
    LET first == Candidates(Preferred(align, goal), size, align)
    IN  IF first # {} THEN first ELSE Candidates(0, size, align)

\* Mark the area and hand out the block, unless one of the BUG checks fires.
Hand(addr, size, align, area, bug) ==
    /\ panicked' = (bug \/ area \cap node_bootmem_map # {})
    /\ node_bootmem_map' = node_bootmem_map \cup area
    /\ allocs' = IF panicked' THEN allocs
                 ELSE Append(allocs, [addr |-> addr, size |-> size, align |-> align])

\* The block continues in the partly used page that ends where the run begins.
MergesAnywhere(start, align) == align <= PAGE_SIZE /\ last_offset # 0   \* slip
Merges(start, align) ==
    align <= PAGE_SIZE /\ last_offset # 0 /\ last_pos + 1 = start

\* A block of its own, from the start of the run.
PlaceFresh(start, size, align) ==
    LET area == start..(start + PageUp(size) - 1)
    IN  /\ ~Merges(start, align)
        /\ last_pos' = start + PageUp(size) - 1
        /\ last_offset' = InPage(size)
        /\ Hand(start * PAGE_SIZE, size, align, area, FALSE)

\* The block fits in what is left of the last page: no new frame is taken.
PlaceInTail(start, size, align) ==
    LET offset == RoundUp(last_offset, align)
    IN  /\ Merges(start, align)
        /\ size < PAGE_SIZE - offset
        /\ last_offset' = InPage(offset + size)
        /\ UNCHANGED last_pos
        /\ Hand(last_pos * PAGE_SIZE + offset, size, align, {}, offset > PAGE_SIZE)

\* The block starts in the last page and runs on into the frames found.
PlaceAcross(start, size, align) ==
    LET offset == RoundUp(last_offset, align)
        rest   == size - (PAGE_SIZE - offset)
        area   == start..(start + PageUp(rest) - 1)
    IN  /\ Merges(start, align)
        /\ size >= PAGE_SIZE - offset
        /\ last_pos' = start + PageUp(rest) - 1
        /\ last_offset' = InPage(rest)
        /\ Hand(last_pos * PAGE_SIZE + offset, size, align, area, offset > PAGE_SIZE)

\* __alloc_bootmem: a bad argument, or no room on the node, is a BUG.
AllocBootmem(size, align, goal) ==
    LET bad   == size = 0 \/ ~PowerOfTwo(align)
        found == IF bad THEN {} ELSE Found(size, align, goal)
    IN  /\ on_pgdat_list /\ ~panicked /\ Len(allocs) < MaxAllocs
        /\ \/ /\ found = {}
              /\ panicked' = TRUE
              /\ UNCHANGED <<bdata, allocs>>
           \/ \E start \in found :
                /\ \A other \in found : start <= other
                /\ \/ PlaceFresh(start, size, align)
                   \/ PlaceInTail(start, size, align)
                   \/ PlaceAcross(start, size, align)
        /\ UNCHANGED <<on_pgdat_list, node_low_pfn, ram>>

Next ==
    \/ \E pages \in MaxPfns : InitBootmem(pages)
    \/ \E r \in Regions : FreeBootmem(r.addr, r.size)
    \/ \E r \in Regions : ReserveBootmem(r.addr, r.size)
    \/ \E size \in Sizes, align \in Aligns, goal \in Goals :
            AllocBootmem(size, align, goal)

Spec == Init /\ [][Next]_vars

-----------------------------------------------------------------------------
Pool == INSTANCE BootmemPool
            WITH pool <- ram, given <- allocs, stopped <- panicked

TypeOK ==
    /\ on_pgdat_list \in BOOLEAN
    /\ node_low_pfn \in Nat
    /\ node_bootmem_map \in SUBSET Nat
    /\ last_pos \in Nat
    /\ last_offset \in 0..(PAGE_SIZE - 1)
    /\ panicked \in BOOLEAN
    /\ ram \in SUBSET Nat
    /\ allocs \in Seq(Pool!Block)

\* No two blocks that __alloc_bootmem_core handed out share a byte, whether
\* they were placed in fresh pages or merged into the page the last one ended in.
NoOverlap == Pool!PairwiseDisjoint(allocs)

\* Every byte handed out lies in a frame that free_bootmem registered and
\* reserve_bootmem did not take back: kernel, bitmap, page 0 and holes are never
\* given to a caller.
BlocksInRam == \A i \in 1..Len(allocs) : Pool!PagesOf(allocs[i]) \subseteq ram

AllocPages == UNION {Pool!PagesOf(allocs[i]) : i \in 1..Len(allocs)}

\* The bitmap loses nothing and invents nothing: a frame's bit is set exactly
\* when the frame is not usable memory or holds part of a block.
BitmapExact ==
    node_bootmem_map = ((0..(node_low_pfn - 1)) \ ram) \cup AllocPages

\* Every block has the alignment its caller asked for, merged blocks included.
BlocksAligned == \A i \in 1..Len(allocs) : allocs[i].addr % allocs[i].align = 0

\* The tail of page last_pos behind last_offset is free of every block: the
\* bytes the next merging allocation will take are nobody's.
TailFree ==
    last_offset # 0 =>
        /\ last_pos \in node_bootmem_map \cap ram
        /\ \A i \in 1..Len(allocs) :
              \/ allocs[i].addr + allocs[i].size <= last_pos * PAGE_SIZE + last_offset
              \/ allocs[i].addr >= (last_pos + 1) * PAGE_SIZE

\* What the allocator remembers between two calls is true: the bitmap as well as the tail.
RecordsExact == BitmapExact /\ TailFree

\* A correct request stops the machine only when the node has no aligned run of
\* free frames of that size, above the goal or below it: the second scan misses
\* nothing, and neither the merge's check nor the double-allocation check fires.
AllocStopsOnlyWhenFull ==
    [][\A size \in Sizes \ {0}, align \in Aligns, goal \in Goals :
          (AllocBootmem(size, align, goal) /\ PowerOfTwo(align) /\ panicked')
              => \A i \in 0..(node_low_pfn - 1) :
                    (i * PAGE_SIZE) % align = 0 => ~Fits(i, PageUp(size))]_vars

\* "We try to allocate bootmem pages above 'goal' first": when an aligned run at
\* or above a page-aligned goal is free, the block lies above the goal, or is
\* merged into the one page just below it.
GoalFirst ==
    [][\A size \in Sizes, align \in Aligns, goal \in Goals :
          (AllocBootmem(size, align, goal) /\ ~panicked' /\ goal % PAGE_SIZE = 0
            /\ \E i \in 0..(node_low_pfn - 1) :
                  i * PAGE_SIZE >= goal /\ (i * PAGE_SIZE) % align = 0
                    /\ Fits(i, PageUp(size)))
              => allocs'[Len(allocs')].addr > goal - PAGE_SIZE]_vars

\* The allocator implements the pool of disjoint, aligned blocks.
ImplementsPool == Pool!Spec
=============================================================================
