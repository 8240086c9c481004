----------------------------- MODULE SetupArch -----------------------------
(***************************************************************************)
(* The boot of the x86 port from setup_arch on: setup_memory_region (module *)
(* E820) finds the memory, setup_memory hands it to the boot allocator     *)
(* (module Bootmem), paging_init maps it and free_area_init describes it   *)
(* by zones and page structures, taking what it needs from the allocator.  *)
(* One step is one call of a component or one round of a loop; `pc' is the *)
(* function that comes next.  There is one processor, interrupts are off.  *)
(***************************************************************************)
EXTENDS FreeArea

CONSTANTS
    MemoryMaps, WORD, E820MAX,      \* of module E820
    PAGE_SIZE,
    LOW_END,            \* 640 KB: end of the memory below the ISA hole
    HIGH_MEMORY,        \* 1 MB: end of the hole, start of the kernel
    KERNEL_END,         \* physical address of _end
    MAXMEM_PFN,         \* frames the kernel can map
    PTRS_PER_PTE,       \* entries of a page table
    SMP_CACHE_BYTES     \* alignment of alloc_bootmem_node

ASSUME BootAssumption ==
    /\ PAGE_SIZE \in Nat \ {0} /\ KERNEL_END \in Nat /\ SMP_CACHE_BYTES \in Nat \ {0}
    /\ LOW_END % PAGE_SIZE = 0 /\ HIGH_MEMORY % PAGE_SIZE = 0
    /\ PAGE_SIZE <= LOW_END /\ LOW_END < HIGH_MEMORY /\ HIGH_MEMORY < KERNEL_END
    /\ MAXMEM_PFN \in Nat /\ PTRS_PER_PTE \in Nat \ {0}
    /\ MAX_DMA_PFN % 2^(MAX_ORDER - 1) = 0

VARIABLES
    mmap, biosmap, e820, stage, round, change_point, still_changing, overlap_list,
    last, new_bios,                                             \* of module E820
    on_pgdat_list, node_low_pfn, node_bootmem_map, last_pos, last_offset,
    panicked, ram, allocs,                                      \* of module Bootmem
    pc,                 \* the function that runs next
    index,              \* its loop counter
    order,              \* the counter of its inner loop over orders
    max_low_pfn,
    swapper_pg_dir,     \* the page tables set in the kernel's page directory, in order
    cr3,                \* the page directory in use: page_create's or swapper_pg_dir
    node_mem_map,       \* address of the first page structure
    node_zones,         \* size, first frame and pages_min of the zones set up so far
    page,               \* the page structures: zone and address of their frame
    buddy               \* buddy bitmaps: zone, order, address and size of each

e820_vars == <<mmap, biosmap, e820, stage, round, change_point, still_changing,
               overlap_list, last, new_bios>>
bootmem_vars == <<on_pgdat_list, node_low_pfn, node_bootmem_map, last_pos,
                  last_offset, panicked, ram, allocs>>
paging_vars == <<swapper_pg_dir, cr3>>
zone_vars == <<node_mem_map, node_zones, page, buddy>>
vars == <<e820_vars, bootmem_vars, pc, index, order, max_low_pfn, paging_vars, zone_vars>>

Map == INSTANCE E820 WITH HOLE_START <- LOW_END, HOLE_END <- HIGH_MEMORY

\* The boot makes fewer allocations than this.
AllocBound == MAXMEM_PFN + 3 * MAX_ORDER + 1

BM == INSTANCE Bootmem WITH MaxPfns <- Nat, Regions <- [addr : Nat, size : Nat],
            Sizes <- Nat, Aligns <- {PAGE_SIZE, SMP_CACHE_BYTES}, Goals <- Nat,
            MaxAllocs <- AllocBound

ASSUME PartsAssumption == Map!Parameters /\ BM!Divides(SMP_CACHE_BYTES, PAGE_SIZE)

-----------------------------------------------------------------------------
\* Definitions marked `slip' are not the code's: each is a plausible mistake in the
\* definition that follows it, and some property must tell the two apart.

PFN_DOWN(x) == x \div PAGE_SIZE
PFN_UP(x)   == (x + PAGE_SIZE - 1) \div PAGE_SIZE

StartPfn == PFN_UP(KERNEL_END)

LowestOf(e) == PFN_DOWN(e.addr)                                        \* slip
FirstPfn(e) == PFN_UP(e.addr)

\* find_max_pfn: the end of the last whole frame of RAM.
MaxPfn(map) ==
    LET ends == {PFN_DOWN(e.addr + e.size) :
                    e \in {f \in ToSet(map) : /\ f.type = Map!E820_RAM
                                              /\ PFN_UP(f.addr) < PFN_DOWN(f.addr + f.size)}}
    IN  Max({0} \cup ends)

\* find_max_low_pfn: what lies above MAXMEM is not low memory.
Clipped(pfn) == Min({MAXMEM_PFN, pfn})

\* The size init_bootmem returns: that of the allocator's own bitmap.
BitmapSize(pages) == LongAlign((pages + 8) \div 8)

\* The size of the kernel and the bitmap behind it, from HIGH_MEMORY on.
BareKernel(pages) == KERNEL_END - HIGH_MEMORY                          \* slip
FromZero(pages) == StartPfn * PAGE_SIZE + BitmapSize(pages)            \* slip
KernelSize(pages) ==
    StartPfn * PAGE_SIZE + BitmapSize(pages) + PAGE_SIZE - 1 - HIGH_MEMORY

\* The memory page_create mapped: one page table from physical address 0.
BootMapped(addr) == addr < PTRS_PER_PTE * PAGE_SIZE

Init ==
    /\ Map!Init
    /\ BM!Init
    /\ pc = "setup_memory_region"
    /\ index = 0
    /\ order = 0
    /\ max_low_pfn = 0
    /\ swapper_pg_dir = <<>>
    /\ cr3 = "pgd"
    /\ node_mem_map = 0
    /\ node_zones = <<>>
    /\ page = <<>>
    /\ buddy = <<>>

\* The call of this step returns, unless it reached a BUG.
Continue(next) == pc' = IF panicked' THEN pc ELSE next

\* setup_memory_region: its three calls.
SetupMemoryRegion ==
    /\ pc = "setup_memory_region"
    /\ Map!Next
    /\ pc' = IF stage' = "done" THEN "init_bootmem" ELSE pc
    /\ UNCHANGED <<bootmem_vars, index, order, max_low_pfn, paging_vars, zone_vars>>

\* setup_memory: up to init_bootmem, which stores max_low_pfn.
InitMemory ==
    /\ pc = "init_bootmem"
    /\ max_low_pfn' = Clipped(MaxPfn(e820))
    /\ BM!InitBootmem(max_low_pfn')
    /\ pc' = "register_bootmem_low_pages"
    /\ index' = 1
    /\ UNCHANGED <<e820_vars, order, paging_vars, zone_vars>>

\* The first frame past those of an entry that are wholly RAM and low.
LastPfn(e) == Min({max_low_pfn, PFN_DOWN(e.addr + e.size)})

Usable(e) == e.type = Map!E820_RAM /\ FirstPfn(e) < LastPfn(e)

\* The loop counter of register_bootmem_low_pages moves on in any case.
OnlyIfUsable(e, i) == IF Usable(e) THEN i + 1 ELSE i                   \* slip
After(e, i) == i + 1

\* One round of register_bootmem_low_pages.
RegisterEntry ==
    LET e == e820[index]
    IN  /\ pc = "register_bootmem_low_pages" /\ index <= Len(e820)
        /\ ~panicked
        /\ IF Usable(e)
           THEN BM!FreeBootmem(FirstPfn(e) * PAGE_SIZE, (LastPfn(e) - FirstPfn(e)) * PAGE_SIZE)
           ELSE UNCHANGED bootmem_vars
        /\ index' = IF panicked' THEN index ELSE After(e, index)
        /\ UNCHANGED <<e820_vars, pc, order, max_low_pfn, paging_vars, zone_vars>>

\* The loop is over: the kernel and the bitmap behind it are reserved.
ReserveKernel ==
    /\ pc = "register_bootmem_low_pages" /\ index > Len(e820)
    /\ BM!ReserveBootmem(HIGH_MEMORY, KernelSize(max_low_pfn))
    /\ Continue("reserve_bootmem")
    /\ UNCHANGED <<e820_vars, index, order, max_low_pfn, paging_vars, zone_vars>>

ReservePageZero ==
    /\ pc = "reserve_bootmem"
    /\ BM!ReserveBootmem(0, PAGE_SIZE)
    /\ Continue("pagetable_init")
    /\ UNCHANGED <<e820_vars, index, order, max_low_pfn, paging_vars, zone_vars>>

-----------------------------------------------------------------------------
\* The block the allocation of this step handed out; there is none after a BUG.
Given == allocs'[Len(allocs')].addr

\* pagetable_init: is low memory mapped up to its end?
DropsTail == (Len(swapper_pg_dir) + 1) * PTRS_PER_PTE > max_low_pfn    \* slip
AllMapped == Len(swapper_pg_dir) * PTRS_PER_PTE >= max_low_pfn

\* The goal of alloc_bootmem_low_pages.
HighGoal == MAX_DMA_PFN * PAGE_SIZE                                    \* slip
LowGoal == 0

\* One round of the loops of pagetable_init: one page table, set in the directory.
\* MAXMEM leaves fewer rounds than the directory has entries.
PagetableInit ==
    /\ pc = "pagetable_init" /\ ~AllMapped
    /\ BM!AllocBootmem(PAGE_SIZE, PAGE_SIZE, LowGoal)
    /\ swapper_pg_dir' = IF panicked' THEN swapper_pg_dir ELSE Append(swapper_pg_dir, Given)
    /\ UNCHANGED <<e820_vars, pc, index, order, max_low_pfn, cr3, zone_vars>>

\* The tables are complete: load_cr3.
LoadCr3 ==
    /\ pc = "pagetable_init" /\ AllMapped /\ ~panicked
    /\ cr3' = "swapper_pg_dir"
    /\ pc' = "free_area_init"
    /\ UNCHANGED <<e820_vars, bootmem_vars, index, order, max_low_pfn, swapper_pg_dir, zone_vars>>

\* alloc_bootmem_node.
AllocBootmemNode(size) ==
    BM!AllocBootmem(size, SMP_CACHE_BYTES, MAX_DMA_PFN * PAGE_SIZE)

\* free_area_init_core up to the loop over zones: mem_map.
AllocMemMap ==
    /\ pc = "free_area_init"
    /\ AllocBootmemNode(MapSize(max_low_pfn))
    /\ node_mem_map' = IF panicked' THEN 0 ELSE MapAlign(Given)
    /\ Continue("zone")
    /\ index' = ZONE_DMA
    /\ UNCHANGED <<e820_vars, order, max_low_pfn, paging_vars, node_zones, page, buddy>>

\* The page structures of a zone, as the zone loop leaves them.
PagesOfZone(j) ==
    [i \in 1..SizeOf(max_low_pfn, j) |->
        [zone |-> j, address |-> (FirstOf(max_low_pfn, j) + i - 1) * PAGE_SIZE]]

\* A zone as the first part of the zone loop leaves it: without frames only its size
\* is set.
Zone(j) ==
    LET size == SizeOf(max_low_pfn, j)
    IN  IF size = 0 THEN [size |-> 0, start |-> 0, pages_min |-> 0]
        ELSE [size |-> size, start |-> FirstOf(max_low_pfn, j), pages_min |-> PagesMin(size)]

\* The zone loop's first part, up to the page structures.
InitZone ==
    LET size == SizeOf(max_low_pfn, index)
    IN  /\ pc = "zone" /\ ~panicked /\ index \in Zones
        /\ panicked' = (size # 0
                          /\ FirstOf(max_low_pfn, index) % 2^(MAX_ORDER - 1) # 0)
        /\ node_zones' = Append(node_zones, Zone(index))
        /\ page' = IF panicked' THEN page ELSE page \o PagesOfZone(index)
        /\ Continue(IF size = 0 THEN "zone" ELSE "free_area")
        /\ index' = IF size = 0 THEN index + 1 ELSE index
        /\ order' = 0
        /\ UNCHANGED <<e820_vars, on_pgdat_list, node_low_pfn, node_bootmem_map, last_pos,
                       last_offset, ram, allocs, max_low_pfn, paging_vars, node_mem_map, buddy>>

\* The zone loop's second part: the bitmaps of a zone's orders, one after the other.
\* The last order has none.
InitFreeArea ==
    LET bytes == BuddyBytes(SizeOf(max_low_pfn, index), order)
    IN  /\ pc = "free_area"
        /\ \/ /\ order < MAX_ORDER - 1
              /\ AllocBootmemNode(bytes)
              /\ IF panicked' THEN UNCHANGED <<buddy, order>>
                 ELSE /\ buddy' = Append(buddy, [zone |-> index, order |-> order,
                                                addr |-> Given, size |-> bytes])
                      /\ order' = order + 1
              /\ UNCHANGED <<pc, index>>
           \/ /\ order = MAX_ORDER - 1 /\ ~panicked
              /\ pc' = "zone"
              /\ index' = index + 1
              /\ UNCHANGED <<bootmem_vars, buddy, order>>
        /\ UNCHANGED <<e820_vars, max_low_pfn, paging_vars, node_mem_map, node_zones, page>>

\* build_zonelists ends the boot; the lists are Zonelist(size, mask).  Its BUG needs
\* a HighMem zone with frames, which ZoneSizes never makes.
BuildZonelists ==
    /\ pc = "zone" /\ index \notin Zones
    /\ pc' = "done"
    /\ UNCHANGED <<e820_vars, bootmem_vars, index, order, max_low_pfn, paging_vars, zone_vars>>

Next ==
    \/ SetupMemoryRegion \/ InitMemory
    \/ RegisterEntry \/ ReserveKernel \/ ReservePageZero
    \/ PagetableInit \/ LoadCr3
    \/ AllocMemMap \/ InitZone \/ InitFreeArea \/ BuildZonelists

\* The one processor executes the boot without pause.
Spec == Init /\ [][Next]_vars /\ WF_vars(Next)

-----------------------------------------------------------------------------
TypeOK ==
    /\ Map!TypeOK
    /\ BM!TypeOK
    /\ pc \in {"setup_memory_region", "init_bootmem", "register_bootmem_low_pages",
               "reserve_bootmem", "pagetable_init", "free_area_init", "zone",
               "free_area", "done"}
    /\ index \in Nat
    /\ order \in 0..(MAX_ORDER - 1)
    /\ max_low_pfn \in 0..MAXMEM_PFN
    /\ swapper_pg_dir \in Seq(Nat)
    /\ cr3 \in {"pgd", "swapper_pg_dir"}
    /\ node_mem_map \in Nat
    /\ node_zones \in Seq([size : Nat, start : Nat, pages_min : 0..BALANCE_MAX])
    /\ page \in Seq([zone : Zones, address : Nat])
    /\ buddy \in Seq([zone : Zones, order : 0..(MAX_ORDER - 2), addr : Nat, size : Nat])

\* The frames of a byte range, partly covered ones included.
FramesOf(addr, size) == PFN_DOWN(addr)..(PFN_UP(addr + size) - 1)

\* What allocations must leave alone: page 0, the hole, the kernel and the bitmap
\* that init_bootmem put behind it.
TakenFrames ==
    {0} \cup PFN_DOWN(LOW_END)..(StartPfn - 1)
        \cup FramesOf(StartPfn * PAGE_SIZE, BitmapSize(max_low_pfn))

Registered == pc \notin {"setup_memory_region", "init_bootmem",
                         "register_bootmem_low_pages", "reserve_bootmem"}

\* A frame is RAM if every byte of it is: only the corners of the map need looking at.
RamFrame(map, pfn) ==
    LET first == pfn * PAGE_SIZE
    IN  \A x \in {first} \cup {c \in Map!Corners(map) : first < c /\ c < first + PAGE_SIZE} :
            Map!TypeAt(map, x) = Map!E820_RAM

\* The boot allocator's memory is exactly the low memory that the boot loader
\* reported as RAM, less what is taken: rounding and clipping lose no usable frame
\* and invent none, whatever the order and the overlaps of the reported entries.
\* (setup_memory rounds the kernel's end up and reserve_bootmem does so again: the
\* frame behind the bitmap may be lost.)
RamExact ==
    LET usable == {pfn \in 0..(max_low_pfn - 1) : RamFrame(mmap, pfn)} \ TakenFrames
    IN  Registered /\ Map!MeetsInPairs(mmap) =>
            ram \subseteq usable /\ usable \ ram \subseteq {Max(TakenFrames) + 1}

\* No block lies in page 0, the hole, the kernel or the allocator's own bitmap.
KernelKept ==
    \A i \in DOMAIN allocs : FramesOf(allocs[i].addr, allocs[i].size) \cap TakenFrames = {}

\* free_bootmem's double-free BUG and its range check are never reached: a sanitized
\* map names no frame twice and none past max_low_pfn.
RegistrationNeverPanics == panicked /\ pc = "register_bootmem_low_pages" => index > Len(e820)

\* The kernel stops while it reserves memory only if the node's RAM ends before the
\* kernel and the bitmap do.
ReserveStopsOnlyWhenShort ==
    panicked /\ pc \in {"register_bootmem_low_pages", "reserve_bootmem"} =>
        max_low_pfn * PAGE_SIZE < StartPfn * PAGE_SIZE + BitmapSize(max_low_pfn) + PAGE_SIZE

\* No BUG is met while memory is registered, but for a machine without room for the kernel.
StopsOnlyWhenShort == RegistrationNeverPanics /\ ReserveStopsOnlyWhenShort

\* pagetable_init writes each table through page_create's mapping, one page table
\* from address 0: a table beyond it would be a page fault without a handler.  A table
\* lies beyond only if every frame of RAM within that mapping holds a table already.
TablesInBootMapping ==
    \A i \in DOMAIN swapper_pg_dir :
        BootMapped(swapper_pg_dir[i]) \/
            \A pfn \in ram : BootMapped(pfn * PAGE_SIZE) =>
                \E k \in 1..i : swapper_pg_dir[k] = pfn * PAGE_SIZE

\* With swapper_pg_dir in cr3, low memory is mapped up to its end: every block,
\* every page structure and every page table stays accessible.
LowMemoryMapped ==
    cr3 = "swapper_pg_dir" =>
        \A i \in DOMAIN allocs :
            allocs[i].addr + allocs[i].size <= Len(swapper_pg_dir) * PTRS_PER_PTE * PAGE_SIZE

\* Page tables can be written before the switch of cr3, and what was allocated by then
\* can be used after it.
MemoryReachable == TablesInBootMapping /\ LowMemoryMapped

\* The array of page structures starts at a multiple of their size and ends within
\* the block that was allocated for it, wherever MAP_ALIGN moved it.
MemMapFits ==
    node_mem_map # 0 =>
        /\ node_mem_map % SIZEOF_PAGE = 0
        /\ \E i \in DOMAIN allocs :
              /\ allocs[i].addr <= node_mem_map
              /\ node_mem_map + max_low_pfn * SIZEOF_PAGE <= allocs[i].addr + allocs[i].size

\* The zones split low memory: each frame has one page structure, at its own index
\* and with its own address, of the one zone whose range holds the frame, and the
\* frames the DMA controller reaches make up the DMA zone.
PagesMatchFrames ==
    pc = "done" =>
        /\ Len(page) = max_low_pfn
        /\ \A i \in DOMAIN page :
              LET holds(j) == LET z == node_zones[j + 1]
                              IN  z.start <= i - 1 /\ i - 1 < z.start + z.size
              IN  /\ page[i].address = (i - 1) * PAGE_SIZE
                  /\ \A j \in Zones : holds(j) <=> page[i].zone = j
                  /\ page[i].zone = ZONE_DMA <=> i <= MAX_DMA_PFN

\* "Page buddy system uses index >> (i+1)" (page_alloc.c:259): the bit of every pair
\* of blocks, the last one included, is inside the bitmap of its order.
BuddyBitsFit ==
    \A b \in ToSet(buddy) :
        \A idx \in 0..(SizeOf(max_low_pfn, b.zone) - 1) :
            idx \div 2^(b.order + 1) < b.size * 8

\* free_area_init_core's arrays do not grow beyond the blocks it allocated for them.
ArraysFit == MemMapFits /\ BuddyBitsFit

\* Whatever is asked for, a fallback list holds each zone that has memory and may
\* serve the request, and no other, the highest first; a DMA request stays in ZONE_DMA.
ZonelistsSound ==
    pc = "done" =>
        \A mask \in GfpMasks :
            LET list == Zonelist([j \in Zones |-> node_zones[j + 1].size], mask)
            IN  /\ \A i, k \in DOMAIN list : i < k => list[i] > list[k]
                /\ ToSet(list) = {page[i].zone : i \in DOMAIN page}
                                    \cap (IF "__GFP_DMA" \in mask THEN {ZONE_DMA} ELSE Zones)

\* The boot ends: set up, or stopped by a BUG.
BootEnds == <>(pc = "done" \/ panicked)
=============================================================================
