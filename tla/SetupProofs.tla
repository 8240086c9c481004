---------------------------- MODULE SetupProofs ----------------------------
(***************************************************************************)
(* Proofs about the set-up of memory of module SetupArch.                  *)
(***************************************************************************)
EXTENDS SetupArch, TLAPS

\* The proofs about the parts.
BMP == INSTANCE BootmemProofs WITH MaxPfns <- Nat, Regions <- [addr : Nat, size : Nat],
            Sizes <- Nat, Aligns <- {PAGE_SIZE, SMP_CACHE_BYTES}, Goals <- Nat,
            MaxAllocs <- AllocBound

EP == INSTANCE E820Proofs WITH HOLE_START <- LOW_END, HOLE_END <- HIGH_MEMORY

-----------------------------------------------------------------------------
(* The parts' assumptions on their parameters hold.                        *)

LEMMA MapParameters == EP!Parameters
BY PartsAssumption DEF EP!Parameters, Map!Parameters, EP!Entry, Map!Entry

LEMMA PageSize == PAGE_SIZE \in Nat \ {0}
BY BootAssumption

LEMMA Arguments ==
    /\ Nat \subseteq Nat
    /\ [addr : Nat, size : Nat] \subseteq [addr : Nat, size : Nat]
    /\ {PAGE_SIZE, SMP_CACHE_BYTES} \subseteq Nat \ {0}
    /\ AllocBound \in Nat
BY BootAssumption, ZoneAssumption DEF AllocBound

LEMMA Powers ==
    \A a \in {PAGE_SIZE, SMP_CACHE_BYTES} : BMP!PowerOfTwo(a) =>
        IF a <= PAGE_SIZE THEN BMP!Divides(a, PAGE_SIZE) ELSE BMP!Divides(PAGE_SIZE, a)
<1>1. BMP!Divides(PAGE_SIZE, PAGE_SIZE)
  <2>1. 1 \in 1 .. PAGE_SIZE /\ PAGE_SIZE = PAGE_SIZE * 1
    BY PageSize
  <2> QED
    BY <2>1 DEF BMP!Divides
<1>2. BMP!Divides(SMP_CACHE_BYTES, PAGE_SIZE)
  BY PartsAssumption DEF BM!Divides, BMP!Divides
<1>3. SMP_CACHE_BYTES <= PAGE_SIZE
  <2>1. PICK k \in 1 .. PAGE_SIZE : PAGE_SIZE = SMP_CACHE_BYTES * k
    BY <1>2 DEF BMP!Divides
  <2>2. SMP_CACHE_BYTES * (k - 1) >= 0 /\ SMP_CACHE_BYTES \in Nat /\ k \in Nat
    BY BootAssumption, PageSize
  <2>3. SMP_CACHE_BYTES * (k - 1) = SMP_CACHE_BYTES * k - SMP_CACHE_BYTES
    BY <2>2
  <2> QED
    BY <2>1, <2>2, <2>3, PageSize
<1> QED
  BY <1>1, <1>2, <1>3, PageSize

-----------------------------------------------------------------------------
(* A step of a part is a step of the specification the proofs are about.   *)

LEMMA SameTypeOf ==
    ASSUME NEW map, NEW list
    PROVE  EP!TypeOf(map, list) = Map!TypeOf(map, list)
BY DEF EP!TypeOf, Map!TypeOf, EP!Max, Map!Max

LEMMA MapStep == Map!Next => EP!Next
<1>1. Map!InitBiosmap => EP!InitBiosmap
  BY DEF EP!InitBiosmap, Map!InitBiosmap, EP!LowWords, Map!LowWords, EP!locals, Map!locals
<1>2. Map!CheckMap => EP!CheckMap
  BY DEF EP!CheckMap, Map!CheckMap, EP!Refuses, Map!Refuses, EP!Wraps, Map!Wraps, EP!locals,
         Map!locals
<1>3. Map!RecordEntry => EP!RecordEntry
  BY DEF EP!RecordEntry, Map!RecordEntry, EP!ChangePoints, Map!ChangePoints
<1>4. Map!StartSort => EP!StartSort
  BY DEF EP!StartSort, Map!StartSort, EP!locals, Map!locals
<1>5. Map!SortPoint => EP!SortPoint
  BY DEF EP!SortPoint, Map!SortPoint, EP!Precedes, Map!Precedes, EP!IsStart, Map!IsStart
<1>6. Map!EndPass => EP!EndPass
  BY DEF EP!EndPass, Map!EndPass
<1>7. Map!SweepPoint => EP!SweepPoint
  BY SameTypeOf DEF EP!SweepPoint, Map!SweepPoint, EP!IsStart, Map!IsStart, EP!RemoveEntry,
         Map!RemoveEntry, EP!Full, Map!Full, EP!Closed, Map!Closed
<1>8. Map!EndSweep => EP!EndSweep
  BY DEF EP!EndSweep, Map!EndSweep, EP!Full, Map!Full, EP!locals, Map!locals
<1>9. Map!CopyRound => EP!CopyRound
  BY DEF EP!CopyRound, Map!CopyRound, EP!Copies, Map!Copies, EP!Wraps, Map!Wraps, EP!locals,
         Map!locals, EP!CopyEntry, Map!CopyEntry, EP!AddMemoryRegion, Map!AddMemoryRegion,
         EP!E820_RAM, Map!E820_RAM
<1>10. Map!EndCopy => EP!EndCopy
  BY DEF EP!EndCopy, Map!EndCopy, EP!Copies, Map!Copies, EP!Wraps, Map!Wraps, EP!locals,
         Map!locals
<1> QED
  BY <1>1, <1>2, <1>3, <1>4, <1>5, <1>6, <1>7, <1>8, <1>9, <1>10 DEF EP!Next, Map!Next

LEMMA AllocatorSteps ==
    ASSUME NEW x, NEW y, NEW z
    PROVE  /\ BM!InitBootmem(x) => BMP!InitBootmem(x)
           /\ BM!FreeBootmem(x, y) => BMP!FreeBootmem(x, y)
           /\ BM!ReserveBootmem(x, y) => BMP!ReserveBootmem(x, y)
           /\ BM!AllocBootmem(x, y, z) => BMP!AllocBootmem(x, y, z)
<1>1. BM!InitBootmem(x) => BMP!InitBootmem(x)
  BY DEF BM!InitBootmem, BMP!InitBootmem
<1>2. BM!FreeBootmem(x, y) => BMP!FreeBootmem(x, y)
  BY DEF BM!FreeBootmem, BMP!FreeBootmem, BM!Registering, BMP!Registering, BM!PageUp,
         BMP!PageUp, BM!PageDown, BMP!PageDown
<1>3. BM!ReserveBootmem(x, y) => BMP!ReserveBootmem(x, y)
  BY DEF BM!ReserveBootmem, BMP!ReserveBootmem, BM!Registering, BMP!Registering, BM!PageUp,
         BMP!PageUp, BM!PageDown, BMP!PageDown
<1>4. BM!Found(x, y, z) = BMP!Found(x, y, z)
  BY DEF BM!Found, BMP!Found, BM!Candidates, BMP!Candidates, BM!Preferred, BMP!Preferred,
         BM!Fits, BMP!Fits, BM!Incr, BMP!Incr, BM!PageUp, BMP!PageUp, BM!PageDown,
         BMP!PageDown, BM!RoundUp, BMP!RoundUp
<1>5. ASSUME NEW start
      PROVE  /\ BM!PlaceFresh(start, x, y) => BMP!PlaceFresh(start, x, y)
             /\ BM!PlaceInTail(start, x, y) => BMP!PlaceInTail(start, x, y)
             /\ BM!PlaceAcross(start, x, y) => BMP!PlaceAcross(start, x, y)
  BY DEF BM!PlaceFresh, BMP!PlaceFresh, BM!PlaceInTail, BMP!PlaceInTail, BM!PlaceAcross,
         BMP!PlaceAcross, BM!Hand, BMP!Hand, BM!Merges, BMP!Merges, BM!PageUp, BMP!PageUp,
         BM!InPage, BMP!InPage, BM!RoundUp, BMP!RoundUp
<1>6. BM!AllocBootmem(x, y, z) => BMP!AllocBootmem(x, y, z)
  BY <1>4, <1>5 DEF BM!AllocBootmem, BMP!AllocBootmem, BM!PowerOfTwo, BMP!PowerOfTwo, BM!bdata,
         BMP!bdata
<1> QED
  BY <1>1, <1>2, <1>3, <1>6

-----------------------------------------------------------------------------
(* Numbers.                                                                *)

LEMMA DivMod ==
    ASSUME NEW x \in Nat, NEW d \in Nat \ {0}
    PROVE  /\ x \div d \in Nat
           /\ (x \div d) * d <= x
           /\ x < (x \div d) * d + d
           /\ x % d = x - (x \div d) * d
           /\ x % d \in 0 .. d - 1
BY PageSize, Arguments, Powers, BMP!DivMod

LEMMA MultOrder ==
    ASSUME NEW d \in Nat \ {0}, NEW p \in Int, NEW q \in Int, p < q
    PROVE  p * d + d <= q * d
BY PageSize, Arguments, Powers, BMP!MultOrder

LEMMA MultipleMod ==
    ASSUME NEW a \in Nat \ {0}, NEW k \in Nat
    PROVE  (k * a) % a = 0
BY PageSize, Arguments, Powers, BMP!MultipleMod

LEMMA PowerPositive ==
    /\ MAX_ORDER \in Nat \ {0}
    /\ \A k \in 0 .. MAX_ORDER : 2^k \in Nat \ {0} /\ 2^(k + 3) = 8 * 2^k
BY ZoneAssumption, PowersOfTwo

\* The lesser of two numbers.
LEMMA MinOfTwo ==
    ASSUME NEW a \in Nat, NEW b \in Nat
    PROVE  /\ Min({a, b}) \in Nat /\ Min({a, b}) <= a /\ Min({a, b}) <= b
           /\ Min({a, b}) = a \/ Min({a, b}) = b
<1>1. \E x \in {a, b} : \A y \in {a, b} : x <= y
  <2>1. CASE a <= b
    BY <2>1
  <2>2. CASE ~(a <= b)
    BY <2>2
  <2> QED
    BY <2>1, <2>2
<1> QED
  BY <1>1 DEF Min

\* The frames of bytes.
LEMMA FrameBounds ==
    ASSUME NEW n \in Nat
    PROVE  /\ PFN_DOWN(n) \in Nat /\ PFN_UP(n) \in Nat
           /\ PFN_DOWN(n) * PAGE_SIZE <= n /\ n < PFN_DOWN(n) * PAGE_SIZE + PAGE_SIZE
           /\ n <= PFN_UP(n) * PAGE_SIZE /\ PFN_UP(n) * PAGE_SIZE < n + PAGE_SIZE
<1> DEFINE up == n + PAGE_SIZE - 1
<1>1. up \in Nat
  BY PageSize
<1>2. PFN_UP(n) = up \div PAGE_SIZE /\ PFN_DOWN(n) = n \div PAGE_SIZE
  BY DEF PFN_UP, PFN_DOWN
<1>3. /\ PFN_UP(n) \in Nat /\ PFN_UP(n) * PAGE_SIZE <= up
      /\ up < PFN_UP(n) * PAGE_SIZE + PAGE_SIZE
  <2> HIDE DEF up
  <2> QED
    BY <1>1, <1>2, PageSize, DivMod
<1>4. /\ PFN_DOWN(n) \in Nat /\ PFN_DOWN(n) * PAGE_SIZE <= n
      /\ n < PFN_DOWN(n) * PAGE_SIZE + PAGE_SIZE
  BY <1>2, PageSize, DivMod
<1>5. PFN_UP(n) * PAGE_SIZE \in Nat
  BY <1>3, PageSize
<1> QED
  BY <1>3, <1>4, <1>5, PageSize

\* Frames are ordered as their first bytes are.
LEMMA FrameOrder ==
    ASSUME NEW p \in Nat, NEW q \in Nat
    PROVE  /\ p * PAGE_SIZE \in Nat /\ q * PAGE_SIZE \in Nat
           /\ p < q => p * PAGE_SIZE + PAGE_SIZE <= q * PAGE_SIZE
           /\ p <= q => p * PAGE_SIZE <= q * PAGE_SIZE
<1>1. p * PAGE_SIZE \in Nat /\ q * PAGE_SIZE \in Nat
  BY PageSize
<1>2. p < q => p * PAGE_SIZE + PAGE_SIZE <= q * PAGE_SIZE
  BY PageSize, MultOrder
<1> QED
  BY <1>1, <1>2, PageSize

LEMMA DownOrder ==
    ASSUME NEW m \in Nat, NEW n \in Nat, m <= n
    PROVE  PFN_DOWN(m) <= PFN_DOWN(n) /\ PFN_DOWN(m) <= PFN_UP(n)
<1>1. PFN_DOWN(m) \in Nat /\ PFN_DOWN(m) * PAGE_SIZE <= m
  BY FrameBounds
<1>2. /\ PFN_DOWN(n) \in Nat /\ n < PFN_DOWN(n) * PAGE_SIZE + PAGE_SIZE
      /\ PFN_UP(n) \in Nat /\ n <= PFN_UP(n) * PAGE_SIZE
  BY FrameBounds
<1>3. ~(PFN_DOWN(n) < PFN_DOWN(m))
  <2>1. PFN_DOWN(n) < PFN_DOWN(m) => PFN_DOWN(n) * PAGE_SIZE + PAGE_SIZE <= PFN_DOWN(m) * PAGE_SIZE
    BY <1>1, <1>2, FrameOrder
  <2>2. PFN_DOWN(n) * PAGE_SIZE \in Nat /\ PFN_DOWN(m) * PAGE_SIZE \in Nat
    BY <1>1, <1>2, PageSize
  <2> QED
    BY <1>1, <1>2, <2>1, <2>2, PageSize
<1>4. ~(PFN_UP(n) < PFN_DOWN(m))
  <2>1. PFN_UP(n) < PFN_DOWN(m) => PFN_UP(n) * PAGE_SIZE + PAGE_SIZE <= PFN_DOWN(m) * PAGE_SIZE
    BY <1>1, <1>2, FrameOrder
  <2>2. PFN_UP(n) * PAGE_SIZE \in Nat /\ PFN_DOWN(m) * PAGE_SIZE \in Nat
    BY <1>1, <1>2, PageSize
  <2> QED
    BY <1>1, <1>2, <2>1, <2>2, PageSize
<1> QED
  BY <1>1, <1>2, <1>3, <1>4

-----------------------------------------------------------------------------
(* The arithmetic of free_area_init_core.                                 *)

\* The frames of a zone.
FramesIn(low, j) == FirstOf(low, j) .. FirstOf(low, j) + SizeOf(low, j) - 1

\* free_area_init_core: mem_map starts at a multiple of the page structure's size, not below
\* its block, and one structure for each frame ends inside the block: the structure that
\* MapSize asks for in addition pays for the alignment.
THEOREM MapFits ==
    ASSUME NEW total \in Nat, NEW block \in Nat
    PROVE  /\ MapAlign(block) % SIZEOF_PAGE = 0
           /\ block <= MapAlign(block)
           /\ MapAlign(block) + total * SIZEOF_PAGE < block + MapSize(total)
<1>1. SIZEOF_PAGE \in Nat \ {0}
  BY ZoneAssumption
<1> DEFINE q == block \div SIZEOF_PAGE
           r == block % SIZEOF_PAGE
<1>2. q \in Nat /\ r \in 0 .. SIZEOF_PAGE - 1 /\ block = q * SIZEOF_PAGE + r
  <2>1. q \in Nat /\ r \in 0 .. SIZEOF_PAGE - 1 /\ r = block - q * SIZEOF_PAGE
    BY <1>1, DivMod
  <2> HIDE DEF q
  <2> QED
    BY <2>1, <1>1
<1>3. MapSize(total) = total * SIZEOF_PAGE + SIZEOF_PAGE
  BY <1>1 DEF MapSize
<1>4. total * SIZEOF_PAGE \in Nat
  BY <1>1
<1> HIDE DEF q
<1>5. CASE r = 0
  <2>1. MapAlign(block) = block
    BY <1>5 DEF MapAlign
  <2> QED
    BY <2>1, <1>1, <1>3, <1>4, <1>5
<1>6. CASE r # 0
  <2>1. MapAlign(block) = block + SIZEOF_PAGE - r
    BY <1>6 DEF MapAlign
  <2>2. MapAlign(block) = (q + 1) * SIZEOF_PAGE
    BY <2>1, <1>1, <1>2
  <2>3. MapAlign(block) % SIZEOF_PAGE = 0
    BY <2>2, <1>1, <1>2, MultipleMod
  <2> QED
    BY <2>1, <2>3, <1>1, <1>2, <1>3, <1>4, <1>6
<1> QED
  BY <1>5, <1>6

-----------------------------------------------------------------------------
\* The zones follow each other and end with low memory.
LEMMA Layout ==
    ASSUME NEW low \in Nat
    PROVE  \E n \in 0 .. low :
               /\ SizeOf(low, ZONE_DMA) = n /\ FirstOf(low, ZONE_DMA) = 0
               /\ SizeOf(low, ZONE_NORMAL) = low - n /\ FirstOf(low, ZONE_NORMAL) = n
               /\ SizeOf(low, ZONE_HIGHMEM) = 0 /\ FirstOf(low, ZONE_HIGHMEM) = low
<1>1. MAX_DMA_PFN \in Nat
  BY ZoneAssumption
<1>2. ZoneSizes(low)[1] \in 0 .. low /\ ZoneSizes(low)[2] = low - ZoneSizes(low)[1]
        /\ ZoneSizes(low)[3] = 0
  <2>1. CASE low < MAX_DMA_PFN
    BY <2>1, <1>1 DEF ZoneSizes
  <2>2. CASE ~(low < MAX_DMA_PFN)
    BY <2>2, <1>1 DEF ZoneSizes
  <2> QED
    BY <2>1, <2>2
<1>3. /\ SizeOf(low, ZONE_DMA) = ZoneSizes(low)[1]
      /\ SizeOf(low, ZONE_NORMAL) = ZoneSizes(low)[2]
      /\ SizeOf(low, ZONE_HIGHMEM) = ZoneSizes(low)[3]
  BY DEF SizeOf, ZONE_DMA, ZONE_NORMAL, ZONE_HIGHMEM
<1>4. /\ FirstOf(low, ZONE_DMA) = 0
      /\ FirstOf(low, ZONE_NORMAL) = SizeOf(low, ZONE_DMA)
      /\ FirstOf(low, ZONE_HIGHMEM) = SizeOf(low, ZONE_DMA) + SizeOf(low, ZONE_NORMAL)
  BY DEF FirstOf, ZONE_DMA, ZONE_NORMAL, ZONE_HIGHMEM
<1> QED
  BY <1>2, <1>3, <1>4

\* zone_sizes_init and the loop of free_area_init_core: each frame of low memory is in one
\* zone and in no other, whichever side of the DMA limit the memory ends.
THEOREM ZonesSplit ==
    ASSUME NEW low \in Nat, NEW frame \in 0 .. low - 1
    PROVE  /\ \E j \in Zones : frame \in FramesIn(low, j)
           /\ \A i, j \in Zones : frame \in FramesIn(low, i) \cap FramesIn(low, j) => i = j
<1>1. PICK n \in 0 .. low :
        /\ SizeOf(low, ZONE_DMA) = n /\ FirstOf(low, ZONE_DMA) = 0
        /\ SizeOf(low, ZONE_NORMAL) = low - n /\ FirstOf(low, ZONE_NORMAL) = n
        /\ SizeOf(low, ZONE_HIGHMEM) = 0 /\ FirstOf(low, ZONE_HIGHMEM) = low
  BY Layout
<1>2. /\ frame \in FramesIn(low, ZONE_DMA) <=> frame < n
      /\ frame \in FramesIn(low, ZONE_NORMAL) <=> ~(frame < n)
      /\ frame \notin FramesIn(low, ZONE_HIGHMEM)
  BY <1>1 DEF FramesIn
<1>3. \A j \in Zones : j = ZONE_DMA \/ j = ZONE_NORMAL \/ j = ZONE_HIGHMEM
  BY DEF Zones, ZONE_DMA, ZONE_NORMAL, ZONE_HIGHMEM
<1>4. ZONE_DMA \in Zones /\ ZONE_NORMAL \in Zones
  BY DEF Zones, ZONE_DMA, ZONE_NORMAL, ZONE_HIGHMEM
<1> QED
  BY <1>2, <1>3, <1>4

-----------------------------------------------------------------------------
\* A bitmap has a bit for the last pair of blocks, which is the page's index shifted by
\* order + 1, and is made of whole longs.  `pair' stands for 2^(order + 1).
LEMMA BitOfLastPair ==
    ASSUME NEW size \in Nat \ {0}, NEW k \in Nat,
           NEW pair \in Nat \ {0}, 2^(k + 4) = 8 * pair
    PROVE  /\ (size - 1) \div pair < 8 * BuddyBytes(size, k)
           /\ BuddyBytes(size, k) % LONG_BYTES = 0
<1>1. LONG_BYTES \in Nat \ {0}
  BY ZoneAssumption
<1> DEFINE top == size - 1
           bytes == top \div (8 * pair) + 1
           longs == (bytes + LONG_BYTES - 1) \div LONG_BYTES
<1>2. BuddyBytes(size, k) = longs * LONG_BYTES
  BY DEF BuddyBytes, LongAlign
<1>3. top \in Nat /\ 8 * pair \in Nat \ {0}
  OBVIOUS
<1>4. bytes \in Nat \ {0} /\ top < bytes * (8 * pair)
  <2> DEFINE m == top \div (8 * pair)
  <2>1. m \in Nat /\ top < m * (8 * pair) + 8 * pair
    BY <1>3, DivMod
  <2> HIDE DEF m
  <2>2. (m + 1) * (8 * pair) = m * (8 * pair) + 8 * pair
    BY <2>1, <1>3
  <2> QED
    BY <2>1, <2>2 DEF m
<1>5. longs \in Nat /\ bytes <= longs * LONG_BYTES
  <2> DEFINE x == bytes + LONG_BYTES - 1
  <2>1. x \in Nat
    BY <1>1, <1>4
  <2>2. longs \in Nat /\ x < longs * LONG_BYTES + LONG_BYTES
    BY <1>1, <2>1, DivMod
  <2> HIDE DEF longs, bytes
  <2> QED
    BY <2>2, <1>1, <1>4 DEF x
<1>6. top \div pair < 8 * bytes
  <2> DEFINE m == top \div pair
  <2>1. m \in Nat /\ m * pair <= top
    BY <1>3, DivMod
  <2>2. bytes * (8 * pair) = (8 * bytes) * pair
    BY <1>4
  <2> HIDE DEF m, bytes, top
  <2>3. SUFFICES ASSUME 8 * bytes <= m PROVE FALSE
    BY <2>1, <1>4 DEF m
  <2>4. (8 * bytes) * pair <= m * pair
    <3>1. CASE 8 * bytes = m
      BY <3>1, <1>4
    <3>2. CASE 8 * bytes < m
      <4>1. (8 * bytes) * pair + pair <= m * pair
        BY <3>2, <1>4, <2>1, MultOrder
      <4>2. (8 * bytes) * pair \in Int /\ m * pair \in Int
        BY <1>4, <2>1
      <4> QED
        BY <4>1, <4>2
    <3> QED
      BY <2>3, <3>1, <3>2, <2>1, <1>4
  <2> QED
    BY <2>1, <2>2, <2>4, <1>3, <1>4
<1>7. (longs * LONG_BYTES) % LONG_BYTES = 0
  BY <1>1, <1>5, MultipleMod
<1>8. top \div pair \in Nat
  BY <1>3, DivMod
<1> QED
  <2> HIDE DEF longs, bytes
  <2> QED
    BY <1>2, <1>4, <1>5, <1>6, <1>7, <1>8, <1>1

-----------------------------------------------------------------------------
(* The parts and the control between them.                                 *)

Early        == {"setup_memory_region", "init_bootmem"}
Registration == {"register_bootmem_low_pages", "reserve_bootmem"}
Later        == {"pagetable_init", "free_area_init", "zone", "free_area", "done"}

\* Where the boot has got to, and what the allocator knows by then.
Control ==
    /\ pc \in Early \cup Registration \cup Later
    /\ index \in Nat
    /\ pc = "register_bootmem_low_pages" => index # 0
    /\ pc = "zone" => index \in 0 .. 3
    /\ pc = "free_area" => index \in Zones /\ SizeOf(max_low_pfn, index) # 0
    /\ order \in 0 .. MAX_ORDER - 1
    /\ max_low_pfn \in 0 .. MAXMEM_PFN
    /\ stage = "done" <=> pc # "setup_memory_region"
    /\ pc \in Early => ~on_pgdat_list /\ ~panicked
    /\ pc \notin Early => on_pgdat_list /\ node_low_pfn = max_low_pfn
    /\ pc \in Early \cup Registration => allocs = <<>>

PartsInv == EP!IInv /\ BMP!IInv /\ Control

\* The memory map is as far as find_max_pfn looks a sequence of entries of known types.
LEMMA MapEntry ==
    ASSUME NEW map \in Seq(EP!Entry), NEW i \in DOMAIN map
    PROVE  /\ map[i].addr \in Nat /\ map[i].size \in Nat
           /\ EP!End(map[i]) = map[i].addr + map[i].size
           /\ map[i].addr + map[i].size \in Nat
<1>1. map[i].addr \in Nat /\ map[i].size \in Nat
  BY MapParameters, EP!EntryTypes
<1> QED
  BY <1>1 DEF EP!End

LEMMA MaxPfnNat ==
    ASSUME NEW map \in Seq(EP!Entry)
    PROVE  /\ MaxPfn(map) \in Nat
           /\ MaxPfn(map) # 0 =>
                \E i \in DOMAIN map : /\ map[i].type = Map!E820_RAM
                                      /\ PFN_UP(map[i].addr) < MaxPfn(map)
                                      /\ MaxPfn(map) = PFN_DOWN(map[i].addr + map[i].size)
<1> DEFINE s == [i \in DOMAIN map |-> PFN_DOWN(map[i].addr + map[i].size)]
           ends == {PFN_DOWN(e.addr + e.size) :
                       e \in {f \in ToSet(map) : /\ f.type = Map!E820_RAM
                                                 /\ PFN_UP(f.addr) < PFN_DOWN(f.addr + f.size)}}
           S == {0} \cup ends
<1>1. \A i \in DOMAIN map : s[i] \in Nat
  BY MapEntry, FrameBounds
<1>2. s \in Seq(Nat)
  <2>1. DOMAIN map = 1 .. Len(map) /\ Len(map) \in Nat
    OBVIOUS
  <2> QED
    BY <1>1, <2>1
<1>3. PICK b \in Nat : \A i \in DOMAIN s : s[i] <= b
  <2> HIDE DEF s
  <2> QED
    BY <1>2, MapParameters, EP!SeqBounded
<1>4. \A x \in S : x \in Nat /\ x <= b
  <2> SUFFICES ASSUME NEW x \in ends PROVE x \in Nat /\ x <= b
    OBVIOUS
  <2>1. PICK e \in ToSet(map) : x = PFN_DOWN(e.addr + e.size)
    OBVIOUS
  <2>2. PICK i \in DOMAIN map : e = map[i]
    BY <2>1 DEF ToSet
  <2>3. x = s[i]
    BY <2>1, <2>2
  <2> QED
    BY <1>1, <1>3, <2>2, <2>3
<1>5. MaxPfn(map) = EP!Max(S)
  BY DEF MaxPfn, EP!Max, Max
<1>6. S \in SUBSET Nat /\ S # {}
  BY <1>4
<1>7. EP!Max(S) \in S
  <2> HIDE DEF S
  <2> QED
    BY <1>4, <1>6, MapParameters, EP!MaxOfBounded
<1>8. EP!Max(S) # 0 => EP!Max(S) \in ends
  <2> HIDE DEF ends
  <2> QED
    BY <1>7
<1>9. ASSUME NEW x \in ends
      PROVE  \E i \in DOMAIN map : /\ map[i].type = Map!E820_RAM
                                   /\ PFN_UP(map[i].addr) < x
                                   /\ x = PFN_DOWN(map[i].addr + map[i].size)
  BY DEF ToSet
<1> HIDE DEF S, ends
<1> QED
  BY <1>5, <1>6, <1>7, <1>8, <1>9

LEMMA ClippedBounds ==
    ASSUME NEW n \in Nat
    PROVE  Clipped(n) \in 0 .. MAXMEM_PFN
<1>1. MAXMEM_PFN \in Nat
  BY BootAssumption
<1> QED
  BY <1>1, MinOfTwo DEF Clipped

\* A step of setup_memory_region leaves the allocator alone, and the rest of the boot
\* leaves the memory map alone.
LEMMA MapKept == PartsInv /\ [Next]_vars => EP!IInv'
<1> SUFFICES ASSUME PartsInv, [Next]_vars PROVE EP!IInv'
  OBVIOUS
<1>0. EP!IInv
  BY DEF PartsInv
<1>1. CASE SetupMemoryRegion
  <2>1. EP!Next
    BY <1>1, MapStep DEF SetupMemoryRegion
  <2> QED
    BY <1>0, <2>1, MapParameters, EP!NextIInv
<1>2. CASE ~SetupMemoryRegion
  <2>1. UNCHANGED e820_vars
    BY <1>2 DEF Next, vars, InitMemory, RegisterEntry, ReserveKernel, ReservePageZero,
                PagetableInit, LoadCr3, AllocMemMap, InitZone, InitFreeArea, BuildZonelists
  <2>2. UNCHANGED EP!vars
    BY <2>1 DEF e820_vars, EP!vars, EP!locals
  <2> QED
    BY <1>0, <2>2, MapParameters, EP!StutterStep
<1> QED
  BY <1>1, <1>2

\* What free_area_init_core asks for is a number of bytes.
LEMMA LongAlignNat ==
    ASSUME NEW x \in Nat
    PROVE  LongAlign(x) \in Nat /\ x <= LongAlign(x)
<1> DEFINE y == x + LONG_BYTES - 1
           longs == y \div LONG_BYTES
<1>1. LONG_BYTES \in Nat \ {0}
  BY ZoneAssumption
<1>2. y \in Nat
  BY <1>1
<1>3. longs \in Nat /\ y < longs * LONG_BYTES + LONG_BYTES
  <2> HIDE DEF y
  <2> QED
    BY <1>1, <1>2, DivMod
<1>4. LongAlign(x) = longs * LONG_BYTES
  BY DEF LongAlign
<1>5. longs * LONG_BYTES \in Nat
  <2> HIDE DEF longs
  <2> QED
    BY <1>1, <1>3
<1> QED
  <2> HIDE DEF longs
  <2> QED
    BY <1>1, <1>3, <1>4, <1>5

LEMMA BuddyBytesNat ==
    ASSUME NEW size \in Nat \ {0}, NEW k \in Nat, NEW pair \in Nat \ {0}, 2^(k + 4) = 8 * pair
    PROVE  BuddyBytes(size, k) \in Nat
<1> DEFINE top == size - 1
           d == 8 * pair
<1>1. top \in Nat /\ d \in Nat \ {0}
  OBVIOUS
<1>2. top \div d \in Nat
  <2> HIDE DEF top, d
  <2> QED
    BY <1>1, DivMod
<1>3. BuddyBytes(size, k) = LongAlign(top \div d + 1)
  BY DEF BuddyBytes
<1>4. top \div d + 1 \in Nat
  <2> HIDE DEF top, d
  <2> QED
    BY <1>2
<1> QED
  <2> HIDE DEF top, d
  <2> QED
    BY <1>3, <1>4, LongAlignNat

LEMMA ZoneSizeNat ==
    ASSUME NEW low \in Nat, NEW j \in Zones
    PROVE  SizeOf(low, j) \in Nat /\ FirstOf(low, j) \in Nat
BY Layout DEF Zones, ZONE_DMA, ZONE_NORMAL, ZONE_HIGHMEM

LEMMA PairOfOrder ==
    ASSUME NEW k \in 0 .. MAX_ORDER - 2
    PROVE  2^(k + 1) \in Nat \ {0} /\ 2^(k + 4) = 8 * 2^(k + 1)
<1>1. MAX_ORDER \in Nat \ {0} /\ k + 1 \in 0 .. MAX_ORDER
  BY PowerPositive
<1>2. 2^(k + 1) \in Nat \ {0} /\ 2^((k + 1) + 3) = 8 * 2^(k + 1)
  BY <1>1, PowerPositive
<1>3. (k + 1) + 3 = k + 4
  BY <1>1
<1> QED
  BY <1>2, <1>3

\* The bitmap of every order of a zone with frames has a bit for the last pair of blocks and
\* is made of whole longs.
THEOREM BitForEveryPair ==
    ASSUME NEW size \in Nat \ {0}, NEW k \in 0 .. MAX_ORDER - 2
    PROVE  /\ (size - 1) \div 2^(k + 1) < 8 * BuddyBytes(size, k)
           /\ BuddyBytes(size, k) % LONG_BYTES = 0
<1> DEFINE pair == 2^(k + 1)
<1>1. k \in Nat /\ pair \in Nat \ {0} /\ 2^(k + 4) = 8 * pair
  BY PairOfOrder, ZoneAssumption
<1> HIDE DEF pair
<1>2. (size - 1) \div pair < 8 * BuddyBytes(size, k) /\ BuddyBytes(size, k) % LONG_BYTES = 0
  BY <1>1, BitOfLastPair
<1> QED
  BY <1>2 DEF pair

LEMMA Appended ==
    ASSUME NEW S, NEW s \in Seq(S), NEW e \in S, NEW t, t = Append(s, e)
    PROVE  /\ t \in Seq(S) /\ Len(t) = Len(s) + 1 /\ Len(s) \in Nat
           /\ DOMAIN s = 1 .. Len(s) /\ DOMAIN t = 1 .. Len(s) + 1
           /\ t[Len(s) + 1] = e
           /\ \A i \in DOMAIN s : t[i] = s[i]
  OBVIOUS

\* A call of the allocator that returns hands out one block, of the size and the alignment
\* asked for; one that does not return hands out none.
LEMMA Allocated ==
    ASSUME BMP!IInv, NEW size \in Nat, NEW align \in {PAGE_SIZE, SMP_CACHE_BYTES},
           NEW goal \in Nat, BM!AllocBootmem(size, align, goal)
    PROVE  /\ ~panicked /\ on_pgdat_list
           /\ UNCHANGED <<on_pgdat_list, node_low_pfn, ram>>
           /\ panicked' => allocs' = allocs
           /\ ~panicked' =>
                /\ allocs' = Append(allocs, [addr |-> Given, size |-> size, align |-> align])
                /\ Given \in Nat
<1>1. BMP!AllocBootmem(size, align, goal)
  BY AllocatorSteps
<1>2. /\ on_pgdat_list
      /\ UNCHANGED <<on_pgdat_list, node_low_pfn, ram>>
      /\ \/ /\ panicked' = TRUE /\ UNCHANGED <<BMP!bdata, allocs>>
            /\ size = 0 \/ ~BMP!PowerOfTwo(align) \/ BMP!Found(size, align, goal) = {}
         \/ panicked' = FALSE /\ \E new, area : BMP!Handed(new, area)
  BY <1>1, PageSize, Arguments, Powers, BMP!AllocStep
<1>3. ~panicked
  BY <1>1 DEF BMP!AllocBootmem
<1>4. panicked' => allocs' = allocs
  BY <1>2
<1>5. ASSUME ~panicked'
      PROVE  /\ allocs' = Append(allocs, [addr |-> Given, size |-> size, align |-> align])
             /\ Given \in Nat
  <2>1. PICK new, area : BMP!Handed(new, area)
    BY <1>2, <1>5
  <2>2. allocs' = Append(allocs, new) /\ new.addr \in Nat
    BY <2>1 DEF BMP!Handed, BMP!Pool!Block
  <2>3. \E x : allocs' = Append(allocs, [addr |-> x, size |-> size, align |-> align])
    BY <1>1, <1>2, <1>5, <2>2
       DEF BMP!AllocBootmem, BMP!PlaceFresh, BMP!PlaceInTail, BMP!PlaceAcross, BMP!Hand
  <2>4. allocs \in Seq(BMP!Pool!Block)
    BY DEF BMP!IInv, BMP!TypeOK
  <2>5. PICK x : allocs' = Append(allocs, [addr |-> x, size |-> size, align |-> align])
    BY <2>3
  <2>6. Len(allocs') = Len(allocs) + 1 /\ allocs'[Len(allocs) + 1] = new
    BY <2>1, <2>2, <2>4, Appended DEF BMP!Handed
  <2>7. Given = new.addr
    BY <2>6 DEF Given
  <2>8. allocs'[Len(allocs) + 1] = [addr |-> x, size |-> size, align |-> align]
    BY <2>4, <2>5
  <2>9. Given = x
    BY <2>6, <2>7, <2>8
  <2> QED
    BY <2>2, <2>5, <2>9, <2>7
<1> QED
  BY <1>2, <1>3, <1>4, <1>5

\* The low frames that are wholly inside an entry.
LEMMA EntryFrames ==
    ASSUME NEW e, e.addr \in Nat, e.size \in Nat, max_low_pfn \in Nat
    PROVE  /\ FirstPfn(e) \in Nat /\ LastPfn(e) \in Nat
           /\ FirstPfn(e) * PAGE_SIZE \in Nat /\ e.addr <= FirstPfn(e) * PAGE_SIZE
           /\ LastPfn(e) <= max_low_pfn
           /\ LastPfn(e) * PAGE_SIZE \in Nat /\ LastPfn(e) * PAGE_SIZE <= e.addr + e.size
<1> DEFINE end == e.addr + e.size
<1>1. end \in Nat
  OBVIOUS
<1>2. PFN_DOWN(end) \in Nat /\ PFN_DOWN(end) * PAGE_SIZE <= end
  <2> HIDE DEF end
  <2> QED
    BY <1>1, FrameBounds
<1>3. FirstPfn(e) \in Nat /\ e.addr <= FirstPfn(e) * PAGE_SIZE
  BY FrameBounds DEF FirstPfn
<1>4. LastPfn(e) \in Nat /\ LastPfn(e) <= max_low_pfn /\ LastPfn(e) <= PFN_DOWN(end)
  BY <1>2, MinOfTwo DEF LastPfn
<1>5. LastPfn(e) * PAGE_SIZE <= PFN_DOWN(end) * PAGE_SIZE
  BY <1>2, <1>4, FrameOrder
<1>6. /\ FirstPfn(e) * PAGE_SIZE \in Nat /\ LastPfn(e) * PAGE_SIZE \in Nat
      /\ PFN_DOWN(end) * PAGE_SIZE \in Nat
  BY <1>2, <1>3, <1>4, FrameOrder
<1> QED
  <2>1. LastPfn(e) * PAGE_SIZE <= end
    <3> HIDE DEF end
    <3> QED
      BY <1>1, <1>2, <1>5, <1>6
  <2> QED
    BY <1>3, <1>4, <1>6, <2>1

\* The kernel ends behind the hole, with room for the bitmap behind it.
LEMMA KernelEnd ==
    ASSUME NEW pages \in Nat
    PROVE  /\ StartPfn \in Nat /\ StartPfn * PAGE_SIZE \in Nat /\ HIGH_MEMORY \in Nat
           /\ HIGH_MEMORY < StartPfn * PAGE_SIZE
           /\ BitmapSize(pages) \in Nat /\ (pages + 8) \div 8 <= BitmapSize(pages)
           /\ KernelSize(pages) \in Nat
           /\ HIGH_MEMORY + KernelSize(pages)
                 = StartPfn * PAGE_SIZE + BitmapSize(pages) + PAGE_SIZE - 1
<1>1. /\ KERNEL_END \in Nat /\ HIGH_MEMORY < KERNEL_END /\ HIGH_MEMORY \in Nat
  BY BootAssumption, MapParameters DEF EP!Parameters
<1>2. StartPfn \in Nat /\ KERNEL_END <= StartPfn * PAGE_SIZE
  BY <1>1, FrameBounds DEF StartPfn
<1>3. StartPfn * PAGE_SIZE \in Nat
  BY <1>2, PageSize
<1>4. (pages + 8) \div 8 \in Nat
  OBVIOUS
<1>5. BitmapSize(pages) \in Nat /\ (pages + 8) \div 8 <= BitmapSize(pages)
  BY <1>4, LongAlignNat DEF BitmapSize
<1>6. KernelSize(pages) = StartPfn * PAGE_SIZE + BitmapSize(pages) + PAGE_SIZE - 1 - HIGH_MEMORY
  BY DEF KernelSize
<1> QED
  BY <1>1, <1>2, <1>3, <1>5, <1>6, PageSize

\* The bytes of a bitmap in the second part of the zone loop.
LEMMA BytesOfStep ==
    ASSUME PartsInv, pc = "free_area", order < MAX_ORDER - 1
    PROVE  /\ index \in Zones /\ order \in 0 .. MAX_ORDER - 2
           /\ SizeOf(max_low_pfn, index) \in Nat \ {0}
           /\ BuddyBytes(SizeOf(max_low_pfn, index), order) \in Nat
<1>1. max_low_pfn \in Nat /\ index \in Zones /\ SizeOf(max_low_pfn, index) # 0
  BY BootAssumption DEF PartsInv, Control
<1>2. order \in 0 .. MAX_ORDER - 2 /\ order \in Nat
  BY PowerPositive DEF PartsInv, Control
<1>3. SizeOf(max_low_pfn, index) \in Nat \ {0}
  BY <1>1, ZoneSizeNat
<1> QED
  BY <1>1, <1>2, <1>3, PairOfOrder, BuddyBytesNat

LEMMA AllocatorKept == PartsInv /\ [Next]_vars => BMP!IInv'
<1> SUFFICES ASSUME PartsInv, [Next]_vars PROVE BMP!IInv'
  OBVIOUS
<1>1. /\ BMP!IInv /\ max_low_pfn \in Nat /\ e820 \in Seq(EP!Entry)
      /\ order \in 0 .. MAX_ORDER - 1
  BY BootAssumption DEF PartsInv, Control, EP!IInv, EP!TypeOK
<1>2. BMP!Next => BMP!IInv'
  BY <1>1, PageSize, Arguments, Powers, BMP!NextIInv
<1>3. UNCHANGED bootmem_vars => BMP!IInv'
  <2>1. UNCHANGED bootmem_vars => UNCHANGED BMP!vars
    BY DEF bootmem_vars, BMP!vars, BMP!bdata
  <2> QED
    BY <1>1, <2>1, PageSize, Arguments, Powers, BMP!NextIInv
<1>4. ASSUME NEW addr \in Nat, NEW size \in Nat,
             BM!FreeBootmem(addr, size) \/ BM!ReserveBootmem(addr, size)
      PROVE  BMP!IInv'
  <2> DEFINE r == [addr |-> addr, size |-> size]
  <2>1. r \in [addr : Nat, size : Nat] /\ r.addr = addr /\ r.size = size
    OBVIOUS
  <2>2. BMP!FreeBootmem(addr, size) \/ BMP!ReserveBootmem(addr, size)
    BY <1>4, AllocatorSteps
  <2>3. BMP!FreeBootmem(r.addr, r.size) \/ BMP!ReserveBootmem(r.addr, r.size)
    BY <2>1, <2>2
  <2> HIDE DEF r
  <2> QED
    BY <1>2, <2>1, <2>3 DEF BMP!Next
<1>5. ASSUME NEW size \in Nat, NEW align \in {PAGE_SIZE, SMP_CACHE_BYTES}, NEW goal \in Nat,
             BM!AllocBootmem(size, align, goal)
      PROVE  BMP!IInv'
  <2>1. BMP!AllocBootmem(size, align, goal)
    BY <1>5, AllocatorSteps
  <2> QED
    BY <1>2, <2>1 DEF BMP!Next
<1>6. ASSUME NEW size \in Nat, AllocBootmemNode(size)
      PROVE  BMP!IInv'
  <2>1. MAX_DMA_PFN * PAGE_SIZE \in Nat
    BY PageSize, ZoneAssumption
  <2> QED
    BY <1>5, <1>6, <2>1 DEF AllocBootmemNode
<1>7. CASE SetupMemoryRegion
  BY <1>3, <1>7 DEF SetupMemoryRegion
<1>8. CASE InitMemory
  <2>1. max_low_pfn' \in Nat
    BY <1>1, <1>8, MaxPfnNat, ClippedBounds DEF InitMemory
  <2>2. BMP!InitBootmem(max_low_pfn')
    BY <1>8, AllocatorSteps DEF InitMemory
  <2> QED
    BY <1>2, <2>1, <2>2 DEF BMP!Next
<1>9. CASE RegisterEntry
  <2> DEFINE e == e820[index]
  <2>1. CASE Usable(e)
    <3>1. index \in DOMAIN e820
      BY <1>1, <1>9 DEF RegisterEntry, PartsInv, Control
    <3>2. e.addr \in Nat /\ e.size \in Nat
      BY <1>1, <3>1, MapEntry
    <3>3. /\ FirstPfn(e) \in Nat /\ LastPfn(e) \in Nat /\ FirstPfn(e) < LastPfn(e)
          /\ FirstPfn(e) * PAGE_SIZE \in Nat
      BY <1>1, <2>1, <3>2, EntryFrames DEF Usable
    <3>4. (LastPfn(e) - FirstPfn(e)) * PAGE_SIZE \in Nat
      BY <3>3, PageSize
    <3>5. BM!FreeBootmem(FirstPfn(e) * PAGE_SIZE, (LastPfn(e) - FirstPfn(e)) * PAGE_SIZE)
      BY <1>9, <2>1 DEF RegisterEntry
    <3> QED
      <4> HIDE DEF e
      <4> QED
        BY <1>4, <3>3, <3>4, <3>5
  <2>2. CASE ~Usable(e)
    BY <1>3, <1>9, <2>2 DEF RegisterEntry
  <2> QED
    BY <2>1, <2>2
<1>10. CASE ReserveKernel
  <2>1. HIGH_MEMORY \in Nat /\ KernelSize(max_low_pfn) \in Nat
    BY <1>1, KernelEnd
  <2>2. BM!ReserveBootmem(HIGH_MEMORY, KernelSize(max_low_pfn))
    BY <1>10 DEF ReserveKernel
  <2> QED
    BY <1>4, <2>1, <2>2
<1>11. CASE ReservePageZero
  BY <1>4, <1>11, PageSize DEF ReservePageZero
<1>12. CASE PagetableInit
  BY <1>5, <1>12, PageSize DEF PagetableInit, LowGoal
<1>13. CASE LoadCr3
  BY <1>3, <1>13 DEF LoadCr3
<1>14. CASE AllocMemMap
  <2>1. MapSize(max_low_pfn) \in Nat
    BY <1>1, ZoneAssumption DEF MapSize
  <2> QED
    BY <1>6, <1>14, <2>1 DEF AllocMemMap
<1>15. CASE InitZone
  <2>1. /\ UNCHANGED <<on_pgdat_list, node_low_pfn, node_bootmem_map, last_pos, last_offset,
                       ram, allocs>>
        /\ panicked' \in BOOLEAN
    BY <1>15 DEF InitZone
  <2> QED
    BY <1>1, <2>1 DEF BMP!IInv, BMP!TypeOK, BMP!Untouched, BMP!NoOverlap, BMP!BlocksInRam,
                      BMP!BitmapExact, BMP!AllocPages, BMP!BlocksAligned, BMP!TailFree
<1>16. CASE InitFreeArea
  <2>1. CASE UNCHANGED bootmem_vars
    BY <1>3, <2>1
  <2>2. CASE ~UNCHANGED bootmem_vars
    <3> DEFINE bytes == BuddyBytes(SizeOf(max_low_pfn, index), order)
    <3>1. order < MAX_ORDER - 1 /\ AllocBootmemNode(bytes) /\ pc = "free_area"
      BY <1>16, <2>2 DEF InitFreeArea
    <3>2. bytes \in Nat
      BY <3>1, BytesOfStep
    <3> QED
      BY <1>6, <3>1, <3>2
  <2> QED
    BY <2>1, <2>2
<1>17. CASE BuildZonelists
  BY <1>3, <1>17 DEF BuildZonelists
<1>18. CASE UNCHANGED vars
  BY <1>3, <1>18 DEF vars
<1> QED
  BY <1>7, <1>8, <1>9, <1>10, <1>11, <1>12, <1>13, <1>14, <1>15, <1>16, <1>17, <1>18 DEF Next

LEMMA ControlKept == PartsInv /\ Next => Control'
<1> SUFFICES ASSUME PartsInv, Next PROVE Control'
  OBVIOUS
<1>1. /\ BMP!IInv /\ max_low_pfn \in 0 .. MAXMEM_PFN /\ max_low_pfn \in Nat
      /\ MAXMEM_PFN \in Nat /\ e820 \in Seq(EP!Entry) /\ index \in Nat
      /\ order \in 0 .. MAX_ORDER - 1 /\ MAX_ORDER \in Nat \ {0}
  BY BootAssumption, PowerPositive DEF PartsInv, Control, EP!IInv, EP!TypeOK
<1>2. Control
  BY DEF PartsInv
<1>3. CASE SetupMemoryRegion
  <2>1. stage # "done"
    BY <1>2, <1>3 DEF SetupMemoryRegion, Control
  <2>2. /\ pc = "setup_memory_region"
        /\ pc' = IF stage' = "done" THEN "init_bootmem" ELSE pc
        /\ index' = index /\ order' = order /\ max_low_pfn' = max_low_pfn
        /\ on_pgdat_list' = on_pgdat_list /\ panicked' = panicked /\ allocs' = allocs
        /\ node_low_pfn' = node_low_pfn
    BY <1>3 DEF SetupMemoryRegion, bootmem_vars
  <2> QED
    BY <1>2, <2>1, <2>2 DEF Control, Early, Registration, Later
<1>4. CASE InitMemory
  <2>1. max_low_pfn' \in 0 .. MAXMEM_PFN
    BY <1>1, <1>4, MaxPfnNat, ClippedBounds DEF InitMemory
  <2>2. /\ pc = "init_bootmem" /\ pc' = "register_bootmem_low_pages"
        /\ index' = 1 /\ order' = order /\ stage' = stage
        /\ on_pgdat_list' = TRUE /\ allocs' = allocs
        /\ node_low_pfn' = max_low_pfn'
    BY <1>4 DEF InitMemory, e820_vars, BM!InitBootmem
  <2> QED
    BY <1>2, <2>1, <2>2 DEF Control, Early, Registration, Later
<1>5. CASE RegisterEntry
  <2>1. /\ pc = "register_bootmem_low_pages" /\ pc' = pc /\ order' = order /\ stage' = stage
        /\ index' = index \/ index' = index + 1
        /\ max_low_pfn' = max_low_pfn
        /\ on_pgdat_list' = on_pgdat_list /\ allocs' = allocs
        /\ node_low_pfn' = node_low_pfn
    BY <1>5 DEF RegisterEntry, After, e820_vars, bootmem_vars, BM!FreeBootmem
  <2> QED
    BY <1>1, <1>2, <2>1 DEF Control, Early, Registration, Later
<1>6. CASE ReserveKernel \/ ReservePageZero
  <2>1. /\ pc = "register_bootmem_low_pages" \/ pc = "reserve_bootmem"
        /\ pc' = pc \/ pc' = "reserve_bootmem" \/ pc' = "pagetable_init"
        /\ index' = index /\ order' = order /\ stage' = stage
        /\ max_low_pfn' = max_low_pfn
        /\ on_pgdat_list' = on_pgdat_list /\ allocs' = allocs
        /\ node_low_pfn' = node_low_pfn
    BY <1>6 DEF ReserveKernel, ReservePageZero, Continue, e820_vars, BM!ReserveBootmem
  <2> QED
    BY <1>1, <1>2, <2>1 DEF Control, Early, Registration, Later
<1>7. CASE PagetableInit
  <2>1. /\ pc = "pagetable_init" /\ pc' = pc /\ index' = index /\ order' = order
        /\ stage' = stage /\ max_low_pfn' = max_low_pfn
        /\ on_pgdat_list' = on_pgdat_list /\ node_low_pfn' = node_low_pfn
    BY <1>7 DEF PagetableInit, e820_vars, BM!AllocBootmem
  <2> QED
    BY <1>1, <1>2, <2>1 DEF Control, Early, Registration, Later
<1>8. CASE LoadCr3
  <2>1. /\ pc = "pagetable_init" /\ pc' = "free_area_init" /\ index' = index /\ order' = order
        /\ stage' = stage /\ max_low_pfn' = max_low_pfn
        /\ on_pgdat_list' = on_pgdat_list /\ node_low_pfn' = node_low_pfn
    BY <1>8 DEF LoadCr3, e820_vars, bootmem_vars
  <2> QED
    BY <1>1, <1>2, <2>1 DEF Control, Early, Registration, Later
<1>9. CASE AllocMemMap
  <2>1. /\ pc = "free_area_init" /\ pc' \in {pc, "zone"} /\ index' = 0 /\ order' = order
        /\ stage' = stage /\ max_low_pfn' = max_low_pfn
        /\ on_pgdat_list' = on_pgdat_list /\ node_low_pfn' = node_low_pfn
    BY <1>9 DEF AllocMemMap, AllocBootmemNode, Continue, e820_vars, BM!AllocBootmem, ZONE_DMA
  <2> QED
    BY <1>1, <1>2, <2>1 DEF Control, Early, Registration, Later
<1>10. CASE InitZone
  <2> DEFINE size == SizeOf(max_low_pfn, index)
  <2>1. /\ pc = "zone" /\ index \in 0 .. 2 /\ Zones = 0 .. 2
        /\ pc' = pc \/ pc' = IF size = 0 THEN "zone" ELSE "free_area"
        /\ size # 0 \/ ~panicked'
        /\ index' = IF size = 0 THEN index + 1 ELSE index
        /\ order' = 0 /\ stage' = stage /\ max_low_pfn' = max_low_pfn
        /\ on_pgdat_list' = on_pgdat_list /\ node_low_pfn' = node_low_pfn
    BY <1>10 DEF InitZone, Continue, e820_vars, Zones, ZONE_DMA, ZONE_HIGHMEM
  <2>2. pc' = "free_area" => index' \in Zones /\ SizeOf(max_low_pfn', index') # 0
    BY <2>1
  <2> HIDE DEF size
  <2>3. index' \in 0 .. 3
    BY <2>1
  <2>4. pc' = "zone" \/ pc' = "free_area"
    BY <2>1
  <2> QED
    BY <1>1, <1>2, <2>1, <2>2, <2>3, <2>4 DEF Control, Early, Registration, Later
<1>11. CASE InitFreeArea
  <2>1. /\ pc = "free_area" /\ stage' = stage /\ max_low_pfn' = max_low_pfn
        /\ on_pgdat_list' = on_pgdat_list /\ node_low_pfn' = node_low_pfn
        /\ \/ pc' = pc /\ index' = index /\ order' = order
           \/ pc' = pc /\ index' = index /\ order < MAX_ORDER - 1 /\ order' = order + 1
           \/ pc' = "zone" /\ index' = index + 1 /\ order' = order
    BY <1>11 DEF InitFreeArea, AllocBootmemNode, e820_vars, bootmem_vars, BM!AllocBootmem
  <2>2. Zones = 0 .. 2
    BY DEF Zones, ZONE_DMA, ZONE_HIGHMEM
  <2>3. order' \in 0 .. MAX_ORDER - 1
    BY <1>1, <2>1
  <2>4. pc' = "free_area" => index' \in Zones /\ SizeOf(max_low_pfn', index') # 0
    BY <1>2, <2>1 DEF Control
  <2>5. index' \in Nat /\ (pc' = "zone" => index' \in 0 .. 3)
    BY <1>1, <1>2, <2>1, <2>2 DEF Control
  <2> QED
    BY <1>1, <1>2, <2>1, <2>3, <2>4, <2>5 DEF Control, Early, Registration, Later
<1>12. CASE BuildZonelists
  <2>1. /\ pc = "zone" /\ pc' = "done" /\ index' = index /\ order' = order
        /\ stage' = stage /\ max_low_pfn' = max_low_pfn
        /\ on_pgdat_list' = on_pgdat_list /\ node_low_pfn' = node_low_pfn
    BY <1>12 DEF BuildZonelists, e820_vars, bootmem_vars
  <2> QED
    BY <1>1, <1>2, <2>1 DEF Control, Early, Registration, Later
<1> QED
  BY <1>3, <1>4, <1>5, <1>6, <1>7, <1>8, <1>9, <1>10, <1>11, <1>12 DEF Next

LEMMA PartsStep == PartsInv /\ [Next]_vars => PartsInv'
<1> SUFFICES ASSUME PartsInv, [Next]_vars PROVE PartsInv'
  OBVIOUS
<1>1. Control'
  <2>1. CASE UNCHANGED vars
    BY <2>1 DEF PartsInv, Control, vars, e820_vars, bootmem_vars
  <2> QED
    BY <2>1, ControlKept
<1> QED
  BY <1>1, MapKept, AllocatorKept DEF PartsInv

LEMMA PartsInit == Init => PartsInv
<1> SUFFICES ASSUME Init PROVE PartsInv
  OBVIOUS
<1>1. EP!IInv
  <2>1. EP!Init
    BY DEF Init, Map!Init, EP!Init
  <2> QED
    BY <2>1, MapParameters, EP!InitIInv
<1>2. BMP!IInv
  <2>1. BMP!Init
    BY DEF Init, BM!Init, BMP!Init
  <2> QED
    BY <2>1, PageSize, Arguments, Powers, BMP!InitIInv
<1>3. Control
  BY BootAssumption, PowerPositive
     DEF Init, BM!Init, Map!Init, Control, Early, Registration, Later
<1> QED
  BY <1>1, <1>2, <1>3 DEF PartsInv

-----------------------------------------------------------------------------
(* Registration: which frames become the allocator's memory.               *)

LEMMA WholeFrames ==
    ASSUME NEW n \in Nat
    PROVE  PFN_DOWN(n * PAGE_SIZE) = n /\ PFN_UP(n * PAGE_SIZE) = n
<1> DEFINE x == n * PAGE_SIZE
<1>1. x \in Nat
  BY PageSize
<1>2. x \div PAGE_SIZE = n
  BY <1>1, PageSize, Arguments, Powers, BMP!DivUnique
<1>3. (x + PAGE_SIZE - 1) \div PAGE_SIZE = n
  <2> DEFINE y == x + PAGE_SIZE - 1
  <2>1. y \in Nat /\ n * PAGE_SIZE <= y /\ y < n * PAGE_SIZE + PAGE_SIZE
    BY <1>1, PageSize
  <2> HIDE DEF y
  <2>2. y \div PAGE_SIZE = n
    BY <2>1, PageSize, Arguments, Powers, BMP!DivUnique
  <2> QED
    BY <2>2 DEF y
<1> QED
  BY <1>2, <1>3 DEF PFN_DOWN, PFN_UP

LEMMA UpOrder ==
    ASSUME NEW m \in Nat, NEW n \in Nat, m <= n
    PROVE  PFN_UP(m) <= PFN_UP(n)
<1>1. PFN_UP(m) \in Nat /\ PFN_UP(m) * PAGE_SIZE < m + PAGE_SIZE
  BY FrameBounds
<1>2. PFN_UP(n) \in Nat /\ n <= PFN_UP(n) * PAGE_SIZE
  BY FrameBounds
<1>3. PFN_UP(n) < PFN_UP(m) => PFN_UP(n) * PAGE_SIZE + PAGE_SIZE <= PFN_UP(m) * PAGE_SIZE
  BY <1>1, <1>2, FrameOrder
<1>4. PFN_UP(n) * PAGE_SIZE \in Nat /\ PFN_UP(m) * PAGE_SIZE \in Nat
  BY <1>1, <1>2, PageSize
<1> QED
  BY <1>1, <1>2, <1>3, <1>4, PageSize

\* The byte behind a frame.
FrameEnd(p) == p * PAGE_SIZE + PAGE_SIZE

\* Before the first allocation every frame of the node that is not RAM is reserved.
LEMMA BitmapAtStart ==
    ASSUME PartsInv, pc \in Registration
    PROVE  /\ node_bootmem_map = (0 .. node_low_pfn - 1) \ ram
           /\ node_low_pfn = max_low_pfn /\ max_low_pfn \in Nat /\ ram \in SUBSET Nat
<1>1. BMP!IInv /\ allocs = <<>> /\ node_low_pfn = max_low_pfn /\ max_low_pfn \in Nat
  BY BootAssumption DEF PartsInv, Control, Early, Registration
<1>2. BMP!AllocPages = {}
  BY <1>1, PageSize, Arguments, Powers, BMP!NoTailAtStart
<1>3. node_bootmem_map = ((0 .. node_low_pfn - 1) \ ram) \cup BMP!AllocPages
  BY <1>1 DEF BMP!IInv, BMP!BitmapExact
<1>4. ram \in SUBSET Nat
  BY <1>1 DEF BMP!IInv, BMP!TypeOK
<1> QED
  BY <1>1, <1>2, <1>3, <1>4

\* An entry behind all RAM registered so far adds its frames: no bit is found clear.
LEMMA EntryRegistered ==
    ASSUME PartsInv, pc \in Registration, NEW e, e.addr \in Nat, e.size \in Nat, Usable(e),
           \A p \in ram : FrameEnd(p) <= e.addr,
           BM!FreeBootmem(FirstPfn(e) * PAGE_SIZE, (LastPfn(e) - FirstPfn(e)) * PAGE_SIZE)
    PROVE  /\ panicked' = FALSE
           /\ ram' = ram \cup FirstPfn(e) .. LastPfn(e) - 1
<1> DEFINE f == FirstPfn(e)
           l == LastPfn(e)
           size == (l - f) * PAGE_SIZE
           pages == f .. l - 1
           cleared == {p \in pages : \A q \in pages \ node_bootmem_map : p < q}
<1>1. /\ node_bootmem_map = (0 .. node_low_pfn - 1) \ ram
      /\ node_low_pfn = max_low_pfn /\ max_low_pfn \in Nat /\ ram \in SUBSET Nat
  BY BitmapAtStart
<1>2. /\ f \in Nat /\ l \in Nat /\ f < l /\ l <= node_low_pfn
      /\ f * PAGE_SIZE \in Nat /\ e.addr <= f * PAGE_SIZE
  BY <1>1, EntryFrames DEF Usable
<1>3. f * PAGE_SIZE + size = l * PAGE_SIZE /\ size # 0
  <2> HIDE DEF f, l
  <2>1. f * PAGE_SIZE + PAGE_SIZE <= l * PAGE_SIZE
    BY <1>2, FrameOrder
  <2>2. (l - f) * PAGE_SIZE = l * PAGE_SIZE - f * PAGE_SIZE
    BY <1>2, PageSize
  <2>3. l * PAGE_SIZE \in Nat
    BY <1>2, PageSize
  <2> QED
    BY <1>2, <2>1, <2>2, <2>3, PageSize
<1>4. BM!PageDown(f * PAGE_SIZE + size) = l /\ BM!PageUp(f * PAGE_SIZE) = f
  <2> HIDE DEF f, l, size
  <2> QED
    BY <1>2, <1>3, WholeFrames DEF BM!PageDown, BM!PageUp, PFN_DOWN, PFN_UP
<1>5. pages \subseteq node_bootmem_map
  <2> SUFFICES ASSUME NEW p \in pages PROVE p \in 0 .. node_low_pfn - 1 /\ p \notin ram
    BY <1>1
  <2> HIDE DEF f, l
  <2>1. p \in Nat /\ f <= p /\ p <= node_low_pfn - 1
    BY <1>1, <1>2
  <2>2. p \notin ram
    <3> SUFFICES ASSUME p \in ram PROVE FALSE
      OBVIOUS
    <3>1. p * PAGE_SIZE + PAGE_SIZE <= f * PAGE_SIZE
      <4>1. p * PAGE_SIZE + PAGE_SIZE <= e.addr
        BY DEF FrameEnd
      <4>2. p * PAGE_SIZE \in Nat
        BY <2>1, PageSize
      <4> QED
        BY <1>2, <4>1, <4>2, PageSize
    <3>2. f * PAGE_SIZE <= p * PAGE_SIZE /\ p * PAGE_SIZE \in Nat
      BY <1>2, <2>1, FrameOrder
    <3> QED
      BY <1>2, <3>1, <3>2, PageSize
  <2> QED
    BY <1>1, <2>1, <2>2
<1>6. cleared = pages
  BY <1>5
<1>7. ~(size = 0 \/ BM!PageDown(f * PAGE_SIZE + size) > node_low_pfn)
  <2> HIDE DEF f, l, size
  <2> QED
    BY <1>1, <1>2, <1>3, <1>4
<1>8. /\ panicked' = (cleared # pages)
      /\ ram' = ram \cup cleared
  <2> HIDE DEF f, l, size
  <2> QED
    BY <1>4, <1>7 DEF BM!FreeBootmem, f, l, size
<1> QED
  BY <1>6, <1>8

\* No registered frame holds a byte of the hole.
RamOutsideHole == \A p \in ram : FrameEnd(p) <= LOW_END \/ HIGH_MEMORY <= p * PAGE_SIZE

\* The frames that setup_memory reserves for the kernel and the bitmap.
KernelFrames ==
    PFN_DOWN(HIGH_MEMORY)
        .. PFN_UP(StartPfn * PAGE_SIZE + BitmapSize(max_low_pfn) + PAGE_SIZE - 1) - 1

\* Reserving the kernel and the bitmap behind it takes all that must be left alone but
\* frame 0, unless the node ends before that.
LEMMA KernelReserved ==
    ASSUME PartsInv, pc \in Registration, RamOutsideHole,
           BM!ReserveBootmem(HIGH_MEMORY, KernelSize(max_low_pfn))
    PROVE  /\ panicked' \in BOOLEAN /\ ram' \subseteq ram
           /\ panicked' => max_low_pfn * PAGE_SIZE
                              < StartPfn * PAGE_SIZE + BitmapSize(max_low_pfn) + PAGE_SIZE
           /\ ~panicked' => /\ max_low_pfn > 0 /\ ram' \cap (TakenFrames \ {0}) = {}
                            /\ ram' = ram \ KernelFrames
<1> DEFINE n == max_low_pfn
           high == PFN_DOWN(HIGH_MEMORY)
           start == StartPfn * PAGE_SIZE
           top == start + BitmapSize(n) + PAGE_SIZE - 1
           end == PFN_UP(top)
           size == KernelSize(n)
           bad == size = 0 \/ high >= end \/ high >= n \/ end > n
           pages == IF bad THEN {} ELSE high .. end - 1
<1>1. /\ node_low_pfn = n /\ n \in Nat /\ ram \in SUBSET Nat
  BY BitmapAtStart
<1>2. /\ StartPfn \in Nat /\ start \in Nat /\ HIGH_MEMORY \in Nat /\ HIGH_MEMORY < start
      /\ BitmapSize(n) \in Nat /\ (n + 8) \div 8 <= BitmapSize(n)
      /\ size \in Nat /\ HIGH_MEMORY + size = top /\ top \in Nat
  <2>1. /\ StartPfn \in Nat /\ start \in Nat /\ HIGH_MEMORY \in Nat /\ HIGH_MEMORY < start
        /\ BitmapSize(n) \in Nat /\ (n + 8) \div 8 <= BitmapSize(n)
        /\ size \in Nat /\ HIGH_MEMORY + size = top
    BY <1>1, KernelEnd
  <2> HIDE DEF start, size
  <2>2. top \in Nat
    BY <2>1, PageSize
  <2> QED
    BY <2>1, <2>2
<1> HIDE DEF n, start, size
<1>3. size > 0 /\ start <= top
  BY <1>2, PageSize
<1>4. /\ panicked' = bad
      /\ ram' = ram \ pages
  <2>1. BM!PageDown(HIGH_MEMORY) = high /\ BM!PageUp(HIGH_MEMORY + size) = end
    BY <1>2 DEF BM!PageDown, BM!PageUp, PFN_DOWN, PFN_UP
  <2>2. BM!ReserveBootmem(HIGH_MEMORY, size)
    BY DEF size, n
  <2> HIDE DEF high, end
  <2> QED
    BY <1>1, <2>1, <2>2 DEF BM!ReserveBootmem
<1>5. /\ high \in Nat /\ end \in Nat /\ high * PAGE_SIZE <= HIGH_MEMORY
      /\ HIGH_MEMORY < high * PAGE_SIZE + PAGE_SIZE
      /\ top <= end * PAGE_SIZE /\ end * PAGE_SIZE < top + PAGE_SIZE
  BY <1>2, FrameBounds
<1> HIDE DEF high, end, top
<1>6. /\ high * PAGE_SIZE \in Nat /\ end * PAGE_SIZE \in Nat /\ n * PAGE_SIZE \in Nat
  BY <1>1, <1>5, PageSize
<1>7. high < end
  <2>1. end <= high => end * PAGE_SIZE <= high * PAGE_SIZE
    BY <1>5, FrameOrder
  <2> QED
    BY <1>2, <1>3, <1>5, <1>6, <2>1
<1>8. n < end => n * PAGE_SIZE < start + BitmapSize(n) + PAGE_SIZE
  <2>1. n < end => n * PAGE_SIZE + PAGE_SIZE <= end * PAGE_SIZE
    BY <1>1, <1>5, FrameOrder
  <2> QED
    BY <1>2, <1>5, <1>6, <2>1, PageSize DEF top
<1>9. bad => n < end
  BY <1>1, <1>3, <1>5, <1>7
<1>10. ASSUME ~bad, NEW p \in ram', p \in TakenFrames \ {0}
       PROVE  FALSE
  <2>1. p \in ram /\ p \notin high .. end - 1 /\ p \in Nat
    BY <1>1, <1>4, <1>10
  <2>2. p < high \/ end <= p
    BY <1>5, <2>1
  <2>3. p * PAGE_SIZE \in Nat
    BY <2>1, PageSize
  <2>4. \/ p \in PFN_DOWN(LOW_END) .. StartPfn - 1
        \/ p \in FramesOf(StartPfn * PAGE_SIZE, BitmapSize(n))
    BY <1>10 DEF TakenFrames, n
  <2>5. StartPfn <= end
    <3>1. PFN_UP(start) <= PFN_UP(top)
      BY <1>2, <1>3, UpOrder
    <3>2. PFN_UP(start) = StartPfn
      BY <1>2, WholeFrames DEF start
    <3> QED
      BY <3>1, <3>2 DEF end
  <2>6. CASE end <= p
    <3> DEFINE bits == start + BitmapSize(n)
    <3>2. bits \in Nat /\ bits <= top
      BY <1>2, PageSize DEF top
    <3>3. PFN_UP(bits) <= end /\ PFN_UP(bits) \in Nat
      <4> HIDE DEF bits
      <4> QED
        BY <1>2, <3>2, UpOrder, FrameBounds DEF end
    <3>4. p \notin FramesOf(StartPfn * PAGE_SIZE, BitmapSize(n))
      BY <1>5, <2>1, <2>6, <3>3 DEF FramesOf, start
    <3> QED
      BY <1>2, <1>5, <2>1, <2>4, <2>5, <2>6, <3>4
  <2>7. CASE p < high
    <3>1. PFN_DOWN(StartPfn * PAGE_SIZE) = StartPfn
      BY <1>2, WholeFrames
    <3>2. high <= StartPfn
      <4>1. high <= PFN_DOWN(start)
        BY <1>2, DownOrder DEF high
      <4> QED
        BY <3>1, <4>1 DEF start
    <3>3. p \in PFN_DOWN(LOW_END) .. StartPfn - 1
      BY <1>2, <1>5, <2>1, <2>4, <2>7, <3>1, <3>2 DEF FramesOf
    <3>4. LOW_END \in Nat
      BY MapParameters DEF EP!Parameters
    <3>5. PFN_DOWN(LOW_END) \in Nat /\ PFN_DOWN(LOW_END) * PAGE_SIZE = LOW_END
      <4>1. PFN_DOWN(LOW_END) \in Nat
        BY <3>4, FrameBounds
      <4>2. LOW_END % PAGE_SIZE = LOW_END - (LOW_END \div PAGE_SIZE) * PAGE_SIZE
        BY <3>4, PageSize, DivMod
      <4>3. LOW_END % PAGE_SIZE = 0
        BY BootAssumption
      <4>4. (LOW_END \div PAGE_SIZE) * PAGE_SIZE \in Nat
        BY <4>1, PageSize DEF PFN_DOWN
      <4> QED
        BY <3>4, <4>1, <4>2, <4>3, <4>4 DEF PFN_DOWN
    <3>6. LOW_END <= p * PAGE_SIZE
      <4>1. PFN_DOWN(LOW_END) <= p
        BY <3>3, <3>5
      <4> QED
        BY <2>1, <3>5, <4>1, FrameOrder
    <3>7. p * PAGE_SIZE + PAGE_SIZE <= high * PAGE_SIZE
      BY <1>5, <2>1, <2>7, FrameOrder
    <3>8. FrameEnd(p) <= LOW_END \/ HIGH_MEMORY <= p * PAGE_SIZE
      BY <2>1 DEF RamOutsideHole
    <3> QED
      BY <1>2, <1>5, <1>6, <2>3, <3>4, <3>6, <3>7, <3>8, PageSize DEF FrameEnd
  <2> QED
    BY <2>2, <2>6, <2>7
<1>11. ~bad => n > 0
  BY <1>1, <1>5
<1> QED
  <2>1. ram' \subseteq ram /\ panicked' \in BOOLEAN
    BY <1>4
  <2>2. panicked' => n * PAGE_SIZE < start + BitmapSize(n) + PAGE_SIZE
    BY <1>4, <1>8, <1>9
  <2>3. ~panicked' => n > 0 /\ ram' \cap (TakenFrames \ {0}) = {}
    BY <1>4, <1>10, <1>11
  <2>4. ~panicked' => ram' = ram \ KernelFrames
    BY <1>4 DEF KernelFrames, high, end, top, start, n
  <2> QED
    BY <2>1, <2>2, <2>3, <2>4 DEF n, start

\* Reserving page 0 takes frame 0 of a node that has frames.
LEMMA PageZeroReserved ==
    ASSUME PartsInv, pc \in Registration, max_low_pfn > 0, BM!ReserveBootmem(0, PAGE_SIZE)
    PROVE  panicked' = FALSE /\ ram' = ram \ {0}
<1>1. node_low_pfn = max_low_pfn /\ max_low_pfn \in Nat
  BY BitmapAtStart
<1>2. BM!PageDown(0) = 0 /\ BM!PageUp(0 + PAGE_SIZE) = 1
  <2>1. PFN_DOWN(0 * PAGE_SIZE) = 0 /\ PFN_UP(1 * PAGE_SIZE) = 1
    BY WholeFrames
  <2>2. 0 * PAGE_SIZE = 0 /\ 1 * PAGE_SIZE = 0 + PAGE_SIZE
    BY PageSize
  <2> QED
    BY <2>1, <2>2 DEF PFN_DOWN, PFN_UP, BM!PageDown, BM!PageUp
<1>3. ~(PAGE_SIZE = 0 \/ 0 >= 1 \/ 0 >= node_low_pfn \/ 1 > node_low_pfn)
  BY <1>1, PageSize
<1>4. panicked' = FALSE /\ ram' = ram \ (0 .. 1 - 1)
  BY <1>2, <1>3 DEF BM!ReserveBootmem
<1>5. 0 .. 1 - 1 = {0}
  OBVIOUS
<1> QED
  BY <1>4, <1>5

\* What is registered so far lies before the entries still to come, and clear of all that
\* allocations must leave alone once the reservations are made.
RamInv ==
    /\ RamOutsideHole
    /\ \A p \in ram : p < max_low_pfn
    /\ pc = "register_bootmem_low_pages" =>
          \A p \in ram : \A j \in index .. Len(e820) : FrameEnd(p) <= e820[j].addr
    /\ pc = "reserve_bootmem" =>
          ~panicked /\ max_low_pfn > 0 /\ ram \cap (TakenFrames \ {0}) = {}
    /\ Registered => ram \cap TakenFrames = {}
    /\ panicked /\ pc = "register_bootmem_low_pages" =>
          /\ index > Len(e820)
          /\ max_low_pfn * PAGE_SIZE
                < StartPfn * PAGE_SIZE + BitmapSize(max_low_pfn) + PAGE_SIZE

LEMMA RegisterEntryRam == PartsInv /\ RamInv /\ RegisterEntry => RamInv'
<1> SUFFICES ASSUME PartsInv, RamInv, RegisterEntry PROVE RamInv'
  OBVIOUS
<1> DEFINE e == e820[index]
<1>1. /\ pc = "register_bootmem_low_pages" /\ index <= Len(e820) /\ ~panicked
      /\ IF Usable(e)
         THEN BM!FreeBootmem(FirstPfn(e) * PAGE_SIZE, (LastPfn(e) - FirstPfn(e)) * PAGE_SIZE)
         ELSE ram' = ram /\ panicked' = panicked
      /\ index' = IF panicked' THEN index ELSE index + 1
      /\ e820' = e820 /\ pc' = pc /\ max_low_pfn' = max_low_pfn
  BY DEF RegisterEntry, After, bootmem_vars, e820_vars
<1>2. /\ e820 \in Seq(EP!Entry) /\ Len(e820) \in Nat /\ DOMAIN e820 = 1 .. Len(e820)
      /\ index \in DOMAIN e820 /\ stage = "done" /\ index \in Nat
      /\ max_low_pfn \in Nat /\ pc \in Registration
  BY <1>1, BootAssumption
     DEF PartsInv, Control, EP!IInv, EP!TypeOK, Early, Registration, Later
<1>3. /\ RamOutsideHole
      /\ \A p \in ram : \A j \in index .. Len(e820) : FrameEnd(p) <= e820[j].addr
  BY <1>1 DEF RamInv
<1>4. ram \in SUBSET Nat
  BY <1>2, BitmapAtStart
<1>5. e.addr \in Nat /\ e.size \in Nat /\ EP!End(e) = e.addr + e.size
  BY <1>2, MapEntry
<1>6. CASE ~Usable(e)
  <2>1. ram' = ram /\ ~panicked' /\ index' = index + 1
    BY <1>1, <1>6
  <2> QED
    BY <1>1, <1>2, <1>3, <2>1 DEF RamInv, RamOutsideHole, FrameEnd, Registered
<1>7. CASE Usable(e)
  <2>1. \A p \in ram : FrameEnd(p) <= e.addr
    BY <1>2, <1>3
  <2>2. panicked' = FALSE /\ ram' = ram \cup FirstPfn(e) .. LastPfn(e) - 1
    <3>1. BM!FreeBootmem(FirstPfn(e) * PAGE_SIZE, (LastPfn(e) - FirstPfn(e)) * PAGE_SIZE)
      BY <1>1, <1>7
    <3> HIDE DEF e
    <3> QED
      BY <1>2, <1>5, <1>7, <2>1, <3>1, EntryRegistered
  <2>3. index' = index + 1
    BY <1>1, <2>2
  <2>4. /\ FirstPfn(e) \in Nat /\ LastPfn(e) \in Nat
        /\ FirstPfn(e) * PAGE_SIZE \in Nat /\ e.addr <= FirstPfn(e) * PAGE_SIZE
        /\ LastPfn(e) * PAGE_SIZE \in Nat /\ LastPfn(e) * PAGE_SIZE <= e.addr + e.size
    <3> HIDE DEF e
    <3> QED
      BY <1>2, <1>5, EntryFrames
  <2>5. ASSUME NEW p \in FirstPfn(e) .. LastPfn(e) - 1
        PROVE  e.addr <= p * PAGE_SIZE /\ FrameEnd(p) <= EP!End(e) /\ p * PAGE_SIZE \in Nat
    <3> HIDE DEF e
    <3>1. p \in Nat /\ FirstPfn(e) <= p /\ p < LastPfn(e)
      BY <2>4
    <3>2. /\ FirstPfn(e) * PAGE_SIZE <= p * PAGE_SIZE /\ p * PAGE_SIZE \in Nat
          /\ p * PAGE_SIZE + PAGE_SIZE <= LastPfn(e) * PAGE_SIZE
      BY <2>4, <3>1, FrameOrder
    <3> QED
      BY <1>5, <2>4, <3>2, PageSize DEF FrameEnd
  <2>6. EP!Ordered(e820) /\ EP!OutsideHole(e820)
    BY <1>2 DEF PartsInv, EP!IInv, EP!CopiedInOrder, EP!Copying, EP!HoleClear
  <2>7. RamOutsideHole'
    <3>1. EP!End(e) <= LOW_END \/ HIGH_MEMORY <= e.addr
      BY <1>2, <1>7, <2>6 DEF EP!OutsideHole, Usable, Map!E820_RAM, EP!E820_RAM
    <3>2. LOW_END \in Nat /\ HIGH_MEMORY \in Nat
      BY MapParameters DEF EP!Parameters
    <3>3. ASSUME NEW p \in FirstPfn(e) .. LastPfn(e) - 1
          PROVE  FrameEnd(p) <= LOW_END \/ HIGH_MEMORY <= p * PAGE_SIZE
      <4> HIDE DEF e
      <4>1. e.addr <= p * PAGE_SIZE /\ FrameEnd(p) <= EP!End(e) /\ p * PAGE_SIZE \in Nat
        BY <2>5
      <4>2. FrameEnd(p) \in Nat
        BY <4>1, PageSize DEF FrameEnd
      <4>3. EP!End(e) \in Nat
        BY <1>5
      <4> QED
        BY <1>5, <3>1, <3>2, <4>1, <4>2, <4>3
    <3> QED
      BY <1>3, <2>2, <3>3 DEF RamOutsideHole, FrameEnd
  <2>8. ASSUME NEW p \in ram', NEW j \in index' .. Len(e820)
        PROVE  FrameEnd(p) <= e820[j].addr
    <3>1. j \in index .. Len(e820) /\ j \in DOMAIN e820 /\ index < j
      BY <1>2, <2>3
    <3>2. CASE p \in ram
      BY <1>3, <3>1, <3>2
    <3>3. CASE p \in FirstPfn(e) .. LastPfn(e) - 1
      <4>1. EP!End(e) <= e820[j].addr
        BY <1>2, <2>6, <3>1 DEF EP!Ordered
      <4>2. FrameEnd(p) <= EP!End(e) /\ p * PAGE_SIZE \in Nat
        BY <2>5, <3>3
      <4>3. FrameEnd(p) \in Nat
        BY <4>2, PageSize DEF FrameEnd
      <4>4. e820[j].addr \in Nat
        BY <1>2, <3>1, MapEntry
      <4>5. EP!End(e) \in Nat
        BY <1>5
      <4> HIDE DEF e
      <4> QED
        BY <4>1, <4>2, <4>3, <4>4, <4>5
    <3> QED
      BY <2>2, <3>2, <3>3
  <2>9. \A p \in ram' : p < max_low_pfn
    <3>1. \A p \in ram : p < max_low_pfn
      BY DEF RamInv
    <3>2. LastPfn(e) <= max_low_pfn
      <4> HIDE DEF e
      <4> QED
        BY <1>2, <1>5, EntryFrames
    <3> HIDE DEF e
    <3> QED
      BY <1>2, <2>2, <2>4, <3>1, <3>2
  <2> QED
    <3> HIDE DEF e
    <3> QED
      BY <1>1, <2>2, <2>7, <2>8, <2>9 DEF RamInv, Registered, FrameEnd
<1> QED
  BY <1>6, <1>7

LEMMA RamInvKept == PartsInv /\ RamInv /\ [Next]_vars => RamInv'
<1> SUFFICES ASSUME PartsInv, RamInv, [Next]_vars PROVE RamInv'
  OBVIOUS
<1>1. CASE SetupMemoryRegion \/ InitMemory
  <2>1. ram = {} /\ ram' = ram /\ panicked' = panicked /\ ~panicked
    BY <1>1 DEF SetupMemoryRegion, InitMemory, PartsInv, Control, Early, BMP!IInv,
                BMP!Untouched, bootmem_vars, BM!InitBootmem
  <2>2. pc' \in {"setup_memory_region", "init_bootmem", "register_bootmem_low_pages"}
    BY <1>1 DEF SetupMemoryRegion, InitMemory
  <2> QED
    BY <2>1, <2>2 DEF RamInv, RamOutsideHole, Registered
<1>2. CASE RegisterEntry
  BY <1>2, RegisterEntryRam
<1>3. CASE ReserveKernel
  <2>1. /\ pc = "register_bootmem_low_pages" /\ index > Len(e820)
        /\ BM!ReserveBootmem(HIGH_MEMORY, KernelSize(max_low_pfn))
        /\ pc' = IF panicked' THEN pc ELSE "reserve_bootmem"
        /\ e820' = e820 /\ index' = index /\ max_low_pfn' = max_low_pfn
    BY <1>3 DEF ReserveKernel, Continue, e820_vars
  <2>2. RamOutsideHole
    BY DEF RamInv
  <2>3. /\ panicked' \in BOOLEAN /\ ram' \subseteq ram
        /\ panicked' => max_low_pfn * PAGE_SIZE
                           < StartPfn * PAGE_SIZE + BitmapSize(max_low_pfn) + PAGE_SIZE
        /\ ~panicked' => max_low_pfn > 0 /\ ram' \cap (TakenFrames \ {0}) = {}
    BY <2>1, <2>2, KernelReserved DEF Registration
  <2>4. RamOutsideHole' /\ TakenFrames' = TakenFrames
    BY <2>1, <2>2, <2>3 DEF RamOutsideHole, FrameEnd, TakenFrames, FramesOf
  <2>5. \A j \in index' .. Len(e820') : FALSE
    <3>1. index \in Nat /\ Len(e820) \in Nat
      BY DEF PartsInv, Control, EP!IInv, EP!TypeOK
    <3> QED
      BY <2>1, <3>1
  <2>6. \A p \in ram' : p < max_low_pfn'
    BY <2>1, <2>3 DEF RamInv
  <2>7. CASE panicked'
    BY <2>1, <2>3, <2>4, <2>5, <2>6, <2>7 DEF RamInv, Registered
  <2>8. CASE ~panicked'
    BY <2>1, <2>3, <2>4, <2>6, <2>8 DEF RamInv, Registered
  <2> QED
    BY <2>7, <2>8
<1>4. CASE ReservePageZero
  <2>1. /\ pc = "reserve_bootmem" /\ BM!ReserveBootmem(0, PAGE_SIZE)
        /\ pc' = IF panicked' THEN pc ELSE "pagetable_init"
        /\ max_low_pfn' = max_low_pfn
    BY <1>4 DEF ReservePageZero, Continue
  <2>2. /\ ~panicked /\ max_low_pfn > 0 /\ ram \cap (TakenFrames \ {0}) = {}
        /\ RamOutsideHole
    BY <2>1 DEF RamInv
  <2>5. panicked' = FALSE /\ ram' = ram \ {0}
    BY <2>1, <2>2, PageZeroReserved DEF Registration
  <2>6. ram' \cap TakenFrames = {} /\ TakenFrames' = TakenFrames
    BY <2>1, <2>2, <2>5 DEF TakenFrames, FramesOf
  <2>7. RamOutsideHole' /\ \A p \in ram' : p < max_low_pfn'
    BY <2>1, <2>2, <2>5 DEF RamInv, RamOutsideHole, FrameEnd
  <2> QED
    BY <2>1, <2>5, <2>6, <2>7 DEF RamInv, Registered
<1>5. CASE PagetableInit \/ LoadCr3 \/ AllocMemMap \/ InitZone \/ InitFreeArea \/ BuildZonelists
  <2>1. ram' = ram /\ max_low_pfn' = max_low_pfn
    BY <1>5 DEF PagetableInit, LoadCr3, AllocMemMap, InitZone, InitFreeArea, BuildZonelists,
                AllocBootmemNode, BM!AllocBootmem, bootmem_vars
  <2>2. Registered
    BY <1>5 DEF PagetableInit, LoadCr3, AllocMemMap, InitZone, InitFreeArea, BuildZonelists,
                Registered
  <2>3. pc' \notin {"register_bootmem_low_pages", "reserve_bootmem"}
    BY <1>5 DEF PagetableInit, LoadCr3, AllocMemMap, InitZone, InitFreeArea, BuildZonelists,
                Continue
  <2>4. TakenFrames' = TakenFrames
    BY <2>1 DEF TakenFrames, FramesOf
  <2> QED
    BY <2>1, <2>2, <2>3, <2>4 DEF RamInv, RamOutsideHole, FrameEnd
<1>6. CASE UNCHANGED vars
  BY <1>6 DEF RamInv, RamOutsideHole, FrameEnd, TakenFrames, FramesOf, Registered, vars,
              e820_vars, bootmem_vars
<1> QED
  BY <1>1, <1>2, <1>3, <1>4, <1>5, <1>6 DEF Next

LEMMA RamInvInit == Init => RamInv
BY DEF Init, BM!Init, RamInv, RamOutsideHole, Registered

LEMMA AlwaysRam == Spec => [](PartsInv /\ RamInv)
<1>1. Init => PartsInv /\ RamInv
  BY PartsInit, RamInvInit
<1>2. PartsInv /\ RamInv /\ [Next]_vars => (PartsInv /\ RamInv)'
  BY PartsStep, RamInvKept
<1> QED
  BY <1>1, <1>2, PTL DEF Spec

LEMMA InvKeepsKernel == PartsInv /\ RamInv => KernelKept
<1> SUFFICES ASSUME PartsInv, RamInv, NEW i \in DOMAIN allocs,
                    NEW p \in FramesOf(allocs[i].addr, allocs[i].size)
             PROVE  p \notin TakenFrames
  BY DEF KernelKept
<1>1. BMP!IInv /\ Control
  BY DEF PartsInv
<1>2. i \in 1 .. Len(allocs)
  BY <1>1 DEF BMP!IInv, BMP!TypeOK
<1>3. Registered /\ ram \cap TakenFrames = {}
  <2>1. allocs # <<>>
    BY <1>2
  <2> QED
    BY <1>1, <2>1 DEF Control, Registered, Early, Registration, RamInv
<1> DEFINE a == allocs[i].addr
           end == a + allocs[i].size
<1>4. allocs[i] \in BMP!Pool!Block /\ a \in Nat /\ end \in Nat
  <2>1. allocs[i] \in BMP!Pool!Block /\ a \in Nat /\ allocs[i].size \in Nat \ {0}
    BY <1>1, <1>2, PageSize, Arguments, Powers, BMP!BlockTypes
  <2> QED
    BY <2>1
<1>5. PFN_DOWN(a) <= p /\ p <= PFN_UP(end) - 1 /\ p \in Nat
  BY <1>4, FrameBounds DEF FramesOf
<1>6. /\ PFN_DOWN(a) \in Nat /\ a < PFN_DOWN(a) * PAGE_SIZE + PAGE_SIZE
      /\ PFN_UP(end) \in Nat /\ PFN_UP(end) * PAGE_SIZE < end + PAGE_SIZE
  <2> HIDE DEF a, end
  <2> QED
    BY <1>4, FrameBounds
<1>7. p * PAGE_SIZE < end /\ a < p * PAGE_SIZE + PAGE_SIZE
  <2> HIDE DEF a, end
  <2>1. PFN_DOWN(a) * PAGE_SIZE <= p * PAGE_SIZE
    BY <1>5, <1>6, FrameOrder
  <2>2. p * PAGE_SIZE + PAGE_SIZE <= PFN_UP(end) * PAGE_SIZE
    BY <1>5, <1>6, FrameOrder
  <2>3. p * PAGE_SIZE \in Nat /\ PFN_DOWN(a) * PAGE_SIZE \in Nat /\ PFN_UP(end) * PAGE_SIZE \in Nat
    BY <1>5, <1>6, PageSize
  <2> QED
    BY <1>4, <1>6, <2>1, <2>2, <2>3, PageSize
<1>8. p \in BMP!Pool!PagesOf(allocs[i])
  BY <1>4, <1>5, <1>7, PageSize, Arguments, Powers, BMP!PagesOfBlock
<1>9. BMP!Pool!PagesOf(allocs[i]) \subseteq ram
  BY <1>1, <1>2 DEF BMP!IInv, BMP!BlocksInRam
<1> QED
  BY <1>3, <1>8, <1>9

\* Whatever map the boot loader hands over, no block that the set-up of memory allocates
\* touches page 0, the hole, the kernel or the allocator's bitmap: setup_memory reserves
\* them, and register_bootmem_low_pages registers no frame of the hole.
THEOREM KernelStaysWhole == Spec => []KernelKept
BY AlwaysRam, InvKeepsKernel, PTL

LEMMA InvStops == PartsInv /\ RamInv => StopsOnlyWhenShort
BY DEF RamInv, StopsOnlyWhenShort, RegistrationNeverPanics, ReserveStopsOnlyWhenShort

\* free_bootmem's and reserve_bootmem's BUG checks are reached only on a machine that ends
\* before the kernel and the bitmap behind it do.
THEOREM NoStopOnGoodMaps == Spec => []StopsOnlyWhenShort
BY AlwaysRam, InvStops, PTL

-----------------------------------------------------------------------------
(* The types of paging_init's and free_area_init's variables.              *)

ZoneRecord  == [size : Nat, start : Nat, pages_min : 0 .. BALANCE_MAX]
PageRecord  == [zone : Zones, address : Nat]
BuddyRecord == [zone : Zones, order : 0 .. MAX_ORDER - 2, addr : Nat, size : Nat]

Types ==
    /\ swapper_pg_dir \in Seq(Nat)
    /\ cr3 \in {"pgd", "swapper_pg_dir"}
    /\ node_mem_map \in Nat
    /\ node_zones \in Seq(ZoneRecord)
    /\ page \in Seq(PageRecord)
    /\ buddy \in Seq(BuddyRecord)

\* The blocks handed out stay.
LEMMA BlocksStay ==
    ASSUME PartsInv, [Next]_vars
    PROVE  \A i \in DOMAIN allocs : i \in DOMAIN allocs' /\ allocs'[i] = allocs[i]
<1>1. BMP!IInv /\ allocs \in Seq(BMP!Pool!Block) /\ max_low_pfn \in Nat
      /\ order \in 0 .. MAX_ORDER - 1
  BY BootAssumption DEF PartsInv, Control, BMP!IInv, BMP!TypeOK
<1>2. ASSUME NEW size \in Nat, NEW align \in {PAGE_SIZE, SMP_CACHE_BYTES}, NEW goal \in Nat,
             BM!AllocBootmem(size, align, goal)
      PROVE  \A i \in DOMAIN allocs : i \in DOMAIN allocs' /\ allocs'[i] = allocs[i]
  <2> SUFFICES ASSUME ~panicked'
               PROVE  \A i \in DOMAIN allocs : i \in DOMAIN allocs' /\ allocs'[i] = allocs[i]
    BY <1>1, <1>2, Allocated
  <2>1. BMP!AllocBootmem(size, align, goal)
    BY <1>2, AllocatorSteps
  <2>2. PICK new, area : BMP!Handed(new, area)
    BY <1>1, <2>1, PageSize, Arguments, Powers, BMP!AllocStep
  <2>3. new \in BMP!Pool!Block /\ allocs' = Append(allocs, new)
    BY <2>2 DEF BMP!Handed
  <2> QED
    BY <1>1, <2>3, Appended
<1>3. MAX_DMA_PFN * PAGE_SIZE \in Nat
  BY PageSize, ZoneAssumption
<1>4. CASE PagetableInit
  BY <1>2, <1>4, PageSize DEF PagetableInit, LowGoal
<1>5. CASE AllocMemMap
  <2>1. MapSize(max_low_pfn) \in Nat
    BY <1>1, ZoneAssumption DEF MapSize
  <2> QED
    BY <1>2, <1>3, <1>5, <2>1 DEF AllocMemMap, AllocBootmemNode
<1>6. CASE InitFreeArea
  <2> DEFINE bytes == BuddyBytes(SizeOf(max_low_pfn, index), order)
  <2>1. CASE order < MAX_ORDER - 1 /\ pc = "free_area" /\ AllocBootmemNode(bytes)
    <3>1. bytes \in Nat
      BY <2>1, BytesOfStep
    <3> QED
      BY <1>2, <1>3, <2>1, <3>1 DEF AllocBootmemNode
  <2>2. CASE allocs' = allocs
    BY <2>2
  <2> QED
    BY <1>6, <2>1, <2>2 DEF InitFreeArea, bootmem_vars
<1>7. CASE ~(PagetableInit \/ AllocMemMap \/ InitFreeArea)
  <2>1. allocs' = allocs
    BY <1>7 DEF Next, SetupMemoryRegion, InitMemory, RegisterEntry, ReserveKernel,
                ReservePageZero, LoadCr3, InitZone, BuildZonelists, bootmem_vars, vars,
                BM!InitBootmem, BM!FreeBootmem, BM!ReserveBootmem
  <2> QED
    BY <2>1
<1> QED
  BY <1>4, <1>5, <1>6, <1>7

LEMMA MapAlignNat ==
    ASSUME NEW x \in Nat
    PROVE  MapAlign(x) \in Nat
<1>1. SIZEOF_PAGE \in Nat \ {0} /\ x % SIZEOF_PAGE \in 0 .. SIZEOF_PAGE - 1
  BY ZoneAssumption, DivMod
<1> QED
  BY <1>1 DEF MapAlign

LEMMA FunctionIsSeq ==
    ASSUME NEW S, NEW n \in Nat, NEW f \in [1 .. n -> S]
    PROVE  f \in Seq(S) /\ Len(f) = n
  OBVIOUS

LEMMA ZoneType ==
    ASSUME NEW low \in Nat, max_low_pfn = low, NEW j \in Zones
    PROVE  /\ Zone(j) \in ZoneRecord
           /\ PagesOfZone(j) \in Seq(PageRecord)
           /\ Len(PagesOfZone(j)) = SizeOf(low, j)
           /\ \A i \in 1 .. SizeOf(low, j) :
                 PagesOfZone(j)[i]
                    = [zone |-> j, address |-> (FirstOf(low, j) + i - 1) * PAGE_SIZE]
<1> DEFINE size == SizeOf(low, j)
           first == FirstOf(low, j)
<1>1. size \in Nat /\ first \in Nat
  BY ZoneSizeNat
<1>2. PagesMin(size) \in 0 .. BALANCE_MAX /\ 0 \in 0 .. BALANCE_MAX
  <2>1. /\ BALANCE_RATIO \in Nat \ {0} /\ BALANCE_MIN \in Nat /\ BALANCE_MAX \in Nat
        /\ BALANCE_MIN <= BALANCE_MAX
    BY ZoneAssumption
  <2> DEFINE mask == size \div BALANCE_RATIO
  <2>2. mask \in Nat
    <3> HIDE DEF size
    <3> QED
      BY <1>1, <2>1, DivMod
  <2>3. PagesMin(size) = IF mask < BALANCE_MIN THEN BALANCE_MIN
                         ELSE IF mask > BALANCE_MAX THEN BALANCE_MAX ELSE mask
    BY DEF PagesMin
  <2> HIDE DEF mask, size
  <2> QED
    BY <2>1, <2>2, <2>3
<1>3. Zone(j) = IF size = 0 THEN [size |-> 0, start |-> 0, pages_min |-> 0]
                ELSE [size |-> size, start |-> first, pages_min |-> PagesMin(size)]
  BY DEF Zone
<1>4. PagesOfZone(j) = [i \in 1 .. size |->
                           [zone |-> j, address |-> (first + i - 1) * PAGE_SIZE]]
  BY DEF PagesOfZone
<1> HIDE DEF size, first
<1>5. \A i \in 1 .. size : (first + i - 1) * PAGE_SIZE \in Nat
  <2> TAKE i \in 1 .. size
  <2>1. first + i - 1 \in Nat
    BY <1>1
  <2> QED
    BY <2>1, PageSize
<1>6. \A i \in 1 .. size : [zone |-> j, address |-> (first + i - 1) * PAGE_SIZE] \in PageRecord
  BY <1>5 DEF PageRecord
<1>7. PagesOfZone(j) \in Seq(PageRecord) /\ Len(PagesOfZone(j)) = size
  <2>1. PagesOfZone(j) \in [1 .. size -> PageRecord]
    BY <1>4, <1>6
  <2> QED
    BY <1>1, <2>1, FunctionIsSeq
<1>8. Zone(j) \in ZoneRecord
  BY <1>1, <1>2, <1>3 DEF ZoneRecord
<1> QED
  BY <1>4, <1>7, <1>8 DEF size, first

LEMMA TypesKept == PartsInv /\ Types /\ [Next]_vars => Types'
<1> SUFFICES ASSUME PartsInv, Types, [Next]_vars PROVE Types'
  OBVIOUS
<1>1. /\ BMP!IInv /\ max_low_pfn \in Nat /\ MAX_DMA_PFN * PAGE_SIZE \in Nat
      /\ order \in 0 .. MAX_ORDER - 1
  <2>1. MAX_DMA_PFN * PAGE_SIZE \in Nat
    BY PageSize, ZoneAssumption
  <2> QED
    BY <2>1, BootAssumption DEF PartsInv, Control
<1>2. CASE PagetableInit
  <2>1. ~panicked' => Given \in Nat
    BY <1>1, <1>2, PageSize, Allocated DEF PagetableInit, LowGoal
  <2>2. swapper_pg_dir' \in Seq(Nat)
    <3>1. panicked' => swapper_pg_dir' = swapper_pg_dir
      BY <1>2 DEF PagetableInit
    <3>2. ~panicked' => swapper_pg_dir' = Append(swapper_pg_dir, Given)
      BY <1>2 DEF PagetableInit
    <3>3. swapper_pg_dir \in Seq(Nat)
      BY DEF Types
    <3> QED
      BY <2>1, <3>1, <3>2, <3>3
  <2> QED
    BY <1>2, <2>2 DEF PagetableInit, Types, zone_vars
<1>3. CASE LoadCr3
  BY <1>3 DEF LoadCr3, Types, zone_vars
<1>4. CASE AllocMemMap
  <2>1. MapSize(max_low_pfn) \in Nat
    BY <1>1, ZoneAssumption DEF MapSize
  <2>2. ~panicked' => Given \in Nat
    BY <1>1, <1>4, <2>1, Allocated DEF AllocMemMap, AllocBootmemNode
  <2>3. node_mem_map' \in Nat
    BY <1>4, <2>2, MapAlignNat DEF AllocMemMap
  <2> QED
    BY <1>4, <2>3 DEF AllocMemMap, Types, paging_vars
<1>5. CASE InitZone
  <2>1. /\ node_zones' = Append(node_zones, Zone(index))
        /\ page' = IF panicked' THEN page ELSE page \o PagesOfZone(index)
        /\ index \in Zones
    BY <1>5 DEF InitZone
  <2>2. Zone(index) \in ZoneRecord /\ PagesOfZone(index) \in Seq(PageRecord)
    BY <1>1, <2>1, ZoneType
  <2>3. node_zones' \in Seq(ZoneRecord) /\ page' \in Seq(PageRecord)
    <3>1. node_zones \in Seq(ZoneRecord) /\ page \in Seq(PageRecord)
      BY DEF Types
    <3> QED
      BY <2>1, <2>2, <3>1
  <2> QED
    BY <1>5, <2>3 DEF InitZone, Types, paging_vars
<1>6. CASE InitFreeArea
  <2> DEFINE bytes == BuddyBytes(SizeOf(max_low_pfn, index), order)
  <2>1. /\ swapper_pg_dir' = swapper_pg_dir /\ cr3' = cr3 /\ node_mem_map' = node_mem_map
        /\ node_zones' = node_zones /\ page' = page
    BY <1>6 DEF InitFreeArea, paging_vars
  <2>2. CASE buddy' = buddy
    BY <2>1, <2>2 DEF Types
  <2>3. CASE buddy' # buddy
    <3>1. /\ pc = "free_area" /\ order < MAX_ORDER - 1 /\ AllocBootmemNode(bytes) /\ ~panicked'
          /\ buddy' = Append(buddy, [zone |-> index, order |-> order,
                                     addr |-> Given, size |-> bytes])
      BY <1>6, <2>3 DEF InitFreeArea
    <3>2. index \in Zones /\ order \in 0 .. MAX_ORDER - 2 /\ bytes \in Nat
      BY <3>1, BytesOfStep
    <3> HIDE DEF bytes
    <3>3. Given \in Nat
      BY <1>1, <3>1, <3>2, Allocated DEF AllocBootmemNode
    <3>4. [zone |-> index, order |-> order, addr |-> Given, size |-> bytes] \in BuddyRecord
      BY <3>2, <3>3 DEF BuddyRecord
    <3>5. buddy' \in Seq(BuddyRecord)
      BY <3>1, <3>4 DEF Types
    <3> QED
      BY <2>1, <3>5 DEF Types
  <2> QED
    BY <2>2, <2>3
<1>7. CASE ~(PagetableInit \/ LoadCr3 \/ AllocMemMap \/ InitZone \/ InitFreeArea)
  <2>1. UNCHANGED <<swapper_pg_dir, cr3, node_mem_map, node_zones, page, buddy>>
    BY <1>7 DEF Next, SetupMemoryRegion, InitMemory, RegisterEntry, ReserveKernel,
                ReservePageZero, BuildZonelists, vars, paging_vars, zone_vars
  <2> QED
    BY <2>1 DEF Types
<1> QED
  BY <1>2, <1>3, <1>4, <1>5, <1>6, <1>7

LEMMA TypesInit == Init => Types
<1> SUFFICES ASSUME Init PROVE Types
  OBVIOUS
<1>1. \A S : <<>> \in Seq(S)
  OBVIOUS
<1> QED
  BY <1>1 DEF Init, Types

LEMMA AlwaysTypes == Spec => [](PartsInv /\ Types)
<1>1. Init => PartsInv /\ Types
  BY PartsInit, TypesInit
<1>2. PartsInv /\ Types /\ [Next]_vars => (PartsInv /\ Types)'
  BY PartsStep, TypesKept
<1> QED
  BY <1>1, <1>2, PTL DEF Spec

\* Every variable of the boot keeps its type, those of the memory map and of the allocator
\* included, from setup_memory_region to build_zonelists.
THEOREM TypeCorrect == Spec => []TypeOK
<1>1. PartsInv /\ Types => TypeOK
  <2> SUFFICES ASSUME PartsInv, Types PROVE TypeOK
    OBVIOUS
  <2>1. Map!TypeOK
    BY DEF PartsInv, EP!IInv, EP!TypeOK, Map!TypeOK, EP!Entry, Map!Entry
  <2>2. BM!TypeOK
    BY DEF PartsInv, BMP!IInv, BMP!TypeOK, BM!TypeOK, BMP!Pool!Block, BM!Pool!Block
  <2>3. /\ pc \in Early \cup Registration \cup Later
        /\ index \in Nat /\ order \in 0 .. MAX_ORDER - 1 /\ max_low_pfn \in 0 .. MAXMEM_PFN
    BY DEF PartsInv, Control
  <2>4. pc \in {"setup_memory_region", "init_bootmem", "register_bootmem_low_pages",
                "reserve_bootmem", "pagetable_init", "free_area_init", "zone",
                "free_area", "done"}
    BY <2>3 DEF Early, Registration, Later
  <2> QED
    BY <2>1, <2>2, <2>3, <2>4 DEF Types, TypeOK, ZoneRecord, PageRecord, BuddyRecord
<1> QED
  BY <1>1, AlwaysTypes, PTL

-----------------------------------------------------------------------------
(* The arrays of free_area_init_core.                                      *)

\* mem_map is in a block of the size that was asked for it, and the bitmap of an order has
\* the size that its zone calls for.
ArraysInv ==
    /\ pc \notin {"zone", "free_area", "done"} => node_mem_map = 0 /\ buddy = <<>>
    /\ node_mem_map # 0 =>
          \E i \in DOMAIN allocs : /\ allocs[i].size = MapSize(max_low_pfn)
                                   /\ node_mem_map = MapAlign(allocs[i].addr)
    /\ \A k \in DOMAIN buddy :
          LET size == SizeOf(max_low_pfn, buddy[k].zone)
          IN  size # 0 /\ buddy[k].size = BuddyBytes(size, buddy[k].order)

LEMMA ArraysKept == PartsInv /\ Types /\ ArraysInv /\ [Next]_vars => ArraysInv'
<1> SUFFICES ASSUME PartsInv, Types, ArraysInv, [Next]_vars PROVE ArraysInv'
  OBVIOUS
<1>1. /\ BMP!IInv /\ max_low_pfn \in Nat /\ MAX_DMA_PFN * PAGE_SIZE \in Nat
      /\ allocs \in Seq(BMP!Pool!Block)
  <2>1. MAX_DMA_PFN * PAGE_SIZE \in Nat
    BY PageSize, ZoneAssumption
  <2> QED
    BY <2>1, BootAssumption DEF PartsInv, Control, BMP!IInv, BMP!TypeOK
<1>2. \A i \in DOMAIN allocs : i \in DOMAIN allocs' /\ allocs'[i] = allocs[i]
  BY BlocksStay
<1>3. CASE AllocMemMap
  <2>1. /\ pc = "free_area_init" /\ AllocBootmemNode(MapSize(max_low_pfn))
        /\ node_mem_map' = IF panicked' THEN 0 ELSE MapAlign(Given)
        /\ pc' = IF panicked' THEN pc ELSE "zone"
        /\ buddy' = buddy /\ max_low_pfn' = max_low_pfn
    BY <1>3 DEF AllocMemMap, Continue
  <2>2. buddy = <<>>
    BY <2>1 DEF ArraysInv
  <2>3. MapSize(max_low_pfn) \in Nat
    BY <1>1, ZoneAssumption DEF MapSize
  <2>4. CASE panicked'
    BY <2>1, <2>2, <2>4 DEF ArraysInv
  <2>5. CASE ~panicked'
    <3> DEFINE size == MapSize(max_low_pfn)
               new == [addr |-> Given, size |-> size, align |-> SMP_CACHE_BYTES]
               i == Len(allocs')
    <3>1. allocs' = Append(allocs, new)
      BY <1>1, <2>1, <2>3, <2>5, Allocated DEF AllocBootmemNode
    <3> HIDE DEF size
    <3>2. i \in DOMAIN allocs' /\ allocs'[i].size = size
      BY <1>1, <3>1
    <3>3. allocs'[i].addr = Given
      BY DEF Given
    <3> HIDE DEF i
    <3>4. \E k \in DOMAIN allocs' : /\ allocs'[k].size = MapSize(max_low_pfn)
                                    /\ node_mem_map' = MapAlign(allocs'[k].addr)
      BY <2>1, <2>5, <3>2, <3>3 DEF size
    <3> QED
      BY <2>1, <2>2, <2>5, <3>4 DEF ArraysInv
  <2> QED
    BY <2>4, <2>5
<1>4. CASE InitFreeArea
  <2> DEFINE bytes == BuddyBytes(SizeOf(max_low_pfn, index), order)
  <2>1. /\ pc = "free_area" /\ pc' \in {"free_area", "zone"}
        /\ node_mem_map' = node_mem_map /\ max_low_pfn' = max_low_pfn
        /\ buddy' = buddy \/
              /\ order < MAX_ORDER - 1
              /\ buddy' = Append(buddy, [zone |-> index, order |-> order,
                                         addr |-> Given, size |-> bytes])
    BY <1>4 DEF InitFreeArea
  <2>2. node_mem_map' # 0 =>
          \E i \in DOMAIN allocs' : /\ allocs'[i].size = MapSize(max_low_pfn')
                                    /\ node_mem_map' = MapAlign(allocs'[i].addr)
    BY <1>2, <2>1 DEF ArraysInv
  <2>3. CASE buddy' = buddy
    BY <2>1, <2>2, <2>3 DEF ArraysInv
  <2>4. CASE buddy' # buddy
    <3> DEFINE new == [zone |-> index, order |-> order, addr |-> Given, size |-> bytes]
    <3>1. order < MAX_ORDER - 1 /\ buddy' = Append(buddy, new)
      BY <2>1, <2>4
    <3>2. SizeOf(max_low_pfn, index) # 0
      BY <2>1 DEF PartsInv, Control
    <3>3. buddy \in Seq(BuddyRecord)
      BY DEF Types
    <3>4. new.zone = index /\ new.order = order /\ new.size = bytes
      OBVIOUS
    <3> HIDE DEF new
    <3>5. \A k \in DOMAIN buddy' :
             (k \in DOMAIN buddy /\ buddy'[k] = buddy[k]) \/ buddy'[k] = new
      BY <3>1, <3>3
    <3>6. ASSUME NEW k \in DOMAIN buddy'
          PROVE  /\ SizeOf(max_low_pfn', buddy'[k].zone) # 0
                 /\ buddy'[k].size
                      = BuddyBytes(SizeOf(max_low_pfn', buddy'[k].zone), buddy'[k].order)
      <4>1. CASE buddy'[k] = new
        BY <2>1, <3>2, <3>4, <4>1
      <4>2. CASE k \in DOMAIN buddy /\ buddy'[k] = buddy[k]
        BY <2>1, <4>2 DEF ArraysInv
      <4> QED
        BY <3>5, <4>1, <4>2
    <3> QED
      BY <2>1, <2>2, <3>6 DEF ArraysInv
  <2> QED
    BY <2>3, <2>4
<1>5. CASE InitMemory
  BY <1>5 DEF InitMemory, ArraysInv, zone_vars
<1>6. CASE ~(AllocMemMap \/ InitFreeArea \/ InitMemory)
  <2>1. /\ node_mem_map' = node_mem_map /\ buddy' = buddy /\ max_low_pfn' = max_low_pfn
    BY <1>6 DEF Next, SetupMemoryRegion, RegisterEntry, ReserveKernel, ReservePageZero,
                PagetableInit, LoadCr3, InitZone, BuildZonelists, vars, zone_vars
  <2>2. pc \in {"zone", "free_area", "done"} => pc' \in {"zone", "free_area", "done"}
    BY <1>6 DEF Next, SetupMemoryRegion, RegisterEntry, ReserveKernel, ReservePageZero,
                PagetableInit, LoadCr3, InitZone, BuildZonelists, vars, Continue
  <2>3. node_mem_map' # 0 =>
          \E i \in DOMAIN allocs' : /\ allocs'[i].size = MapSize(max_low_pfn')
                                    /\ node_mem_map' = MapAlign(allocs'[i].addr)
    BY <1>2, <2>1 DEF ArraysInv
  <2> QED
    BY <2>1, <2>2, <2>3 DEF ArraysInv
<1> QED
  BY <1>3, <1>4, <1>5, <1>6

LEMMA AlwaysArrays == Spec => [](PartsInv /\ Types /\ ArraysInv)
<1>1. Init => ArraysInv
  BY DEF Init, ArraysInv
<1>2. Init => PartsInv /\ Types
  BY PartsInit, TypesInit
<1>3. PartsInv /\ Types /\ ArraysInv /\ [Next]_vars => (PartsInv /\ Types /\ ArraysInv)'
  BY PartsStep, TypesKept, ArraysKept
<1> QED
  BY <1>1, <1>2, <1>3, PTL DEF Spec

LEMMA InvArraysFit == PartsInv /\ Types /\ ArraysInv => ArraysFit
<1> SUFFICES ASSUME PartsInv, Types, ArraysInv PROVE MemMapFits /\ BuddyBitsFit
  BY DEF ArraysFit
<1>1. BMP!IInv /\ max_low_pfn \in Nat
  BY BootAssumption DEF PartsInv, Control
<1>2. MemMapFits
  <2> SUFFICES ASSUME node_mem_map # 0
               PROVE  /\ node_mem_map % SIZEOF_PAGE = 0
                      /\ \E i \in DOMAIN allocs :
                            /\ allocs[i].addr <= node_mem_map
                            /\ node_mem_map + max_low_pfn * SIZEOF_PAGE
                                  <= allocs[i].addr + allocs[i].size
    BY DEF MemMapFits
  <2>1. PICK i \in DOMAIN allocs : /\ allocs[i].size = MapSize(max_low_pfn)
                                   /\ node_mem_map = MapAlign(allocs[i].addr)
    BY DEF ArraysInv
  <2>2. allocs[i].addr \in Nat
    <3>1. i \in 1 .. Len(allocs)
      BY <1>1 DEF BMP!IInv, BMP!TypeOK
    <3> QED
      BY <1>1, <3>1, PageSize, Arguments, Powers, BMP!BlockTypes
  <2>3. /\ node_mem_map % SIZEOF_PAGE = 0 /\ allocs[i].addr <= node_mem_map
        /\ node_mem_map + max_low_pfn * SIZEOF_PAGE < allocs[i].addr + allocs[i].size
    BY <1>1, <2>1, <2>2, MapFits
  <2>4. /\ node_mem_map \in Nat /\ max_low_pfn * SIZEOF_PAGE \in Nat
        /\ allocs[i].size \in Nat
    BY <1>1, <2>1, ZoneAssumption DEF Types, MapSize
  <2> QED
    BY <2>2, <2>3, <2>4
<1>3. BuddyBitsFit
  <2> SUFFICES ASSUME NEW b \in ToSet(buddy),
                      NEW idx \in 0 .. SizeOf(max_low_pfn, b.zone) - 1
               PROVE  idx \div 2^(b.order + 1) < b.size * 8
    BY DEF BuddyBitsFit
  <2> DEFINE size == SizeOf(max_low_pfn, b.zone)
             pair == 2^(b.order + 1)
             bytes == BuddyBytes(size, b.order)
  <2>1. PICK k \in DOMAIN buddy : b = buddy[k]
    BY DEF ToSet
  <2>2. b \in BuddyRecord
    BY <2>1 DEF Types
  <2>3. b.zone \in Zones /\ b.order \in 0 .. MAX_ORDER - 2 /\ b.order \in Nat
    BY <2>2, PowerPositive DEF BuddyRecord
  <2>4. size \in Nat \ {0} /\ b.size = bytes
    BY <1>1, <2>1, <2>3, ZoneSizeNat DEF ArraysInv
  <2>5. pair \in Nat \ {0} /\ 2^(b.order + 4) = 8 * pair
    BY <2>3, PairOfOrder
  <2>6. (size - 1) \div pair < 8 * bytes /\ bytes \in Nat
    <3> HIDE DEF size, pair
    <3> QED
      BY <2>3, <2>4, <2>5, BitOfLastPair, BuddyBytesNat
  <2>7. idx \div pair <= (size - 1) \div pair
    <3> DEFINE m == idx \div pair
               n == (size - 1) \div pair
    <3>1. idx \in Nat /\ size - 1 \in Nat /\ idx <= size - 1
      <4> HIDE DEF size
      <4>1. idx \in 0 .. size - 1
        BY DEF size
      <4> QED
        BY <2>4, <4>1
    <3> HIDE DEF size, pair
    <3>2. m \in Nat /\ m * pair <= idx
      BY <2>5, <3>1, DivMod
    <3>3. n \in Nat /\ size - 1 < n * pair + pair
      <4> DEFINE top == size - 1
      <4>1. top \in Nat
        BY <3>1
      <4> HIDE DEF top
      <4>2. top \div pair \in Nat /\ top < (top \div pair) * pair + pair
        BY <2>5, <4>1, DivMod
      <4> QED
        BY <4>2 DEF top
    <3>4. n < m => n * pair + pair <= m * pair
      <4> HIDE DEF m, n
      <4> QED
        BY <2>5, <3>2, <3>3, MultOrder
    <3>5. m * pair \in Nat /\ n * pair \in Nat
      <4> HIDE DEF m, n
      <4> QED
        BY <2>5, <3>2, <3>3
    <3> QED
      <4> HIDE DEF m, n
      <4>1. m <= n
        BY <2>4, <2>5, <3>1, <3>2, <3>3, <3>4, <3>5
      <4> QED
        BY <4>1 DEF m, n
  <2>8. idx \div pair \in Nat /\ (size - 1) \div pair \in Nat
    <3>1. idx \in Nat /\ size - 1 \in Nat
      <4> HIDE DEF size
      <4>1. idx \in 0 .. size - 1
        BY DEF size
      <4> QED
        BY <2>4, <4>1
    <3> HIDE DEF size, pair
    <3> QED
      BY <2>5, <3>1, DivMod
  <2> QED
    <3> HIDE DEF size, pair, bytes
    <3>1. idx \div pair < bytes * 8
      BY <2>6, <2>7, <2>8
    <3> QED
      BY <2>4, <3>1 DEF pair
<1> QED
  BY <1>2, <1>3

\* free_area_init_core's arrays fit the blocks that were allocated for them: mem_map wherever
\* MAP_ALIGN moves it, and the bitmap of every order of every zone.
THEOREM ArraysStayInBlocks == Spec => []ArraysFit
BY AlwaysArrays, InvArraysFit, PTL

-----------------------------------------------------------------------------
(* Zones and page structures.                                              *)

\* The frames of the zones before the k-th.
UpTo(k) == IF k \in Zones THEN FirstOf(max_low_pfn, k) ELSE max_low_pfn

\* The zones set up so far are those of ZoneSizes, and each frame before the next zone has
\* its page structure.
FirstZones(n) ==
    /\ Len(node_zones) = n
    /\ \A j \in Zones : j < n => node_zones[j + 1] = Zone(j)

FirstPages(n) ==
    /\ Len(page) = UpTo(n)
    /\ \A i \in DOMAIN page :
          /\ page[i].address = (i - 1) * PAGE_SIZE
          /\ i - 1 \in FramesIn(max_low_pfn, page[i].zone)

PagesInv ==
    /\ pc \notin {"zone", "free_area", "done"} => node_zones = <<>> /\ page = <<>>
    /\ pc = "zone" => ~panicked /\ FirstZones(index) /\ FirstPages(index)
    /\ pc = "free_area" => FirstZones(index + 1) /\ FirstPages(index + 1)
    /\ pc = "done" => ~panicked /\ FirstZones(3) /\ FirstPages(3)

\* A zone starts where the one before it ends, and a zone of some frames at a multiple of
\* the largest block of the page allocator.
LEMMA ZoneFollows ==
    ASSUME NEW j \in Zones, max_low_pfn \in Nat
    PROVE  /\ UpTo(0) = 0 /\ UpTo(3) = max_low_pfn
           /\ UpTo(j) = FirstOf(max_low_pfn, j) /\ UpTo(j) \in Nat
           /\ UpTo(j + 1) = UpTo(j) + SizeOf(max_low_pfn, j)
           /\ SizeOf(max_low_pfn, j) # 0 => FirstOf(max_low_pfn, j) % 2^(MAX_ORDER - 1) = 0
<1> DEFINE low == max_low_pfn
<1>1. PICK n \in 0 .. low :
        /\ SizeOf(low, ZONE_DMA) = n /\ FirstOf(low, ZONE_DMA) = 0
        /\ SizeOf(low, ZONE_NORMAL) = low - n /\ FirstOf(low, ZONE_NORMAL) = n
        /\ SizeOf(low, ZONE_HIGHMEM) = 0 /\ FirstOf(low, ZONE_HIGHMEM) = low
  BY Layout
<1>2. Zones = 0 .. 2 /\ ZONE_DMA = 0 /\ ZONE_NORMAL = 1 /\ ZONE_HIGHMEM = 2
  BY DEF Zones, ZONE_DMA, ZONE_NORMAL, ZONE_HIGHMEM
<1>3. UpTo(0) = 0 /\ UpTo(1) = n /\ UpTo(2) = low /\ UpTo(3) = low
  BY <1>1, <1>2 DEF UpTo
<1>4. 2^(MAX_ORDER - 1) \in Nat \ {0} /\ 0 % 2^(MAX_ORDER - 1) = 0
  <2>1. MAX_ORDER - 1 \in 0 .. MAX_ORDER
    BY PowerPositive
  <2>2. 2^(MAX_ORDER - 1) \in Nat \ {0}
    BY <2>1, PowerPositive
  <2> DEFINE d == 2^(MAX_ORDER - 1)
  <2> HIDE DEF d
  <2>3. d \in Nat \ {0}
    BY <2>2 DEF d
  <2>4. 0 % d = 0 - (0 \div d) * d /\ 0 % d \in 0 .. d - 1 /\ 0 \div d \in Nat
    BY <2>3, DivMod
  <2>5. (0 \div d) * d \in Nat
    BY <2>3, <2>4
  <2> QED
    BY <2>2, <2>4, <2>5 DEF d
<1>5. low - n # 0 => n % 2^(MAX_ORDER - 1) = 0
  <2>1. n = IF low < MAX_DMA_PFN THEN low ELSE MAX_DMA_PFN
    BY <1>1, <1>2 DEF SizeOf, ZoneSizes
  <2>2. MAX_DMA_PFN % 2^(MAX_ORDER - 1) = 0
    BY BootAssumption
  <2>3. CASE low < MAX_DMA_PFN
    BY <2>1, <2>3
  <2>4. CASE ~(low < MAX_DMA_PFN)
    BY <2>1, <2>2, <2>4
  <2> QED
    BY <2>3, <2>4
<1>6. CASE j = 0
  BY <1>1, <1>2, <1>3, <1>4, <1>6
<1>7. CASE j = 1
  BY <1>1, <1>2, <1>3, <1>5, <1>7
<1>8. CASE j = 2
  BY <1>1, <1>2, <1>3, <1>8
<1> QED
  BY <1>2, <1>6, <1>7, <1>8

LEMMA Concatenated ==
    ASSUME NEW S, NEW s \in Seq(S), NEW t \in Seq(S), NEW u, u = s \o t
    PROVE  /\ Len(s) \in Nat /\ Len(t) \in Nat /\ Len(u) = Len(s) + Len(t)
           /\ DOMAIN s = 1 .. Len(s) /\ DOMAIN u = 1 .. Len(s) + Len(t)
           /\ \A i \in 1 .. Len(s) : u[i] = s[i]
           /\ \A i \in 1 .. Len(t) : u[Len(s) + i] = t[i]
  OBVIOUS

LEMMA InitZonePages == PartsInv /\ Types /\ PagesInv /\ InitZone => PagesInv'
<1> SUFFICES ASSUME PartsInv, Types, PagesInv, InitZone PROVE PagesInv'
  OBVIOUS
<1> DEFINE low == max_low_pfn
           size == SizeOf(low, index)
           first == FirstOf(low, index)
           new == PagesOfZone(index)
<1>1. /\ pc = "zone" /\ ~panicked /\ index \in Zones
      /\ panicked' = (size # 0 /\ first % 2^(MAX_ORDER - 1) # 0)
      /\ node_zones' = Append(node_zones, Zone(index))
      /\ page' = IF panicked' THEN page ELSE page \o new
      /\ pc' = IF panicked' THEN pc ELSE IF size = 0 THEN "zone" ELSE "free_area"
      /\ index' = IF size = 0 THEN index + 1 ELSE index
      /\ max_low_pfn' = max_low_pfn
  BY DEF InitZone, Continue
<1>2. low \in Nat /\ Zones = 0 .. 2 /\ index \in 0 .. 2
  BY <1>1, BootAssumption DEF PartsInv, Control, Zones, ZONE_DMA, ZONE_HIGHMEM
<1>3. /\ UpTo(index) = first /\ first \in Nat /\ UpTo(index + 1) = first + size /\ size \in Nat
      /\ size # 0 => first % 2^(MAX_ORDER - 1) = 0
  BY <1>1, <1>2, ZoneFollows, ZoneSizeNat
<1>4. FirstZones(index) /\ FirstPages(index)
  BY <1>1 DEF PagesInv
<1>5. panicked' = FALSE
  BY <1>1, <1>3
<1>6. /\ Zone(index) \in ZoneRecord /\ new \in Seq(PageRecord) /\ Len(new) = size
      /\ \A i \in 1 .. size : new[i] = [zone |-> index, address |-> (first + i - 1) * PAGE_SIZE]
  BY <1>1, <1>2, ZoneType
<1>7. node_zones \in Seq(ZoneRecord) /\ page \in Seq(PageRecord)
  BY DEF Types
<1>8. /\ Len(node_zones') = index + 1
      /\ \A j \in Zones : j < index + 1 => node_zones'[j + 1] = Zone(j)
  <2>1. Len(node_zones) = index /\ \A j \in Zones : j < index => node_zones[j + 1] = Zone(j)
    BY <1>4 DEF FirstZones
  <2>2. /\ Len(node_zones') = index + 1 /\ DOMAIN node_zones = 1 .. index
        /\ node_zones'[index + 1] = Zone(index)
        /\ \A i \in DOMAIN node_zones : node_zones'[i] = node_zones[i]
    BY <1>1, <1>6, <1>7, <2>1, Appended
  <2>3. ASSUME NEW j \in Zones, j < index + 1
        PROVE  node_zones'[j + 1] = Zone(j)
    <3>1. CASE j = index
      BY <2>2, <3>1
    <3>2. CASE j < index
      BY <1>2, <2>1, <2>2, <3>2
    <3> QED
      BY <1>2, <2>3, <3>1, <3>2
  <2> QED
    BY <2>2, <2>3
<1>9. page' = page \o new
  BY <1>1, <1>5
<1> HIDE DEF new, size, first
<1>10. /\ Len(page) = first /\ Len(page') = first + size
       /\ DOMAIN page = 1 .. first /\ DOMAIN page' = 1 .. first + size
       /\ \A i \in 1 .. first : page'[i] = page[i]
       /\ \A k \in 1 .. size : page'[first + k] = new[k]
  <2>1. Len(page) = first
    BY <1>3, <1>4 DEF FirstPages
  <2>2. /\ Len(page') = Len(page) + Len(new)
        /\ DOMAIN page = 1 .. Len(page) /\ DOMAIN page' = 1 .. Len(page) + Len(new)
        /\ \A i \in 1 .. Len(page) : page'[i] = page[i]
        /\ \A k \in 1 .. Len(new) : page'[Len(page) + k] = new[k]
    BY <1>6, <1>7, <1>9, Concatenated
  <2> QED
    BY <1>6, <2>1, <2>2
<1>11. ASSUME NEW i \in 1 .. first + size
       PROVE  /\ page'[i].address = (i - 1) * PAGE_SIZE
              /\ i - 1 \in FramesIn(low, page'[i].zone)
  <2>1. CASE i <= first
    <3>1. i \in DOMAIN page /\ page'[i] = page[i]
      BY <1>3, <1>10, <2>1
    <3> QED
      BY <1>4, <3>1 DEF FirstPages
  <2>2. CASE first < i
    <3> DEFINE k == i - first
    <3>1. k \in 1 .. size /\ first + k - 1 = i - 1 /\ first + k = i
      BY <1>3, <2>2
    <3> HIDE DEF k
    <3>2. page'[i] = new[k]
      BY <1>10, <3>1
    <3>3. new[k] = [zone |-> index, address |-> (first + k - 1) * PAGE_SIZE]
      BY <1>6, <3>1
    <3>4. page'[i].address = (first + k - 1) * PAGE_SIZE /\ page'[i].zone = index
      BY <3>2, <3>3
    <3>5. i - 1 \in FramesIn(low, index)
      <4>1. FramesIn(low, index) = first .. first + size - 1
        BY DEF FramesIn, first, size
      <4> QED
        BY <1>3, <2>2, <4>1
    <3> QED
      BY <3>1, <3>4, <3>5
  <2> QED
    BY <1>3, <2>1, <2>2
<1>12. PICK n \in Nat : n = index + 1
  BY <1>2
<1>13. FirstZones(n)'
  BY <1>1, <1>8, <1>12 DEF FirstZones, Zone
<1>14. FirstPages(n)'
  <2>1. UpTo(n)' = first + size
    BY <1>1, <1>3, <1>12 DEF UpTo
  <2> QED
    BY <1>1, <1>10, <1>11, <2>1 DEF FirstPages
<1>15. CASE size = 0
  <2>1. pc' = "zone" /\ index' = n
    BY <1>1, <1>5, <1>12, <1>15
  <2> QED
    BY <1>5, <1>13, <1>14, <2>1 DEF PagesInv, FirstZones, FirstPages, UpTo
<1>16. CASE size # 0
  <2>1. pc' = "free_area" /\ index' + 1 = n
    BY <1>1, <1>5, <1>12, <1>16
  <2> QED
    BY <1>5, <1>13, <1>14, <2>1 DEF PagesInv, FirstZones, FirstPages, UpTo
<1> QED
  BY <1>15, <1>16

LEMMA PagesKept == PartsInv /\ Types /\ PagesInv /\ [Next]_vars => PagesInv'
<1> SUFFICES ASSUME PartsInv, Types, PagesInv, [Next]_vars PROVE PagesInv'
  OBVIOUS
<1>1. CASE InitZone
  BY <1>1, InitZonePages
<1>2. CASE AllocMemMap
  <2>1. /\ pc = "free_area_init" /\ node_zones' = node_zones /\ page' = page /\ index' = 0
        /\ pc' = IF panicked' THEN pc ELSE "zone"
        /\ max_low_pfn' = max_low_pfn
    BY <1>2 DEF AllocMemMap, Continue, ZONE_DMA
  <2>2. node_zones' = <<>> /\ page' = <<>>
    BY <2>1 DEF PagesInv
  <2>3. UpTo(0)' = 0
    <3>1. max_low_pfn \in Nat /\ 0 \in Zones
      BY BootAssumption DEF PartsInv, Control, Zones, ZONE_DMA, ZONE_HIGHMEM
    <3>2. UpTo(0) = 0
      BY <3>1, ZoneFollows
    <3> QED
      BY <2>1, <3>2 DEF UpTo
  <2>4. FirstZones(0)' /\ FirstPages(0)'
    BY <2>2, <2>3 DEF FirstZones, FirstPages, Zones, ZONE_DMA, ZONE_HIGHMEM
  <2> QED
    BY <2>1, <2>2, <2>4 DEF PagesInv, FirstZones, FirstPages, UpTo
<1>3. CASE InitFreeArea
  <2>1. /\ pc = "free_area" /\ node_zones' = node_zones /\ page' = page
        /\ max_low_pfn' = max_low_pfn
        /\ \/ pc' = "free_area" /\ index' = index
           \/ pc' = "zone" /\ index' = index + 1 /\ panicked' = panicked /\ ~panicked
    BY <1>3 DEF InitFreeArea, bootmem_vars
  <2>2. PICK n : n = index + 1
    OBVIOUS
  <2>3. FirstZones(n) /\ FirstPages(n)
    BY <2>1, <2>2 DEF PagesInv
  <2>4. FirstZones(n)' /\ FirstPages(n)'
    BY <2>1, <2>3 DEF FirstZones, FirstPages, Zone, UpTo
  <2> QED
    BY <2>1, <2>2, <2>4 DEF PagesInv, FirstZones, FirstPages, UpTo
<1>4. CASE BuildZonelists
  <2>1. /\ pc = "zone" /\ pc' = "done" /\ index \notin Zones /\ panicked' = panicked
        /\ node_zones' = node_zones /\ page' = page /\ max_low_pfn' = max_low_pfn
    BY <1>4 DEF BuildZonelists, bootmem_vars, zone_vars
  <2>2. index = 3
    BY <2>1 DEF PartsInv, Control, Zones, ZONE_DMA, ZONE_HIGHMEM
  <2>3. ~panicked /\ FirstZones(3) /\ FirstPages(3)
    BY <2>1, <2>2 DEF PagesInv
  <2>4. FirstZones(3)' /\ FirstPages(3)'
    BY <2>1, <2>3 DEF FirstZones, FirstPages, Zone, UpTo
  <2> QED
    BY <2>1, <2>3, <2>4 DEF PagesInv
<1>5. CASE UNCHANGED vars
  BY <1>5 DEF PagesInv, FirstZones, FirstPages, Zone, UpTo, vars, bootmem_vars, zone_vars
<1>6. CASE SetupMemoryRegion \/ InitMemory \/ RegisterEntry \/ ReserveKernel
              \/ ReservePageZero \/ PagetableInit \/ LoadCr3
  <2>1. /\ node_zones' = node_zones /\ page' = page
        /\ pc \notin {"zone", "free_area", "done"} /\ pc' \notin {"zone", "free_area", "done"}
    BY <1>6 DEF SetupMemoryRegion, InitMemory, RegisterEntry, ReserveKernel, ReservePageZero,
                PagetableInit, LoadCr3, zone_vars, Continue
  <2> QED
    BY <2>1 DEF PagesInv
<1> QED
  BY <1>1, <1>2, <1>3, <1>4, <1>5, <1>6 DEF Next

LEMMA AlwaysPages == Spec => [](PartsInv /\ Types /\ PagesInv)
<1>1. Init => PagesInv
  BY DEF Init, PagesInv
<1>2. Init => PartsInv /\ Types
  BY PartsInit, TypesInit
<1>3. PartsInv /\ Types /\ PagesInv /\ [Next]_vars => (PartsInv /\ Types /\ PagesInv)'
  BY PartsStep, TypesKept, PagesKept
<1> QED
  BY <1>1, <1>2, <1>3, PTL DEF Spec

\* What the zones and the page structures are at the end of the boot.
LEMMA AtTheEnd ==
    ASSUME PartsInv, Types, PagesInv, pc = "done"
    PROVE  /\ max_low_pfn \in Nat
           /\ \A j \in Zones : node_zones[j + 1] = Zone(j)
           /\ Len(page) = max_low_pfn /\ DOMAIN page = 1 .. max_low_pfn
           /\ \A i \in 1 .. max_low_pfn :
                 /\ page[i].zone \in Zones
                 /\ page[i].address = (i - 1) * PAGE_SIZE
                 /\ \A j \in Zones : i - 1 \in FramesIn(max_low_pfn, j) <=> page[i].zone = j
<1>1. max_low_pfn \in Nat
  BY BootAssumption DEF PartsInv, Control
<1>2. FirstZones(3) /\ FirstPages(3)
  BY DEF PagesInv
<1>3. UpTo(3) = max_low_pfn /\ Zones = 0 .. 2
  BY <1>1 DEF UpTo, Zones, ZONE_DMA, ZONE_HIGHMEM
<1>4. \A j \in Zones : node_zones[j + 1] = Zone(j)
  BY <1>2, <1>3 DEF FirstZones
<1>5. page \in Seq(PageRecord) /\ Len(page) = max_low_pfn
  BY <1>2, <1>3 DEF FirstPages, Types
<1>6. DOMAIN page = 1 .. max_low_pfn
  BY <1>5
<1>7. ASSUME NEW i \in 1 .. max_low_pfn
      PROVE  /\ page[i].zone \in Zones
             /\ page[i].address = (i - 1) * PAGE_SIZE
             /\ \A j \in Zones : i - 1 \in FramesIn(max_low_pfn, j) <=> page[i].zone = j
  <2>1. page[i] \in PageRecord
    BY <1>5, <1>6
  <2>2. page[i].zone \in Zones
    BY <2>1 DEF PageRecord
  <2>3. page[i].address = (i - 1) * PAGE_SIZE /\ i - 1 \in FramesIn(max_low_pfn, page[i].zone)
    BY <1>2, <1>6 DEF FirstPages
  <2>4. i - 1 \in 0 .. max_low_pfn - 1
    BY <1>1
  <2>5. \A j, k \in Zones :
          i - 1 \in FramesIn(max_low_pfn, j) \cap FramesIn(max_low_pfn, k) => j = k
    BY <1>1, <2>4, ZonesSplit
  <2> QED
    BY <2>2, <2>3, <2>5
<1> QED
  BY <1>1, <1>4, <1>5, <1>6, <1>7

\* The range a zone tells holds the zone's frames.
LEMMA ZoneRange ==
    ASSUME max_low_pfn \in Nat, NEW j \in Zones, NEW p \in Nat
    PROVE  (Zone(j).start <= p /\ p < Zone(j).start + Zone(j).size)
              <=> p \in FramesIn(max_low_pfn, j)
<1> DEFINE size == SizeOf(max_low_pfn, j)
           first == FirstOf(max_low_pfn, j)
<1>1. size \in Nat /\ first \in Nat
  BY ZoneSizeNat
<1>2. Zone(j) = IF size = 0 THEN [size |-> 0, start |-> 0, pages_min |-> 0]
                ELSE [size |-> size, start |-> first, pages_min |-> PagesMin(size)]
  BY DEF Zone
<1>3. FramesIn(max_low_pfn, j) = first .. first + size - 1
  BY DEF FramesIn
<1> HIDE DEF size, first
<1>4. CASE size = 0
  <2>1. Zone(j).start = 0 /\ Zone(j).size = 0
    BY <1>2, <1>4
  <2> QED
    BY <1>1, <1>3, <1>4, <2>1
<1>5. CASE size # 0
  <2>1. Zone(j).start = first /\ Zone(j).size = size
    BY <1>2, <1>5
  <2> QED
    BY <1>1, <1>3, <2>1
<1> QED
  BY <1>4, <1>5

LEMMA InvPagesMatch == PartsInv /\ Types /\ PagesInv => PagesMatchFrames
<1> SUFFICES ASSUME PartsInv, Types, PagesInv, pc = "done"
             PROVE  /\ Len(page) = max_low_pfn
                    /\ \A i \in DOMAIN page :
                          LET holds(j) == LET z == node_zones[j + 1]
                                          IN  z.start <= i - 1 /\ i - 1 < z.start + z.size
                          IN  /\ page[i].address = (i - 1) * PAGE_SIZE
                              /\ \A j \in Zones : holds(j) <=> page[i].zone = j
                              /\ page[i].zone = ZONE_DMA <=> i <= MAX_DMA_PFN
  BY DEF PagesMatchFrames
<1>1. /\ max_low_pfn \in Nat
      /\ \A j \in Zones : node_zones[j + 1] = Zone(j)
      /\ Len(page) = max_low_pfn /\ DOMAIN page = 1 .. max_low_pfn
      /\ \A i \in 1 .. max_low_pfn :
            /\ page[i].zone \in Zones
            /\ page[i].address = (i - 1) * PAGE_SIZE
            /\ \A j \in Zones : i - 1 \in FramesIn(max_low_pfn, j) <=> page[i].zone = j
  BY AtTheEnd
<1> SUFFICES ASSUME NEW i \in 1 .. max_low_pfn
             PROVE  /\ \A j \in Zones :
                          (/\ node_zones[j + 1].start <= i - 1
                           /\ i - 1 < node_zones[j + 1].start + node_zones[j + 1].size)
                              <=> page[i].zone = j
                    /\ page[i].zone = ZONE_DMA <=> i <= MAX_DMA_PFN
  BY <1>1
<1>2. \A j \in Zones :
         (/\ node_zones[j + 1].start <= i - 1
          /\ i - 1 < node_zones[j + 1].start + node_zones[j + 1].size)
             <=> page[i].zone = j
  <2> TAKE j \in Zones
  <2>1. i - 1 \in Nat
    BY <1>1
  <2>2. (Zone(j).start <= i - 1 /\ i - 1 < Zone(j).start + Zone(j).size)
           <=> i - 1 \in FramesIn(max_low_pfn, j)
    BY <1>1, <2>1, ZoneRange
  <2> QED
    BY <1>1, <2>2
<1>3. page[i].zone = ZONE_DMA <=> i <= MAX_DMA_PFN
  <2>1. MAX_DMA_PFN \in Nat /\ ZONE_DMA \in Zones
    BY ZoneAssumption DEF Zones, ZONE_DMA, ZONE_HIGHMEM
  <2>2. FramesIn(max_low_pfn, ZONE_DMA)
          = 0 .. (IF max_low_pfn < MAX_DMA_PFN THEN max_low_pfn ELSE MAX_DMA_PFN) - 1
    <3>1. FirstOf(max_low_pfn, ZONE_DMA) = 0 /\ SizeOf(max_low_pfn, ZONE_DMA) \in Nat
      BY <1>1, Layout
    <3>2. SizeOf(max_low_pfn, ZONE_DMA)
            = IF max_low_pfn < MAX_DMA_PFN THEN max_low_pfn ELSE MAX_DMA_PFN
      BY DEF SizeOf, ZoneSizes, ZONE_DMA
    <3> QED
      BY <1>1, <2>1, <3>1, <3>2 DEF FramesIn
  <2>3. i - 1 \in FramesIn(max_low_pfn, ZONE_DMA) <=> i <= MAX_DMA_PFN
    BY <1>1, <2>1, <2>2
  <2> QED
    BY <1>1, <2>1, <2>3
<1> QED
  BY <1>2, <1>3

\* At the end of the boot each frame of low memory has one page structure, of the zone whose
\* range holds the frame, and the DMA zone is what the DMA controller reaches.
THEOREM PageStructuresRight == Spec => []PagesMatchFrames
BY AlwaysPages, InvPagesMatch, PTL

\* The zones of the page structures are the zones with frames.
LEMMA ZonesWithPages ==
    ASSUME PartsInv, Types, PagesInv, pc = "done"
    PROVE  {page[i].zone : i \in DOMAIN page} = {j \in Zones : SizeOf(max_low_pfn, j) # 0}
<1> DEFINE low == max_low_pfn
<1>1. /\ low \in Nat
      /\ Len(page) = low /\ DOMAIN page = 1 .. low
      /\ \A i \in 1 .. low :
            /\ page[i].zone \in Zones
            /\ \A j \in Zones : i - 1 \in FramesIn(low, j) <=> page[i].zone = j
  BY AtTheEnd
<1>2. ASSUME NEW j \in Zones
      PROVE  /\ SizeOf(low, j) \in Nat /\ FirstOf(low, j) \in Nat
             /\ FirstOf(low, j) + SizeOf(low, j) <= low
  <2>1. SizeOf(low, j) \in Nat /\ FirstOf(low, j) \in Nat
    BY <1>1, ZoneSizeNat
  <2>2. FirstOf(low, j) + SizeOf(low, j) <= low
    <3>1. PICK n \in 0 .. low :
            /\ SizeOf(low, ZONE_DMA) = n /\ FirstOf(low, ZONE_DMA) = 0
            /\ SizeOf(low, ZONE_NORMAL) = low - n /\ FirstOf(low, ZONE_NORMAL) = n
            /\ SizeOf(low, ZONE_HIGHMEM) = 0 /\ FirstOf(low, ZONE_HIGHMEM) = low
      BY <1>1, Layout
    <3>2. j = ZONE_DMA \/ j = ZONE_NORMAL \/ j = ZONE_HIGHMEM
      BY DEF Zones, ZONE_DMA, ZONE_NORMAL, ZONE_HIGHMEM
    <3>3. CASE j = ZONE_DMA
      BY <1>1, <3>1, <3>3
    <3>4. CASE j = ZONE_NORMAL
      BY <1>1, <3>1, <3>4
    <3>5. CASE j = ZONE_HIGHMEM
      BY <1>1, <3>1, <3>5
    <3> QED
      BY <3>2, <3>3, <3>4, <3>5
  <2> QED
    BY <2>1, <2>2
<1>3. ASSUME NEW i \in DOMAIN page
      PROVE  page[i].zone \in Zones /\ SizeOf(low, page[i].zone) # 0
  <2> DEFINE j == page[i].zone
  <2>1. j \in Zones /\ i - 1 \in FramesIn(low, j) /\ i \in Nat
    BY <1>1
  <2> HIDE DEF j
  <2>2. SizeOf(low, j) # 0
    BY <1>2, <2>1 DEF FramesIn
  <2> QED
    BY <2>1, <2>2 DEF j
<1>4. ASSUME NEW j \in Zones, SizeOf(low, j) # 0
      PROVE  \E i \in DOMAIN page : page[i].zone = j
  <2> DEFINE i == FirstOf(low, j) + 1
  <2>1. i \in 1 .. low /\ i - 1 \in FramesIn(low, j)
    BY <1>1, <1>2, <1>4 DEF FramesIn
  <2> HIDE DEF i
  <2> QED
    BY <1>1, <2>1
<1> QED
  BY <1>3, <1>4

LEMMA EmptyFirst ==
    ASSUME NEW S, NEW s \in Seq(S)
    PROVE  <<>> \o s = s
  OBVIOUS

LEMMA OneThenZero ==
    ASSUME NEW s, s = << 1 >> \o << 0 >>
    PROVE  DOMAIN s = 1 .. 2 /\ s[1] = 1 /\ s[2] = 0
<1>1. << 1 >> \in Seq(Nat) /\ << 0 >> \in Seq(Nat) /\ Len(<< 1 >>) = 1 /\ Len(<< 0 >>) = 1
  OBVIOUS
<1>2. /\ DOMAIN s = 1 .. 1 + 1
      /\ \A i \in 1 .. 1 : s[i] = << 1 >>[i]
      /\ \A i \in 1 .. 1 : s[1 + i] = << 0 >>[i]
  BY <1>1, Concatenated
<1> QED
  BY <1>2

LEMMA InvZonelists == PartsInv /\ Types /\ PagesInv => ZonelistsSound
<1> SUFFICES ASSUME PartsInv, Types, PagesInv, pc = "done", NEW mask \in GfpMasks,
                    NEW list, list = Zonelist([j \in Zones |-> node_zones[j + 1].size], mask)
             PROVE  /\ \A i, k \in DOMAIN list : i < k => list[i] > list[k]
                    /\ ToSet(list) = {page[i].zone : i \in DOMAIN page}
                          \cap (IF "__GFP_DMA" \in mask THEN {ZONE_DMA} ELSE Zones)
  BY DEF ZonelistsSound
<1> DEFINE low == max_low_pfn
           size == [j \in Zones |-> node_zones[j + 1].size]
           normal == "__GFP_DMA" \notin mask /\ SizeOf(low, 1) # 0
           dma == SizeOf(low, 0) # 0
<1>1. Zones = 0 .. 2 /\ ZONE_DMA = 0 /\ ZONE_NORMAL = 1 /\ ZONE_HIGHMEM = 2
  BY DEF Zones, ZONE_DMA, ZONE_NORMAL, ZONE_HIGHMEM
<1>2. low \in Nat /\ \A j \in Zones : node_zones[j + 1] = Zone(j)
  BY AtTheEnd
<1>3. \A j \in Zones : size[j] = SizeOf(low, j)
  <2> TAKE j \in Zones
  <2>1. Zone(j).size = SizeOf(low, j)
    <3>1. CASE SizeOf(low, j) = 0
      BY <3>1 DEF Zone
    <3>2. CASE SizeOf(low, j) # 0
      BY <3>2 DEF Zone
    <3> QED
      BY <3>1, <3>2
  <2> QED
    BY <1>2, <2>1
<1>4. SizeOf(low, 2) = 0
  BY <1>1, <1>2, Layout
<1>5. {page[i].zone : i \in DOMAIN page} = {j \in Zones : SizeOf(low, j) # 0}
  BY ZonesWithPages
<1>6. list = (IF normal THEN << 1 >> ELSE <<>>) \o (IF dma THEN << 0 >> ELSE <<>>)
  <2> DEFINE part(j) == IF j <= GoalZone(mask) /\ size[j] # 0 THEN <<j>> ELSE <<>>
  <2>1. list = part(2) \o part(1) \o part(0)
    BY <1>1 DEF Zonelist
  <2>2. GoalZone(mask) \in 0 .. 2 /\ (1 <= GoalZone(mask) <=> "__GFP_DMA" \notin mask)
    BY <1>1 DEF GoalZone
  <2> HIDE DEF size
  <2>3. part(2) = <<>>
    BY <1>1, <1>3, <1>4
  <2>4. part(1) = IF normal THEN << 1 >> ELSE <<>>
    BY <1>1, <1>3, <2>2
  <2>5. part(0) = IF dma THEN << 0 >> ELSE <<>>
    BY <1>1, <1>3, <2>2
  <2> HIDE DEF part
  <2>6. part(2) \o part(1) = part(1)
    <3>1. part(1) \in Seq(Nat)
      <4>1. << 1 >> \in Seq(Nat) /\ <<>> \in Seq(Nat)
        OBVIOUS
      <4>2. part(1) = << 1 >> \/ part(1) = <<>>
        BY <2>4
      <4> QED
        BY <4>1, <4>2
    <3> QED
      BY <2>3, <3>1, EmptyFirst
  <2> QED
    BY <2>1, <2>4, <2>5, <2>6
<1>7. {j \in Zones : SizeOf(low, j) # 0}
         \cap (IF "__GFP_DMA" \in mask THEN {ZONE_DMA} ELSE Zones)
       = (IF normal THEN {1} ELSE {}) \cup (IF dma THEN {0} ELSE {})
  <2> HIDE DEF low
  <2>1. CASE "__GFP_DMA" \in mask
    BY <1>1, <1>4, <2>1
  <2>2. CASE "__GFP_DMA" \notin mask
    BY <1>1, <1>4, <2>2
  <2> QED
    BY <2>1, <2>2
<1>8. SUFFICES /\ \A i, k \in DOMAIN list : i < k => list[i] > list[k]
               /\ ToSet(list) = (IF normal THEN {1} ELSE {}) \cup (IF dma THEN {0} ELSE {})
  BY <1>5, <1>7
<1> HIDE DEF normal, dma
<1>9. CASE normal /\ dma
  <2>1. list = << 1 >> \o << 0 >>
    BY <1>6, <1>9
  <2>2. DOMAIN list = 1 .. 2 /\ list[1] = 1 /\ list[2] = 0
    BY <2>1, OneThenZero
  <2>3. ToSet(list) = {1, 0}
    BY <2>2 DEF ToSet
  <2> QED
    BY <1>9, <2>2, <2>3
<1>10. CASE normal /\ ~dma
  <2>1. list = << 1 >>
    BY <1>6, <1>10
  <2> QED
    BY <1>10, <2>1 DEF ToSet
<1>11. CASE ~normal /\ dma
  <2>1. list = << 0 >>
    BY <1>6, <1>11
  <2> QED
    BY <1>11, <2>1 DEF ToSet
<1>12. CASE ~normal /\ ~dma
  <2>1. list = <<>> \o <<>>
    BY <1>6, <1>12
  <2>2. DOMAIN list = {}
    BY <2>1
  <2> QED
    BY <1>12, <2>2 DEF ToSet
<1> QED
  BY <1>9, <1>10, <1>11, <1>12

\* build_zonelists: every fallback list holds the zones with memory that may serve the
\* request, the highest first, and of a DMA request only the DMA zone.
THEOREM FallbackListsRight == Spec => []ZonelistsSound
BY AlwaysPages, InvZonelists, PTL

-----------------------------------------------------------------------------
(* Page tables.                                                            *)

\* With no partly used page a table is the first free frame of the node.
LEMMA FirstFreeFrame ==
    ASSUME BMP!IInv, last_offset = 0, BM!AllocBootmem(PAGE_SIZE, PAGE_SIZE, LowGoal),
           ~panicked'
    PROVE  /\ last_offset' = 0
           /\ \E start \in Nat : /\ Given = start * PAGE_SIZE
                                 /\ \A q \in Nat : q < start => q \in node_bootmem_map
<1> DEFINE P == PAGE_SIZE
<1>1. P \in Nat \ {0} /\ 0 * P = 0 /\ 1 * P = P
  BY PageSize
<1>2. BMP!AllocBootmem(P, P, 0)
  BY AllocatorSteps DEF LowGoal
<1>3. BMP!PageDown(0) = 0 /\ BMP!PageDown(P) = 1 /\ BMP!PageUp(P) = 1
  <2>1. PFN_DOWN(0 * P) = 0 /\ PFN_DOWN(1 * P) = 1 /\ PFN_UP(1 * P) = 1
    BY WholeFrames
  <2> QED
    BY <1>1, <2>1 DEF PFN_DOWN, PFN_UP, BMP!PageDown, BMP!PageUp
<1>4. BMP!RoundUp(0, P) = 0
  <2>1. PFN_UP(0 * P) = 0
    BY WholeFrames
  <2>2. (0 + P - 1) \div P = 0
    BY <1>1, <2>1 DEF PFN_UP
  <2>3. BMP!RoundUp(0, P) = ((0 + P - 1) \div P) * P
    BY DEF BMP!RoundUp
  <2> QED
    BY <1>1, <2>2, <2>3
<1>5. BMP!Found(P, P, 0) = BMP!Candidates(0, P, P)
  <2>1. BMP!Preferred(P, 0) = 0
    BY <1>3, <1>4 DEF BMP!Preferred
  <2> QED
    BY <2>1 DEF BMP!Found
<1>6. PICK start \in BMP!Found(P, P, 0) :
         /\ \A other \in BMP!Found(P, P, 0) : start <= other
         /\ \/ BMP!PlaceFresh(start, P, P)
            \/ BMP!PlaceInTail(start, P, P)
            \/ BMP!PlaceAcross(start, P, P)
  BY <1>2 DEF BMP!AllocBootmem
<1>7. BMP!PlaceFresh(start, P, P)
  BY <1>6 DEF BMP!PlaceInTail, BMP!PlaceAcross, BMP!Merges
<1>8. node_low_pfn \in Nat /\ allocs \in Seq(BMP!Pool!Block)
  BY DEF BMP!IInv, BMP!TypeOK
<1>9. start \in Nat /\ start < node_low_pfn
  BY <1>5, <1>8 DEF BMP!Candidates
<1>10. last_offset' = 0
  <2>1. last_offset' = P % P
    BY <1>7 DEF BMP!PlaceFresh, BMP!InPage
  <2>2. (1 * P) % P = 0
    BY <1>1, MultipleMod
  <2> QED
    BY <1>1, <2>1, <2>2
<1>11. Given = start * P
  <2>1. allocs' = Append(allocs, [addr |-> start * P, size |-> P, align |-> P])
    BY <1>7 DEF BMP!PlaceFresh, BMP!Hand
  <2>2. allocs'[Len(allocs')] = [addr |-> start * P, size |-> P, align |-> P]
    BY <1>8, <2>1
  <2> QED
    BY <2>2 DEF Given
<1>12. ASSUME NEW q \in Nat, q < start, q \notin node_bootmem_map
       PROVE  FALSE
  <2>1. q \in 0 .. node_low_pfn - 1 /\ q + 1 <= node_low_pfn
    BY <1>8, <1>9, <1>12
  <2>2. BMP!Incr(P) = 1
    BY <1>1, <1>3 DEF BMP!Incr
  <2>3. BMP!Fits(q, BMP!PageUp(P))
    <3>1. q .. q + 1 - 1 = {q}
      OBVIOUS
    <3> QED
      BY <1>3, <1>12, <2>1, <3>1 DEF BMP!Fits
  <2>4. (q - 0) % 1 = 0
    OBVIOUS
  <2>5. q \in BMP!Candidates(0, P, P)
    BY <2>1, <2>2, <2>3, <2>4 DEF BMP!Candidates
  <2> QED
    BY <1>5, <1>6, <1>9, <1>12, <2>5
<1> QED
  BY <1>9, <1>10, <1>11, <1>12

\* Until cr3 is loaded the blocks handed out are the page tables, a frame each.
TablesInv ==
    /\ pc \in Early \cup Registration => swapper_pg_dir = <<>>
    /\ cr3 = "swapper_pg_dir" =>
          /\ pc \in Later \ {"pagetable_init"}
          /\ max_low_pfn <= Len(swapper_pg_dir) * PTRS_PER_PTE
    /\ pc = "pagetable_init" =>
          /\ last_offset = 0
          /\ Len(allocs) = Len(swapper_pg_dir)
          /\ \A k \in DOMAIN swapper_pg_dir :
                /\ allocs[k].addr = swapper_pg_dir[k] /\ allocs[k].size = PAGE_SIZE
                /\ \E q \in Nat : swapper_pg_dir[k] = q * PAGE_SIZE
    /\ TablesInBootMapping

\* A frame of RAM below the first free one holds a page table.
LEMMA FrameHoldsTable ==
    ASSUME PartsInv, Types, TablesInv, pc = "pagetable_init",
           NEW p \in ram, p \in node_bootmem_map
    PROVE  \E k \in DOMAIN swapper_pg_dir : swapper_pg_dir[k] = p * PAGE_SIZE
<1>1. BMP!IInv /\ p \in Nat /\ allocs \in Seq(BMP!Pool!Block)
  BY DEF PartsInv, BMP!IInv, BMP!TypeOK
<1>2. p \in BMP!AllocPages
  BY <1>1 DEF BMP!IInv, BMP!BitmapExact
<1>3. PICK k \in 1 .. Len(allocs) : p \in BMP!Pool!PagesOf(allocs[k])
  BY <1>2 DEF BMP!AllocPages
<1>4. k \in DOMAIN swapper_pg_dir
  <2>1. swapper_pg_dir \in Seq(Nat) /\ Len(allocs) = Len(swapper_pg_dir)
    BY DEF Types, TablesInv
  <2> QED
    BY <2>1
<1>5. allocs[k].addr = swapper_pg_dir[k] /\ allocs[k].size = PAGE_SIZE
  BY <1>4 DEF TablesInv
<1>6. PICK q \in Nat : swapper_pg_dir[k] = q * PAGE_SIZE
  BY <1>4 DEF TablesInv
<1>7. allocs[k] \in BMP!Pool!Block
  BY <1>1, <1>3, PageSize, Arguments, Powers, BMP!BlockTypes
<1>8. p * PAGE_SIZE < q * PAGE_SIZE + PAGE_SIZE /\ q * PAGE_SIZE < p * PAGE_SIZE + PAGE_SIZE
  <2>1. /\ p * PAGE_SIZE < allocs[k].addr + allocs[k].size
        /\ allocs[k].addr < p * PAGE_SIZE + PAGE_SIZE
    BY <1>1, <1>3, <1>7, PageSize, Arguments, Powers, BMP!PagesOfBlock
  <2> QED
    BY <1>5, <1>6, <2>1
<1>9. /\ p < q => p * PAGE_SIZE + PAGE_SIZE <= q * PAGE_SIZE
      /\ q < p => q * PAGE_SIZE + PAGE_SIZE <= p * PAGE_SIZE
      /\ p * PAGE_SIZE \in Nat /\ q * PAGE_SIZE \in Nat
  BY <1>1, FrameOrder
<1>10. p = q
  BY <1>1, <1>8, <1>9, PageSize
<1> QED
  BY <1>4, <1>6, <1>10

\* A table in the last frame but those of RAM that hold a table already.
LEMMA TableStep == PartsInv /\ Types /\ TablesInv /\ PagetableInit => TablesInv'
<1> SUFFICES ASSUME PartsInv, Types, TablesInv, PagetableInit PROVE TablesInv'
  OBVIOUS
<1>1. /\ pc = "pagetable_init" /\ pc' = pc /\ cr3' = cr3 /\ max_low_pfn' = max_low_pfn
      /\ BM!AllocBootmem(PAGE_SIZE, PAGE_SIZE, LowGoal)
      /\ swapper_pg_dir' = IF panicked' THEN swapper_pg_dir ELSE Append(swapper_pg_dir, Given)
  BY DEF PagetableInit
<1>2. /\ BMP!IInv /\ allocs \in Seq(BMP!Pool!Block) /\ swapper_pg_dir \in Seq(Nat)
  BY DEF PartsInv, Types, BMP!IInv, BMP!TypeOK
<1>3. /\ last_offset = 0 /\ Len(allocs) = Len(swapper_pg_dir)
      /\ \A k \in DOMAIN swapper_pg_dir :
            /\ allocs[k].addr = swapper_pg_dir[k] /\ allocs[k].size = PAGE_SIZE
            /\ \E q \in Nat : swapper_pg_dir[k] = q * PAGE_SIZE
      /\ TablesInBootMapping
  BY <1>1 DEF TablesInv
<1>4. /\ ram' = ram /\ LowGoal \in Nat
      /\ panicked' => allocs' = allocs
      /\ ~panicked' =>
            /\ allocs' = Append(allocs, [addr |-> Given, size |-> PAGE_SIZE, align |-> PAGE_SIZE])
            /\ Given \in Nat
  <2>1. LowGoal \in Nat /\ PAGE_SIZE \in Nat
    BY PageSize DEF LowGoal
  <2> QED
    BY <1>1, <1>2, <2>1, Allocated
<1>5. pc \notin Early \cup Registration /\ cr3 # "swapper_pg_dir"
  BY <1>1 DEF Early, Registration, TablesInv
<1>6. CASE panicked'
  <2>1. last_offset' = last_offset
    <3>1. BMP!AllocBootmem(PAGE_SIZE, PAGE_SIZE, LowGoal)
      BY <1>1, AllocatorSteps
    <3>2. UNCHANGED <<BMP!bdata, allocs>>
      BY <1>2, <1>4, <1>6, <3>1, PageSize, Arguments, Powers, BMP!AllocStep
    <3> QED
      BY <3>2 DEF BMP!bdata
  <2>2. swapper_pg_dir' = swapper_pg_dir /\ allocs' = allocs
    BY <1>1, <1>4, <1>6
  <2> QED
    BY <1>1, <1>3, <1>4, <1>5, <2>1, <2>2 DEF TablesInv, TablesInBootMapping
<1>7. CASE ~panicked'
  <2> DEFINE n == Len(swapper_pg_dir)
             new == [addr |-> Given, size |-> PAGE_SIZE, align |-> PAGE_SIZE]
  <2>1. allocs' = Append(allocs, new) /\ swapper_pg_dir' = Append(swapper_pg_dir, Given)
    BY <1>1, <1>4, <1>7
  <2>2. /\ last_offset' = 0
        /\ \E start \in Nat : /\ Given = start * PAGE_SIZE
                              /\ \A q \in Nat : q < start => q \in node_bootmem_map
    BY <1>1, <1>2, <1>3, <1>7, FirstFreeFrame
  <2>3. PICK start \in Nat : /\ Given = start * PAGE_SIZE
                             /\ \A q \in Nat : q < start => q \in node_bootmem_map
    BY <2>2
  <2>4. /\ Len(swapper_pg_dir') = n + 1 /\ n \in Nat
        /\ DOMAIN swapper_pg_dir = 1 .. n /\ DOMAIN swapper_pg_dir' = 1 .. n + 1
        /\ swapper_pg_dir'[n + 1] = Given
        /\ \A k \in DOMAIN swapper_pg_dir : swapper_pg_dir'[k] = swapper_pg_dir[k]
    BY <1>2, <1>4, <1>7, <2>1, Appended
  <2>5. new \in BMP!Pool!Block
    <3>1. new \in BMP!Pool!Block <=> Given \in Nat /\ PAGE_SIZE \in Nat \ {0}
      BY DEF BMP!Pool!Block
    <3> QED
      BY <1>4, <1>7, <3>1, PageSize
  <2>6. /\ Len(allocs') = n + 1 /\ allocs'[n + 1] = new
        /\ \A k \in DOMAIN swapper_pg_dir : allocs'[k] = allocs[k]
    <3> HIDE DEF new
    <3>1. /\ Len(allocs') = Len(allocs) + 1 /\ DOMAIN allocs = 1 .. Len(allocs)
          /\ allocs'[Len(allocs) + 1] = new
          /\ \A k \in DOMAIN allocs : allocs'[k] = allocs[k]
      BY <1>2, <2>1, <2>5, Appended
    <3> QED
      BY <1>3, <2>4, <3>1
  <2>7. new.addr = Given /\ new.size = PAGE_SIZE
    OBVIOUS
  <2> HIDE DEF n, new
  <2>8. ASSUME NEW k \in DOMAIN swapper_pg_dir'
        PROVE  /\ allocs'[k].addr = swapper_pg_dir'[k] /\ allocs'[k].size = PAGE_SIZE
               /\ \E q \in Nat : swapper_pg_dir'[k] = q * PAGE_SIZE
    <3>1. CASE k = n + 1
      BY <2>3, <2>4, <2>6, <2>7, <3>1
    <3>2. CASE k # n + 1
      <4>1. k \in DOMAIN swapper_pg_dir
        BY <2>4, <3>2
      <4> QED
        BY <1>3, <2>4, <2>6, <4>1
    <3> QED
      BY <3>1, <3>2
  <2>9. ASSUME NEW i \in DOMAIN swapper_pg_dir', ~BootMapped(swapper_pg_dir'[i]),
               NEW p \in ram, BootMapped(p * PAGE_SIZE)
        PROVE  \E k \in 1 .. i : swapper_pg_dir'[k] = p * PAGE_SIZE
    <3>1. CASE i = n + 1
      <4>1. p \in Nat
        BY <1>2 DEF BMP!IInv, BMP!TypeOK
      <4>2. ~(start <= p)
        <5>1. start <= p => start * PAGE_SIZE <= p * PAGE_SIZE
          BY <4>1, FrameOrder
        <5>2. ~BootMapped(start * PAGE_SIZE)
          BY <2>3, <2>4, <2>9, <3>1
        <5>3. /\ start * PAGE_SIZE \in Nat /\ p * PAGE_SIZE \in Nat
              /\ PTRS_PER_PTE * PAGE_SIZE \in Nat
          BY <4>1, PageSize, BootAssumption
        <5>4. /\ p * PAGE_SIZE < PTRS_PER_PTE * PAGE_SIZE
              /\ ~(start * PAGE_SIZE < PTRS_PER_PTE * PAGE_SIZE)
          BY <2>9, <5>2 DEF BootMapped
        <5> QED
          BY <5>1, <5>3, <5>4
      <4>3. p \in node_bootmem_map
        BY <2>3, <4>1, <4>2
      <4>4. PICK k \in DOMAIN swapper_pg_dir : swapper_pg_dir[k] = p * PAGE_SIZE
        BY <1>1, <4>3, FrameHoldsTable
      <4> QED
        BY <2>4, <3>1, <4>4
    <3>2. CASE i # n + 1
      <4>1. i \in DOMAIN swapper_pg_dir /\ i \in 1 .. n
        BY <2>4, <3>2
      <4>2. ~BootMapped(swapper_pg_dir[i])
        BY <2>4, <2>9, <4>1
      <4>3. PICK k \in 1 .. i : swapper_pg_dir[k] = p * PAGE_SIZE
        BY <1>3, <2>9, <4>1, <4>2 DEF TablesInBootMapping
      <4>4. k \in DOMAIN swapper_pg_dir
        BY <2>4, <4>1
      <4> QED
        BY <2>4, <4>3, <4>4
    <3> QED
      BY <3>1, <3>2
  <2>10. TablesInBootMapping'
    BY <1>4, <2>9 DEF TablesInBootMapping, BootMapped
  <2>11. Len(allocs') = Len(swapper_pg_dir')
    BY <2>4, <2>6
  <2> QED
    BY <1>1, <1>5, <2>2, <2>8, <2>10, <2>11 DEF TablesInv
<1> QED
  BY <1>6, <1>7

LEMMA TablesKept == PartsInv /\ Types /\ TablesInv /\ [Next]_vars => TablesInv'
<1> SUFFICES ASSUME PartsInv, Types, TablesInv, [Next]_vars PROVE TablesInv'
  OBVIOUS
<1>1. BMP!IInv /\ Control
  BY DEF PartsInv
<1>2. CASE PagetableInit
  BY <1>2, TableStep
<1>3. CASE SetupMemoryRegion \/ InitMemory \/ RegisterEntry \/ ReserveKernel \/ ReservePageZero
  <2>1. /\ pc \in Early \cup Registration /\ pc' \in Early \cup Registration \cup {"pagetable_init"}
        /\ swapper_pg_dir' = swapper_pg_dir /\ cr3' = cr3
    BY <1>3 DEF SetupMemoryRegion, InitMemory, RegisterEntry, ReserveKernel, ReservePageZero,
                paging_vars, Continue, Early, Registration
  <2>2. swapper_pg_dir = <<>> /\ cr3 # "swapper_pg_dir"
    BY <2>1 DEF TablesInv, Early, Registration, Later
  <2>3. TablesInBootMapping'
    BY <2>1, <2>2 DEF TablesInBootMapping
  <2>4. pc' = "pagetable_init" => last_offset' = 0 /\ allocs' = <<>>
    <3> SUFFICES ASSUME pc' = "pagetable_init" PROVE last_offset' = 0 /\ allocs' = <<>>
      OBVIOUS
    <3>1. ReservePageZero
      BY <1>3 DEF SetupMemoryRegion, InitMemory, RegisterEntry, ReserveKernel, Continue
    <3>2. last_offset' = last_offset /\ allocs' = allocs /\ allocs = <<>>
      BY <1>1, <2>1, <3>1 DEF ReservePageZero, BM!ReserveBootmem, Control
    <3>3. last_offset = 0
      BY <1>1, <3>2, PageSize, Arguments, Powers, BMP!NoTailAtStart
    <3> QED
      BY <3>2, <3>3
  <2> QED
    BY <2>1, <2>2, <2>3, <2>4 DEF TablesInv, Early, Registration, Later
<1>4. CASE LoadCr3
  <2>1. /\ pc = "pagetable_init" /\ pc' = "free_area_init" /\ swapper_pg_dir' = swapper_pg_dir
        /\ ram' = ram /\ max_low_pfn' = max_low_pfn
        /\ Len(swapper_pg_dir) * PTRS_PER_PTE >= max_low_pfn
    BY <1>4 DEF LoadCr3, AllMapped, bootmem_vars
  <2>2. TablesInBootMapping'
    BY <2>1 DEF TablesInv, TablesInBootMapping
  <2>3. max_low_pfn' <= Len(swapper_pg_dir') * PTRS_PER_PTE
    <3>1. Len(swapper_pg_dir) * PTRS_PER_PTE \in Nat /\ max_low_pfn \in Nat
      <4>1. Len(swapper_pg_dir) \in Nat
        BY DEF Types
      <4> QED
        BY <1>1, <4>1, BootAssumption DEF Control
    <3> QED
      BY <2>1, <3>1
  <2> QED
    BY <2>1, <2>2, <2>3 DEF TablesInv, Early, Registration, Later
<1>5. CASE AllocMemMap \/ InitZone \/ InitFreeArea \/ BuildZonelists
  <2>1. /\ pc \in Later \ {"pagetable_init"} /\ pc' \in Later \ {"pagetable_init"}
        /\ swapper_pg_dir' = swapper_pg_dir /\ cr3' = cr3
        /\ max_low_pfn' = max_low_pfn
    BY <1>5 DEF AllocMemMap, InitZone, InitFreeArea, BuildZonelists, Continue, Later, paging_vars
  <2>2. ram' = ram
    BY <1>5 DEF AllocMemMap, InitZone, InitFreeArea, BuildZonelists, AllocBootmemNode,
                BM!AllocBootmem, bootmem_vars
  <2>3. TablesInBootMapping'
    BY <2>1, <2>2 DEF TablesInv, TablesInBootMapping
  <2> QED
    BY <2>1, <2>2, <2>3 DEF TablesInv, Early, Registration, Later
<1>6. CASE UNCHANGED vars
  BY <1>6 DEF TablesInv, TablesInBootMapping, vars, bootmem_vars, paging_vars
<1> QED
  BY <1>2, <1>3, <1>4, <1>5, <1>6 DEF Next

TablesAndParts == PartsInv /\ RamInv /\ Types /\ TablesInv

LEMMA AlwaysTables == Spec => []TablesAndParts
<1>1. Init => TablesInv
  BY DEF Init, TablesInv, TablesInBootMapping
<1>2. Init => PartsInv /\ RamInv /\ Types
  BY PartsInit, RamInvInit, TypesInit
<1>3. TablesAndParts /\ [Next]_vars => TablesAndParts'
  BY PartsStep, RamInvKept, TypesKept, TablesKept DEF TablesAndParts
<1> QED
  BY <1>1, <1>2, <1>3, PTL DEF Spec, TablesAndParts

LEMMA InvReachable == TablesAndParts => MemoryReachable
<1> SUFFICES ASSUME PartsInv, RamInv, Types, TablesInv, cr3 = "swapper_pg_dir",
                    NEW i \in DOMAIN allocs
             PROVE  allocs[i].addr + allocs[i].size
                       <= Len(swapper_pg_dir) * PTRS_PER_PTE * PAGE_SIZE
  BY DEF MemoryReachable, TablesAndParts, TablesInv, LowMemoryMapped
<1>1. BMP!IInv /\ max_low_pfn \in Nat
  BY BootAssumption DEF PartsInv, Control
<1>2. i \in 1 .. Len(allocs)
  BY <1>1 DEF BMP!IInv, BMP!TypeOK
<1> DEFINE end == allocs[i].addr + allocs[i].size
           last_byte == end - 1
           p == last_byte \div PAGE_SIZE
<1>3. /\ allocs[i] \in BMP!Pool!Block /\ allocs[i].addr \in Nat /\ allocs[i].size \in Nat \ {0}
  BY <1>1, <1>2, PageSize, Arguments, Powers, BMP!BlockTypes
<1>4. last_byte \in Nat /\ end = last_byte + 1 /\ allocs[i].addr <= last_byte
  BY <1>3
<1> HIDE DEF end, last_byte
<1>5. /\ p \in Nat /\ p * PAGE_SIZE <= last_byte /\ last_byte < p * PAGE_SIZE + PAGE_SIZE
  BY <1>4, PageSize, DivMod
<1> HIDE DEF p
<1>6. p * PAGE_SIZE \in Nat
  BY <1>5, PageSize
<1>7. p \in BMP!Pool!PagesOf(allocs[i])
  <2>1. p * PAGE_SIZE < end /\ allocs[i].addr < p * PAGE_SIZE + PAGE_SIZE
    BY <1>3, <1>4, <1>5, <1>6, PageSize
  <2>2. p \in Int
    BY <1>5
  <2> QED
    BY <1>3, <2>1, <2>2, PageSize, Arguments, Powers, BMP!PagesOfBlock DEF end
<1>8. p < max_low_pfn
  <2>1. BMP!Pool!PagesOf(allocs[i]) \subseteq ram
    BY <1>1, <1>2 DEF BMP!IInv, BMP!BlocksInRam
  <2> QED
    BY <1>7, <2>1 DEF RamInv
<1> DEFINE frames == Len(swapper_pg_dir) * PTRS_PER_PTE
<1>9. frames \in Nat /\ max_low_pfn <= frames
  <2>1. Len(swapper_pg_dir) \in Nat
    BY DEF Types
  <2> QED
    BY <2>1, BootAssumption DEF TablesInv
<1> HIDE DEF frames
<1>10. p * PAGE_SIZE + PAGE_SIZE <= frames * PAGE_SIZE /\ frames * PAGE_SIZE \in Nat
  BY <1>1, <1>5, <1>8, <1>9, FrameOrder
<1>11. end <= frames * PAGE_SIZE
  BY <1>4, <1>5, <1>6, <1>10, PageSize
<1> QED
  BY <1>11 DEF end, frames

\* pagetable_init writes only to memory that page_create mapped, unless all RAM there holds
\* page tables already, and what was allocated stays mapped when cr3 is loaded.
THEOREM MemoryStaysReachable == Spec => []MemoryReachable
BY AlwaysTables, InvReachable, PTL
-----------------------------------------------------------------------------
(* The frames of the allocator are those that the boot loader reported.    *)

LEMMA PairsKept ==
    PartsInv /\ EP!PairInv /\ EP!GapInv /\ [Next]_vars => EP!PairInv' /\ EP!GapInv'
<1> SUFFICES ASSUME PartsInv, EP!PairInv, EP!GapInv, [Next]_vars
             PROVE  EP!PairInv' /\ EP!GapInv'
  OBVIOUS
<1>1. EP!IInv /\ EP!IInv'
  BY MapKept DEF PartsInv
<1>2. [EP!Next]_(EP!vars)
  <2>1. CASE SetupMemoryRegion
    BY <2>1, MapStep DEF SetupMemoryRegion
  <2>2. CASE ~SetupMemoryRegion
    <3>1. UNCHANGED e820_vars
      BY <2>2 DEF Next, vars, InitMemory, RegisterEntry, ReserveKernel, ReservePageZero,
                  PagetableInit, LoadCr3, AllocMemMap, InitZone, InitFreeArea, BuildZonelists
    <3> QED
      BY <3>1 DEF e820_vars, EP!vars, EP!locals
  <2> QED
    BY <2>1, <2>2
<1>3. EP!PairInv'
  BY <1>1, <1>2, MapParameters, EP!NextPairs
<1> QED
  BY <1>1, <1>2, <1>3, MapParameters, EP!NextGaps

LEMMA PairsInit == Init => EP!PairInv /\ EP!GapInv
<1>1. Init => EP!Init
  BY DEF Init, Map!Init, EP!Init
<1> QED
  BY <1>1, MapParameters, EP!InitPairs, EP!InitGaps

\* The frames below a limit that are wholly inside one entry of RAM.
InEntry(e, low, p) ==
    e.type = Map!E820_RAM /\ FirstPfn(e) <= p /\ p < low /\ p < PFN_DOWN(e.addr + e.size)

\* Such frames of the first n - 1 entries of a map.
FramesBefore(map, low, n) ==
    {p \in Nat : \E k \in DOMAIN map : k < n /\ InEntry(map[k], low, p)}

LEMMA FramesOfEntry ==
    ASSUME NEW e, e.addr \in Nat, e.size \in Nat, max_low_pfn \in Nat, NEW p \in Nat
    PROVE  InEntry(e, max_low_pfn, p) <=> Usable(e) /\ FirstPfn(e) <= p /\ p < LastPfn(e)
<1> DEFINE end == e.addr + e.size
<1>1. end \in Nat
  OBVIOUS
<1>2. PFN_DOWN(end) \in Nat /\ FirstPfn(e) \in Nat
  <2> HIDE DEF end
  <2> QED
    BY <1>1, FrameBounds DEF FirstPfn
<1>3. /\ LastPfn(e) \in Nat /\ LastPfn(e) <= max_low_pfn /\ LastPfn(e) <= PFN_DOWN(end)
      /\ LastPfn(e) = max_low_pfn \/ LastPfn(e) = PFN_DOWN(end)
  BY <1>2, MinOfTwo DEF LastPfn
<1> HIDE DEF end
<1>4. p < LastPfn(e) <=> p < max_low_pfn /\ p < PFN_DOWN(end)
  BY <1>2, <1>3
<1> QED
  BY <1>2, <1>3, <1>4 DEF InEntry, Usable, end

\* Exactly the frames of the entries done are the allocator's, less those reserved.
ExactInv ==
    /\ pc \notin Early => max_low_pfn = Clipped(MaxPfn(e820))
    /\ pc = "register_bootmem_low_pages" /\ ~panicked =>
          ram = FramesBefore(e820, max_low_pfn, index)
    /\ pc = "reserve_bootmem" =>
          ram = FramesBefore(e820, max_low_pfn, Len(e820) + 1) \ KernelFrames
    /\ Registered =>
          ram = (FramesBefore(e820, max_low_pfn, Len(e820) + 1) \ KernelFrames) \ {0}

LEMMA RegisterEntryExact == PartsInv /\ RamInv /\ ExactInv /\ RegisterEntry => ExactInv'
<1> SUFFICES ASSUME PartsInv, RamInv, ExactInv, RegisterEntry PROVE ExactInv'
  OBVIOUS
<1> DEFINE e == e820[index]
<1>1. /\ pc = "register_bootmem_low_pages" /\ index <= Len(e820) /\ ~panicked
      /\ IF Usable(e)
         THEN BM!FreeBootmem(FirstPfn(e) * PAGE_SIZE, (LastPfn(e) - FirstPfn(e)) * PAGE_SIZE)
         ELSE ram' = ram /\ panicked' = panicked
      /\ index' = IF panicked' THEN index ELSE index + 1
      /\ e820' = e820 /\ pc' = pc /\ max_low_pfn' = max_low_pfn
  BY DEF RegisterEntry, After, bootmem_vars, e820_vars
<1>2. /\ e820 \in Seq(EP!Entry) /\ Len(e820) \in Nat /\ DOMAIN e820 = 1 .. Len(e820)
      /\ index \in DOMAIN e820 /\ index \in Nat
      /\ max_low_pfn \in Nat /\ pc \in Registration
  BY <1>1, BootAssumption
     DEF PartsInv, Control, EP!IInv, EP!TypeOK, Early, Registration, Later
<1>3. ram = FramesBefore(e820, max_low_pfn, index) /\ max_low_pfn = Clipped(MaxPfn(e820))
  BY <1>1 DEF ExactInv, Early
<1>5. \A k \in DOMAIN e820 : k < index + 1 <=> k < index \/ k = index
  BY <1>2
<1>6. CASE ~Usable(e)
  <2>1. ram' = ram /\ panicked' = panicked /\ index' = index + 1
    BY <1>1, <1>6
  <2>2. FramesBefore(e820, max_low_pfn, index + 1) = FramesBefore(e820, max_low_pfn, index)
    <3>1. e.addr \in Nat /\ e.size \in Nat
      BY <1>2, MapEntry
    <3>2. \A p \in Nat : ~InEntry(e, max_low_pfn, p)
      <4> HIDE DEF e
      <4> QED
        BY <1>2, <1>6, <3>1, FramesOfEntry
    <3> QED
      BY <1>5, <3>2 DEF FramesBefore
  <2>3. ram' = FramesBefore(e820', max_low_pfn', index')
    BY <1>1, <1>3, <2>1, <2>2
  <2> QED
    BY <1>1, <1>3, <2>3 DEF ExactInv, Registered
<1>7. CASE Usable(e)
  <2>1. e.addr \in Nat /\ e.size \in Nat
    BY <1>2, MapEntry
  <2>2. \A p \in ram : FrameEnd(p) <= e.addr
    BY <1>1, <1>2 DEF RamInv
  <2>3. panicked' = FALSE /\ ram' = ram \cup FirstPfn(e) .. LastPfn(e) - 1
    <3>1. BM!FreeBootmem(FirstPfn(e) * PAGE_SIZE, (LastPfn(e) - FirstPfn(e)) * PAGE_SIZE)
      BY <1>1, <1>7
    <3> HIDE DEF e
    <3> QED
      BY <1>2, <1>7, <2>1, <2>2, <3>1, EntryRegistered
  <2>4. FirstPfn(e) \in Nat /\ LastPfn(e) \in Nat
    <3> HIDE DEF e
    <3> QED
      BY <1>2, <2>1, EntryFrames
  <2>5. \A p : p \in FirstPfn(e) .. LastPfn(e) - 1 <=> p \in Nat /\ InEntry(e, max_low_pfn, p)
    <3> HIDE DEF e
    <3> QED
      BY <1>2, <1>7, <2>1, <2>4, FramesOfEntry
  <2>6. FramesBefore(e820, max_low_pfn, index + 1)
           = FramesBefore(e820, max_low_pfn, index) \cup FirstPfn(e) .. LastPfn(e) - 1
    BY <1>2, <1>5, <2>5 DEF FramesBefore
  <2>7. index' = index + 1
    BY <1>1, <2>3
  <2>8. ram' = FramesBefore(e820', max_low_pfn', index')
    BY <1>1, <1>3, <2>3, <2>6, <2>7
  <2> QED
    BY <1>1, <1>3, <2>8 DEF ExactInv, Registered
<1> QED
  BY <1>6, <1>7

LEMMA ExactKept == PartsInv /\ RamInv /\ ExactInv /\ [Next]_vars => ExactInv'
<1> SUFFICES ASSUME PartsInv, RamInv, ExactInv, [Next]_vars PROVE ExactInv'
  OBVIOUS
<1>0. max_low_pfn' = max_low_pfn => KernelFrames' = KernelFrames
  BY DEF KernelFrames
<1>1. CASE SetupMemoryRegion
  <2>1. pc' \in Early
    BY <1>1 DEF SetupMemoryRegion, Early
  <2> QED
    BY <2>1 DEF ExactInv, Early, Registered
<1>2. CASE InitMemory
  <2>1. /\ pc' = "register_bootmem_low_pages" /\ index' = 1 /\ e820' = e820
        /\ max_low_pfn' = Clipped(MaxPfn(e820)) /\ pc = "init_bootmem" /\ ram' = ram
    BY <1>2 DEF InitMemory, e820_vars, BM!InitBootmem
  <2>2. ram = {}
    BY <2>1 DEF PartsInv, Control, Early, BMP!IInv, BMP!Untouched
  <2>3. FramesBefore(e820', max_low_pfn', index') = {}
    <3>1. \A k \in DOMAIN e820 : ~(k < 1)
      BY DEF PartsInv, EP!IInv, EP!TypeOK
    <3> QED
      BY <2>1, <3>1 DEF FramesBefore
  <2>4. max_low_pfn' = Clipped(MaxPfn(e820'))
    BY <2>1
  <2> QED
    BY <2>1, <2>2, <2>3, <2>4 DEF ExactInv, Registered
<1>3. CASE RegisterEntry
  BY <1>3, RegisterEntryExact
<1>4. CASE ReserveKernel
  <2>1. /\ pc = "register_bootmem_low_pages" /\ index > Len(e820)
        /\ BM!ReserveBootmem(HIGH_MEMORY, KernelSize(max_low_pfn))
        /\ pc' = IF panicked' THEN pc ELSE "reserve_bootmem"
        /\ e820' = e820 /\ index' = index /\ max_low_pfn' = max_low_pfn
    BY <1>4 DEF ReserveKernel, Continue, e820_vars
  <2>2. ~panicked /\ RamOutsideHole
    BY <2>1 DEF RamInv, BM!ReserveBootmem, BM!Registering
  <2>3. ~panicked' => ram' = ram \ KernelFrames
    BY <2>1, <2>2, KernelReserved DEF Registration
  <2>4. ram = FramesBefore(e820, max_low_pfn, index) /\ max_low_pfn = Clipped(MaxPfn(e820))
    BY <2>1, <2>2 DEF ExactInv, Early
  <2>5. FramesBefore(e820, max_low_pfn, index)
           = FramesBefore(e820, max_low_pfn, Len(e820) + 1)
    <3>1. \A k \in DOMAIN e820 : k < index <=> k < Len(e820) + 1
      BY <2>1 DEF PartsInv, Control, EP!IInv, EP!TypeOK
    <3> QED
      BY <3>1 DEF FramesBefore
  <2>6. ~panicked' => ram' = FramesBefore(e820', max_low_pfn', Len(e820') + 1) \ KernelFrames'
    BY <1>0, <2>1, <2>3, <2>4, <2>5
  <2> QED
    BY <2>1, <2>4, <2>6 DEF ExactInv, Registered
<1>5. CASE ReservePageZero
  <2>1. /\ pc = "reserve_bootmem" /\ BM!ReserveBootmem(0, PAGE_SIZE)
        /\ pc' = IF panicked' THEN pc ELSE "pagetable_init"
        /\ e820' = e820 /\ max_low_pfn' = max_low_pfn
    BY <1>5 DEF ReservePageZero, Continue, e820_vars
  <2>2. panicked' = FALSE /\ ram' = ram \ {0}
    BY <2>1, PageZeroReserved DEF RamInv, Registration
  <2>3. /\ ram = FramesBefore(e820, max_low_pfn, Len(e820) + 1) \ KernelFrames
        /\ max_low_pfn = Clipped(MaxPfn(e820))
    BY <2>1 DEF ExactInv, Early
  <2>4. ram' = (FramesBefore(e820', max_low_pfn', Len(e820') + 1) \ KernelFrames') \ {0}
    BY <1>0, <2>1, <2>2, <2>3
  <2> QED
    BY <2>1, <2>2, <2>3, <2>4 DEF ExactInv, Registered
<1>6. CASE PagetableInit \/ LoadCr3 \/ AllocMemMap \/ InitZone \/ InitFreeArea \/ BuildZonelists
  <2>1. ram' = ram /\ max_low_pfn' = max_low_pfn /\ e820' = e820
    BY <1>6 DEF PagetableInit, LoadCr3, AllocMemMap, InitZone, InitFreeArea, BuildZonelists,
                AllocBootmemNode, BM!AllocBootmem, bootmem_vars, e820_vars
  <2>2. Registered /\ pc \notin Early
    BY <1>6 DEF PagetableInit, LoadCr3, AllocMemMap, InitZone, InitFreeArea, BuildZonelists,
                Registered, Early
  <2>3. pc' \notin {"register_bootmem_low_pages", "reserve_bootmem"}
    BY <1>6 DEF PagetableInit, LoadCr3, AllocMemMap, InitZone, InitFreeArea, BuildZonelists,
                Continue
  <2>4. /\ ram = (FramesBefore(e820, max_low_pfn, Len(e820) + 1) \ KernelFrames) \ {0}
        /\ max_low_pfn = Clipped(MaxPfn(e820))
    BY <2>2 DEF ExactInv
  <2>5. ram' = (FramesBefore(e820', max_low_pfn', Len(e820') + 1) \ KernelFrames') \ {0}
    BY <1>0, <2>1, <2>4
  <2> QED
    BY <2>1, <2>3, <2>4, <2>5 DEF ExactInv
<1>7. CASE UNCHANGED vars
  <2>1. /\ e820' = e820 /\ max_low_pfn' = max_low_pfn /\ ram' = ram /\ pc' = pc
        /\ index' = index /\ panicked' = panicked
    BY <1>7 DEF vars, e820_vars, bootmem_vars
  <2>2. /\ FramesBefore(e820', max_low_pfn', index') = FramesBefore(e820, max_low_pfn, index)
        /\ FramesBefore(e820', max_low_pfn', Len(e820') + 1)
              = FramesBefore(e820, max_low_pfn, Len(e820) + 1)
        /\ KernelFrames' = KernelFrames
    BY <1>0, <2>1
  <2> QED
    BY <2>1, <2>2 DEF ExactInv, Registered
<1> QED
  BY <1>1, <1>2, <1>3, <1>4, <1>5, <1>6, <1>7 DEF Next

LEMMA ExactInit == Init => ExactInv
BY DEF Init, ExactInv, Registered, Early

\* The types that the map's bytes have in both modules.
LEMMA SameTypeAt ==
    ASSUME NEW map
    PROVE  /\ \A x : EP!TypeAt(map, x) = Map!TypeAt(map, x)
           /\ EP!Corners(map) = Map!Corners(map)
BY DEF EP!TypeAt, Map!TypeAt, EP!Covers, Map!Covers, EP!Max, Map!Max, EP!Corners, Map!Corners

InFrame(p, x) == p * PAGE_SIZE <= x /\ x < FrameEnd(p)

\* RamFrame looks at the corners of the map; the other bytes are like those before them.
LEMMA RamFrameBytes ==
    ASSUME NEW map \in Seq(EP!Entry), NEW p \in Nat
    PROVE  RamFrame(map, p)
              <=> \A x \in Nat : InFrame(p, x) => EP!TypeAt(map, x) = EP!E820_RAM
<1> DEFINE a == p * PAGE_SIZE
<1>1. a \in Nat /\ FrameEnd(p) = a + PAGE_SIZE /\ a < a + PAGE_SIZE
  BY PageSize DEF FrameEnd
<1>2. EP!E820_RAM = Map!E820_RAM
  BY DEF EP!E820_RAM, Map!E820_RAM
<1>3. EP!Corners(map) \subseteq Nat
  BY MapEntry DEF EP!Corners
<1>4. RamFrame(map, p)
        <=> /\ EP!TypeAt(map, a) = EP!E820_RAM
            /\ \A c \in EP!Corners(map) : a < c /\ c < a + PAGE_SIZE =>
                    EP!TypeAt(map, c) = EP!E820_RAM
  <2> HIDE DEF a
  <2> QED
    BY <1>2, SameTypeAt DEF RamFrame, a
<1> HIDE DEF a
<1>5. ASSUME RamFrame(map, p), NEW x \in Nat, InFrame(p, x)
      PROVE  EP!TypeAt(map, x) = EP!E820_RAM
  <2>1. a <= x /\ x < a + PAGE_SIZE
    BY <1>1, <1>5 DEF InFrame, a
  <2>2. /\ EP!TypeAt(map, a) = EP!E820_RAM
        /\ \A c \in EP!Corners(map) : a < c /\ c < a + PAGE_SIZE =>
              EP!TypeAt(map, c) = EP!E820_RAM
    BY <1>4, <1>5
  <2>3. PAGE_SIZE \in Nat
    BY PageSize
  <2> QED
    BY <1>1, <2>1, <2>2, <2>3, MapParameters, EP!CornersSuffice
<1>6. ASSUME \A x \in Nat : InFrame(p, x) => EP!TypeAt(map, x) = EP!E820_RAM
      PROVE  RamFrame(map, p)
  <2>1. \A x \in Nat : a <= x /\ x < a + PAGE_SIZE => InFrame(p, x)
    BY <1>1 DEF InFrame, a
  <2>2. a <= a
    BY <1>1
  <2>3. \A c \in Nat : a < c => a <= c
    BY <1>1
  <2> QED
    BY <1>1, <1>3, <1>4, <1>6, <2>1, <2>2, <2>3
<1> QED
  BY <1>5, <1>6

\* A frame of an entry is RAM throughout.
LEMMA EntryFrameRam ==
    ASSUME NEW e, e.addr \in Nat, e.size \in Nat, NEW low, NEW p \in Nat, InEntry(e, low, p),
           NEW x \in Nat, InFrame(p, x)
    PROVE  EP!RamOver(e, x)
<1> DEFINE end == e.addr + e.size
<1>1. end \in Nat
  OBVIOUS
<1>2. /\ PFN_DOWN(end) \in Nat /\ PFN_DOWN(end) * PAGE_SIZE <= end
      /\ PFN_UP(e.addr) \in Nat /\ e.addr <= PFN_UP(e.addr) * PAGE_SIZE
  <2> HIDE DEF end
  <2> QED
    BY <1>1, FrameBounds
<1>3. PFN_UP(e.addr) <= p /\ p < PFN_DOWN(end) /\ e.type = EP!E820_RAM
  BY DEF InEntry, FirstPfn, Map!E820_RAM, EP!E820_RAM
<1> HIDE DEF end
<1>4. /\ PFN_UP(e.addr) * PAGE_SIZE <= p * PAGE_SIZE
      /\ p * PAGE_SIZE + PAGE_SIZE <= PFN_DOWN(end) * PAGE_SIZE
      /\ p * PAGE_SIZE \in Nat /\ PFN_UP(e.addr) * PAGE_SIZE \in Nat
      /\ PFN_DOWN(end) * PAGE_SIZE \in Nat
  BY <1>2, <1>3, FrameOrder
<1>5. e.addr <= x /\ x < end
  <2>1. p * PAGE_SIZE <= x /\ x < p * PAGE_SIZE + PAGE_SIZE
    BY DEF InFrame, FrameEnd
  <2> QED
    BY <1>1, <1>2, <1>4, <2>1, PageSize
<1> QED
  BY <1>3, <1>5 DEF EP!RamOver, EP!Covers, end

\* A frame between the ends of an entry of RAM is one of its frames.
LEMMA FrameOfEntry ==
    ASSUME NEW e, e.addr \in Nat, e.size \in Nat, e.type = Map!E820_RAM, NEW low,
           NEW p \in Nat, p < low, e.addr <= p * PAGE_SIZE, FrameEnd(p) <= e.addr + e.size
    PROVE  InEntry(e, low, p)
<1> DEFINE end == e.addr + e.size
<1>1. end \in Nat /\ FrameEnd(p) <= end
  OBVIOUS
<1>2. /\ p * PAGE_SIZE \in Nat /\ p + 1 \in Nat /\ (p + 1) * PAGE_SIZE \in Nat
      /\ (p + 1) * PAGE_SIZE = FrameEnd(p)
  BY PageSize DEF FrameEnd
<1>3. PFN_UP(p * PAGE_SIZE) = p /\ PFN_DOWN((p + 1) * PAGE_SIZE) = p + 1
  BY <1>2, WholeFrames
<1>4. PFN_UP(e.addr) <= p
  <2>1. PFN_UP(e.addr) <= PFN_UP(p * PAGE_SIZE)
    BY <1>2, UpOrder
  <2> QED
    BY <1>3, <2>1
<1>5. p + 1 <= PFN_DOWN(end) /\ PFN_DOWN(end) \in Nat
  <2> HIDE DEF end
  <2>1. PFN_DOWN((p + 1) * PAGE_SIZE) <= PFN_DOWN(end)
    BY <1>1, <1>2, DownOrder
  <2>2. PFN_DOWN(end) \in Nat
    BY <1>1, FrameBounds
  <2> QED
    BY <1>3, <2>1, <2>2
<1>6. p < PFN_DOWN(end)
  <2> HIDE DEF end
  <2> QED
    BY <1>5
<1> QED
  BY <1>4, <1>6 DEF InEntry, FirstPfn

\* find_max_pfn finds a byte of RAM behind every frame it counts.
LEMMA RamBehind ==
    ASSUME NEW map \in Seq(EP!Entry), NEW p \in Nat, p < MaxPfn(map)
    PROVE  \E y \in Nat : FrameEnd(p) <= y + 1 /\ EP!RamIn(map, y)
<1> DEFINE n == MaxPfn(map)
<1>1. n \in Nat /\ n # 0
  BY MaxPfnNat
<1>2. PICK i \in DOMAIN map : /\ map[i].type = Map!E820_RAM /\ PFN_UP(map[i].addr) < n
                              /\ n = PFN_DOWN(map[i].addr + map[i].size)
  BY <1>1, MaxPfnNat
<1> DEFINE end == map[i].addr + map[i].size
<1>3. map[i].addr \in Nat /\ map[i].size \in Nat /\ end \in Nat
  BY MapEntry
<1>4. /\ n * PAGE_SIZE <= end
      /\ PFN_UP(map[i].addr) \in Nat /\ map[i].addr <= PFN_UP(map[i].addr) * PAGE_SIZE
  <2>1. n = PFN_DOWN(end)
    BY <1>2
  <2> HIDE DEF end, n
  <2> QED
    BY <1>3, <2>1, FrameBounds
<1> HIDE DEF end, n
<1>5. /\ PFN_UP(map[i].addr) * PAGE_SIZE + PAGE_SIZE <= n * PAGE_SIZE
      /\ PFN_UP(map[i].addr) * PAGE_SIZE \in Nat /\ n * PAGE_SIZE \in Nat
  BY <1>1, <1>2, <1>4, FrameOrder
<1>6. p * PAGE_SIZE + PAGE_SIZE <= n * PAGE_SIZE /\ p * PAGE_SIZE \in Nat
  <2>1. p < n
    BY DEF n
  <2> QED
    BY <1>1, <2>1, FrameOrder
<1>7. map[i].addr < end
  <2>1. \A a, u, m \in Nat : a <= u /\ u + PAGE_SIZE <= m /\ m <= end => a < end
    BY <1>3, PageSize
  <2> QED
    BY <1>3, <1>4, <1>5, <2>1
<1>8. PICK y \in Nat : end = y + 1
  <2>1. end - 1 \in Nat /\ end = (end - 1) + 1
    BY <1>3, <1>7
  <2> QED
    BY <2>1
<1>9. FrameEnd(p) <= y + 1
  <2>1. \A f, m \in Nat : f + PAGE_SIZE <= m /\ m <= end => f + PAGE_SIZE <= end
    BY <1>3, PageSize
  <2>2. p * PAGE_SIZE + PAGE_SIZE <= end
    BY <1>4, <1>5, <1>6, <2>1
  <2> QED
    BY <1>8, <2>2 DEF FrameEnd
<1>10. EP!RamOver(map[i], y)
  <2>1. map[i].addr <= y /\ y < end
    BY <1>3, <1>7, <1>8
  <2> QED
    BY <1>2, <2>1 DEF EP!RamOver, EP!Covers, end, Map!E820_RAM, EP!E820_RAM
<1> QED
  BY <1>9, <1>10 DEF EP!RamIn

\* The low words that init_biosmap keeps tell every address and size.
WordsSuffice == Map!LowWords(mmap) = mmap

LEMMA SamePairs ==
    ASSUME WordsSuffice, Map!MeetsInPairs(mmap)
    PROVE  EP!LowWords(mmap) = mmap /\ EP!Pairs
<1>1. EP!LowWords(mmap) = mmap
  BY DEF WordsSuffice, EP!LowWords, Map!LowWords
<1>2. \A S : EP!Cardinality(S) = Map!Cardinality(S)
  BY DEF EP!Cardinality, Map!Cardinality
<1>3. EP!Corners(mmap) = Map!Corners(mmap)
  BY SameTypeAt
<1>4. EP!MeetsInPairs(mmap)
  BY <1>2, <1>3 DEF EP!MeetsInPairs, Map!MeetsInPairs
<1> QED
  BY <1>1, <1>4 DEF EP!Pairs

LEMMA RamReported ==
    ASSUME PartsInv, EP!GapInv, WordsSuffice, Map!MeetsInPairs(mmap), stage = "done",
           NEW x \in Nat, NEW y \in Nat, x <= y, EP!RamIn(e820, y)
    PROVE  EP!RamIn(e820, x) <=> EP!TypeAt(mmap, x) = EP!E820_RAM /\ ~EP!InHole(x)
<1>1. EP!LowWords(mmap) = mmap
  BY SamePairs
<1>2. EP!Pairs
  BY SamePairs
<1>3. EP!IInv
  BY DEF PartsInv
<1>4. EP!RamIn(e820, x)
        <=> EP!TypeAt(EP!LowWords(mmap), x) = EP!E820_RAM /\ ~EP!InHole(x)
  BY <1>2, <1>3, MapParameters, EP!RamMatches
<1> QED
  BY <1>1, <1>4

\* Frames that are not taken lie outside the hole, and but for the one behind the taken
\* frames setup_memory leaves them alone.
LEMMA NotTaken ==
    ASSUME max_low_pfn \in Nat, NEW p \in Nat, p \notin TakenFrames
    PROVE  /\ p # 0
           /\ FrameEnd(p) <= LOW_END \/ HIGH_MEMORY <= p * PAGE_SIZE
           /\ p # Max(TakenFrames) + 1 => p \notin KernelFrames
<1> DEFINE start == StartPfn * PAGE_SIZE
           bits == start + BitmapSize(max_low_pfn)
           top == bits + PAGE_SIZE - 1
           low == PFN_DOWN(LOW_END)
           high == PFN_DOWN(HIGH_MEMORY)
           e1 == PFN_UP(bits)
           e2 == PFN_UP(top)
<1>1. /\ StartPfn \in Nat /\ start \in Nat /\ HIGH_MEMORY \in Nat /\ HIGH_MEMORY < start
      /\ BitmapSize(max_low_pfn) \in Nat /\ BitmapSize(max_low_pfn) > 0
  <2>1. (max_low_pfn + 8) \div 8 > 0 /\ (max_low_pfn + 8) \div 8 \in Nat
    OBVIOUS
  <2> QED
    BY <2>1, KernelEnd
<1>2. LOW_END \in Nat /\ LOW_END < HIGH_MEMORY
  BY MapParameters DEF EP!Parameters
<1> HIDE DEF start
<1>3. bits \in Nat /\ start < bits /\ top \in Nat /\ top = bits + (PAGE_SIZE - 1)
  BY <1>1, PageSize
<1>4. /\ low \in Nat /\ high \in Nat /\ low * PAGE_SIZE <= LOW_END /\ low <= high
      /\ high * PAGE_SIZE <= HIGH_MEMORY
  BY <1>1, <1>2, FrameBounds, DownOrder
<1> HIDE DEF bits, top, low, high
<1>5. /\ e1 \in Nat /\ e2 \in Nat /\ bits <= e1 * PAGE_SIZE
      /\ e2 * PAGE_SIZE < top + PAGE_SIZE
  BY <1>3, FrameBounds
<1> HIDE DEF e1, e2
<1>6. e1 * PAGE_SIZE \in Nat /\ e2 * PAGE_SIZE \in Nat
  BY <1>5, PageSize
<1>7. StartPfn < e1
  <2>1. e1 <= StartPfn => e1 * PAGE_SIZE <= start
    BY <1>1, <1>5, FrameOrder DEF start
  <2> QED
    BY <1>1, <1>3, <1>5, <1>6, <2>1
<1>8. e2 <= e1 + 1
  <2>1. (e1 + 1) * PAGE_SIZE = e1 * PAGE_SIZE + PAGE_SIZE /\ e1 + 1 \in Nat
    BY <1>5, PageSize
  <2>2. e1 + 1 < e2 => (e1 + 1) * PAGE_SIZE + PAGE_SIZE <= e2 * PAGE_SIZE
    BY <1>5, <2>1, FrameOrder
  <2> QED
    BY <1>3, <1>5, <1>6, <2>1, <2>2, PageSize
<1>9. TakenFrames = ({0} \cup low .. StartPfn - 1) \cup StartPfn .. e1 - 1
  <2>1. PFN_DOWN(start) = StartPfn
    BY <1>1, WholeFrames DEF start
  <2> QED
    BY <2>1 DEF TakenFrames, FramesOf, start, bits, low, e1
<1>10. Max(TakenFrames) = e1 - 1
  <2> DEFINE T == TakenFrames
  <2>1. e1 - 1 \in T /\ \A q \in T : q \in Nat /\ q <= e1 - 1
    BY <1>1, <1>4, <1>5, <1>7, <1>9
  <2> HIDE DEF T
  <2>2. Max(T) = CHOOSE x \in T : \A y \in T : x >= y
    BY DEF Max
  <2>3. \A y \in T : e1 - 1 >= y
    BY <1>5, <2>1
  <2>4. Max(T) \in T /\ \A y \in T : Max(T) >= y
    BY <2>1, <2>2, <2>3
  <2>5. Max(T) >= e1 - 1 /\ Max(T) <= e1 - 1 /\ Max(T) \in Nat
    BY <2>1, <2>4
  <2> QED
    BY <1>5, <2>5 DEF T
<1>11. KernelFrames = high .. e2 - 1
  BY DEF KernelFrames, high, e2, top, bits, start
<1>12. p # 0 /\ (p < low \/ e1 <= p)
  BY <1>1, <1>4, <1>5, <1>7, <1>9
<1>13. CASE p < low
  <2>1. p * PAGE_SIZE + PAGE_SIZE <= low * PAGE_SIZE
    BY <1>4, <1>13, FrameOrder
  <2>2. p * PAGE_SIZE \in Nat /\ low * PAGE_SIZE \in Nat
    BY <1>4, PageSize
  <2>3. FrameEnd(p) <= LOW_END
    BY <1>2, <1>4, <2>1, <2>2, PageSize DEF FrameEnd
  <2>4. p \notin KernelFrames
    BY <1>4, <1>11, <1>13
  <2> QED
    BY <1>12, <2>3, <2>4
<1>14. CASE e1 <= p
  <2>1. start <= p * PAGE_SIZE /\ p * PAGE_SIZE \in Nat
    <3>1. StartPfn <= p
      BY <1>1, <1>5, <1>7, <1>14
    <3> QED
      BY <1>1, <3>1, FrameOrder DEF start
  <2>2. HIGH_MEMORY <= p * PAGE_SIZE
    BY <1>1, <2>1
  <2>3. ASSUME p # Max(TakenFrames) + 1 PROVE p \notin KernelFrames
    <3>1. p # e1
      BY <1>5, <1>10, <2>3
    <3>2. e2 <= p
      BY <1>5, <1>8, <1>14, <3>1
    <3> QED
      BY <1>4, <1>5, <1>11, <3>2
  <2> QED
    BY <1>12, <2>2, <2>3
<1> QED
  BY <1>12, <1>13, <1>14

LEMMA InvRamExact ==
    PartsInv /\ RamInv /\ EP!GapInv /\ ExactInv /\ WordsSuffice => RamExact
<1> SUFFICES ASSUME PartsInv, RamInv, EP!GapInv, ExactInv, WordsSuffice, Registered,
                    Map!MeetsInPairs(mmap)
             PROVE  /\ \A p \in ram : /\ p \in 0 .. max_low_pfn - 1 /\ RamFrame(mmap, p)
                                      /\ p \notin TakenFrames
                    /\ \A p \in 0 .. max_low_pfn - 1 :
                          RamFrame(mmap, p) /\ p \notin TakenFrames
                             /\ p # Max(TakenFrames) + 1 => p \in ram
  BY DEF RamExact
<1>1. /\ stage = "done" /\ max_low_pfn \in Nat /\ EP!IInv
      /\ e820 \in Seq(EP!Entry) /\ EP!Ordered(e820)
      /\ mmap \in Seq(EP!Entry)
  <2>1. stage = "done" /\ max_low_pfn \in Nat
    BY BootAssumption DEF PartsInv, Control, Registered
  <2>2. EP!IInv
    BY DEF PartsInv
  <2>3. e820 \in Seq(EP!Entry) /\ EP!Ordered(e820) /\ mmap \in MemoryMaps
    BY <2>1, <2>2 DEF EP!IInv, EP!TypeOK, EP!CopiedInOrder, EP!Copying
  <2> QED
    BY <2>1, <2>2, <2>3, MapParameters DEF EP!Parameters
<1>2. ram = (FramesBefore(e820, max_low_pfn, Len(e820) + 1) \ KernelFrames) \ {0}
  BY DEF ExactInv
<1>3. \A k \in DOMAIN e820 : k < Len(e820) + 1
  BY <1>1
<1>4. EP!E820_RAM = Map!E820_RAM
  BY DEF EP!E820_RAM, Map!E820_RAM
<1>5. ASSUME NEW p \in ram
      PROVE  /\ p \in 0 .. max_low_pfn - 1 /\ RamFrame(mmap, p) /\ p \notin TakenFrames
  <2>1. /\ p \in FramesBefore(e820, max_low_pfn, Len(e820) + 1)
        /\ p < max_low_pfn /\ p \notin TakenFrames
    BY <1>2 DEF RamInv
  <2>2. p \in Nat /\ \E k \in DOMAIN e820 : InEntry(e820[k], max_low_pfn, p)
    BY <2>1 DEF FramesBefore
  <2>3. PICK k \in DOMAIN e820 : InEntry(e820[k], max_low_pfn, p)
    BY <2>2
  <2>4. e820[k].addr \in Nat /\ e820[k].size \in Nat
    BY <1>1, MapEntry
  <2>5. ASSUME NEW x \in Nat, InFrame(p, x)
        PROVE  EP!TypeAt(mmap, x) = EP!E820_RAM
    <3>1. EP!RamIn(e820, x)
      BY <2>2, <2>3, <2>4, <2>5, EntryFrameRam DEF EP!RamIn
    <3>2. x <= x
      OBVIOUS
    <3> QED
      BY <1>1, <3>1, <3>2, RamReported
  <2>6. RamFrame(mmap, p)
    BY <1>1, <2>2, <2>5, RamFrameBytes
  <2> QED
    BY <1>1, <2>1, <2>2, <2>6
<1>6. ASSUME NEW p \in 0 .. max_low_pfn - 1, RamFrame(mmap, p), p \notin TakenFrames,
             p # Max(TakenFrames) + 1
      PROVE  p \in ram
  <2>1. p \in Nat /\ p < max_low_pfn
    BY <1>1
  <2>2. /\ p # 0 /\ p \notin KernelFrames
        /\ FrameEnd(p) <= LOW_END \/ HIGH_MEMORY <= p * PAGE_SIZE
    BY <1>1, <1>6, <2>1, NotTaken
  <2>3. PICK y \in Nat : FrameEnd(p) <= y + 1 /\ EP!RamIn(e820, y)
    <3>1. MaxPfn(e820) \in Nat
      BY <1>1, MaxPfnNat
    <3>2. max_low_pfn = Clipped(MaxPfn(e820))
      BY DEF ExactInv, Registered, Early
    <3>3. max_low_pfn <= MaxPfn(e820)
      BY <3>1, <3>2, BootAssumption, MinOfTwo DEF Clipped
    <3>4. p < MaxPfn(e820)
      BY <1>1, <2>1, <3>1, <3>3
    <3> QED
      BY <1>1, <2>1, <3>4, RamBehind
  <2>4. /\ p * PAGE_SIZE \in Nat /\ FrameEnd(p) = p * PAGE_SIZE + PAGE_SIZE
        /\ FrameEnd(p) \in Nat
    BY <2>1, PageSize DEF FrameEnd
  <2>5. ASSUME NEW x \in Nat, InFrame(p, x) PROVE EP!RamIn(e820, x)
    <3>1. p * PAGE_SIZE <= x /\ x < FrameEnd(p)
      BY <2>5 DEF InFrame
    <3>2. x <= y
      BY <2>3, <2>4, <3>1
    <3>3. EP!TypeAt(mmap, x) = EP!E820_RAM
      BY <1>1, <1>6, <2>1, <2>5, RamFrameBytes
    <3>4. ~EP!InHole(x)
      <4>1. LOW_END \in Nat /\ HIGH_MEMORY \in Nat
        BY MapParameters DEF EP!Parameters
      <4> QED
        BY <2>2, <2>4, <3>1, <4>1 DEF EP!InHole
    <3> QED
      BY <1>1, <2>3, <3>2, <3>3, <3>4, RamReported
  <2>6. PICK k \in DOMAIN e820 :
            EP!IsRam(e820[k]) /\ e820[k].addr <= p * PAGE_SIZE
               /\ FrameEnd(p) <= EP!End(e820[k])
    <3>1. EP!Gapped(e820)
      <4>1. EP!Pairs
        BY SamePairs
      <4> QED
        BY <1>1, <4>1 DEF EP!GapInv, EP!Copying
    <3>2. EP!RamThroughout(e820, p * PAGE_SIZE, PAGE_SIZE)
      BY <2>4, <2>5 DEF InFrame, EP!RamThroughout
    <3>3. \E k \in DOMAIN e820 :
              EP!IsRam(e820[k]) /\ e820[k].addr <= p * PAGE_SIZE
                 /\ p * PAGE_SIZE + PAGE_SIZE <= EP!End(e820[k])
      BY <1>1, <2>4, <3>1, <3>2, PageSize, MapParameters, EP!RunOfRam
    <3> QED
      BY <2>4, <3>3
  <2>7. /\ e820[k].addr \in Nat /\ e820[k].size \in Nat
        /\ EP!End(e820[k]) = e820[k].addr + e820[k].size
        /\ e820[k].type = Map!E820_RAM
    BY <1>1, <1>4, <2>6, MapEntry DEF EP!IsRam
  <2>8. InEntry(e820[k], max_low_pfn, p)
    BY <2>1, <2>6, <2>7, FrameOfEntry
  <2>9. p \in FramesBefore(e820, max_low_pfn, Len(e820) + 1)
    BY <1>3, <2>1, <2>8 DEF FramesBefore
  <2> QED
    BY <1>2, <2>2, <2>9
<1> QED
  BY <1>5, <1>6

\* setup_memory's registration is exact: if the map's addresses and sizes fit the low words
\* that init_biosmap copies and no more than two entries meet at an address, the allocator
\* gets every whole low frame that the boot loader reported as RAM and that is not taken,
\* but possibly the one behind the bitmap, and no other.
THEOREM RegisteredExactly == Spec => [](WordsSuffice => RamExact)
<1> DEFINE Inv == PartsInv /\ RamInv /\ EP!PairInv /\ EP!GapInv /\ ExactInv
<1>1. Init => Inv
  BY PartsInit, RamInvInit, PairsInit, ExactInit
<1>2. Inv /\ [Next]_vars => Inv'
  BY PartsStep, RamInvKept, PairsKept, ExactKept
<1>3. Inv => (WordsSuffice => RamExact)
  BY InvRamExact
<1> QED
  BY <1>1, <1>2, <1>3, PTL DEF Spec
=============================================================================
