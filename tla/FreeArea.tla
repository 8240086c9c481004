------------------------------ MODULE FreeArea ------------------------------
(***************************************************************************)
(* The arithmetic of mm/page_alloc.c and of zone_sizes_init: how big a     *)
(* node's zones, its mem_map and its buddy bitmaps are, and the fallback   *)
(* lists.  Module SetupArch runs the boot that uses it.                    *)
(***************************************************************************)
EXTENDS Integers, Sequences, SequencesExt

CONSTANTS
    MAX_DMA_PFN,        \* first frame the ISA DMA controller cannot reach: 16 MB
    SIZEOF_PAGE,        \* sizeof(struct page)
    LONG_BYTES,         \* sizeof(long)
    MAX_ORDER,          \* the free areas of a zone have orders 0 .. MAX_ORDER - 1
    BALANCE_RATIO,      \* zone_balance_ratio, _min and _max: the same in all zones
    BALANCE_MIN,
    BALANCE_MAX

ZONE_DMA     == 0
ZONE_NORMAL  == 1
ZONE_HIGHMEM == 2
Zones == ZONE_DMA..ZONE_HIGHMEM

\* The zone modifiers of an allocation's gfp_mask, one of the 16 masks' low bits.
GfpMasks == SUBSET {"__GFP_DMA", "__GFP_HIGHMEM"}

ASSUME ZoneAssumption ==
    /\ MAX_DMA_PFN \in Nat /\ SIZEOF_PAGE \in Nat \ {0} /\ LONG_BYTES \in Nat \ {0}
    /\ MAX_ORDER \in Nat \ {0}
    /\ BALANCE_RATIO \in Nat \ {0} /\ BALANCE_MIN \in Nat /\ BALANCE_MAX \in Nat
    /\ BALANCE_MIN <= BALANCE_MAX

\* Arithmetic, not a condition on the constants: the provers know no law of powers.
ASSUME PowersOfTwo ==
    \A k \in 0..MAX_ORDER : 2^k \in Nat \ {0} /\ 2^(k + 3) = 8 * 2^k

-----------------------------------------------------------------------------
\* Definitions marked `slip' are not the code's: each is a plausible mistake in the
\* definition that follows it, and some property must tell the two apart.

\* zone_sizes_init: low memory is DMA memory up to MAX_DMA_PFN and normal beyond.
WholeLow(low) == <<MAX_DMA_PFN, low, 0>>                              \* slip
ZoneSizes(low) ==
    IF low < MAX_DMA_PFN THEN <<low, 0, 0>> ELSE <<MAX_DMA_PFN, low - MAX_DMA_PFN, 0>>

SizeOf(low, j) == ZoneSizes(low)[j + 1]

\* The frame the zone begins with: the zones before it, one after the other.
FirstOf(low, j) ==
    CASE j = ZONE_DMA     -> 0
      [] j = ZONE_NORMAL  -> SizeOf(low, ZONE_DMA)
      [] j = ZONE_HIGHMEM -> SizeOf(low, ZONE_DMA) + SizeOf(low, ZONE_NORMAL)

\* The bytes asked for mem_map, one page structure more than there are frames.
MapSizeExact(total) == total * SIZEOF_PAGE                             \* slip
MapSize(total) == (total + 1) * SIZEOF_PAGE

\* MAP_ALIGN: up to a multiple of the page structure's size.
MapAlign(x) ==
    IF x % SIZEOF_PAGE = 0 THEN x ELSE x + SIZEOF_PAGE - (x % SIZEOF_PAGE)

LongAlign(x) == ((x + LONG_BYTES - 1) \div LONG_BYTES) * LONG_BYTES

\* The bytes of a zone's buddy bitmap of an order: one bit for a pair of blocks.
HalfTheBits(size, order) == LongAlign((size - 1) \div 2^(order + 5) + 1)  \* slip
BuddyBytes(size, order) == LongAlign((size - 1) \div 2^(order + 4) + 1)

\* A zone's pages_min: a fraction of its size, within bounds.
PagesMin(size) ==
    LET mask == size \div BALANCE_RATIO
    IN  IF mask < BALANCE_MIN THEN BALANCE_MIN
        ELSE IF mask > BALANCE_MAX THEN BALANCE_MAX ELSE mask

\* The zone a request aims at: of the two modifiers __GFP_DMA wins.
HighFirst(mask) ==                                                     \* slip
    IF "__GFP_HIGHMEM" \in mask THEN ZONE_HIGHMEM
    ELSE IF "__GFP_DMA" \in mask THEN ZONE_DMA ELSE ZONE_NORMAL
GoalZone(mask) ==
    IF "__GFP_DMA" \in mask THEN ZONE_DMA
    ELSE IF "__GFP_HIGHMEM" \in mask THEN ZONE_HIGHMEM ELSE ZONE_NORMAL

\* build_zonelists: the goal and the zones below it, highest first, less empty ones.
Zonelist(size, mask) ==
    LET part(j) == IF j <= GoalZone(mask) /\ size[j] # 0 THEN <<j>> ELSE <<>>
    IN  part(ZONE_HIGHMEM) \o part(ZONE_NORMAL) \o part(ZONE_DMA)
=============================================================================
