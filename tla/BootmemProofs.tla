--------------------------- MODULE BootmemProofs ---------------------------
(* Proofs about the boot-time allocator of module Bootmem, for every page  *)
(* size, node, request and number of allocations.                          *)
EXTENDS Bootmem, TLAPS

-----------------------------------------------------------------------------
(* Quotients, remainders and multiples of natural numbers.                 *)

\* Quotient and remainder of a natural number.
LEMMA DivMod ==
    ASSUME NEW x \in Nat, NEW d \in Nat \ {0}
    PROVE  /\ x \div d \in Nat
           /\ (x \div d) * d <= x
           /\ x < (x \div d) * d + d
           /\ x % d = x - (x \div d) * d
           /\ x % d \in 0..(d - 1)
  BY SMT

\* The quotient is the only number with that bracket.
LEMMA DivUnique ==
    ASSUME NEW x \in Nat, NEW d \in Nat \ {0}, NEW q \in Nat,
           q * d <= x, x < q * d + d
    PROVE  x \div d = q
  BY SMT

\* Multiplication by a positive number keeps the order, by a whole step.
LEMMA MultOrder ==
    ASSUME NEW d \in Nat \ {0}, NEW p \in Int, NEW q \in Int, p < q
    PROVE  p * d + d <= q * d
  <1>1. (q - p - 1) * d >= 0
    BY SMT
  <1>2. (q - p - 1) * d = q * d - p * d - d
    BY SMT
  <1> QED
    BY <1>1, <1>2, SMT

\* A multiple leaves no remainder.
LEMMA MultipleMod ==
    ASSUME NEW a \in Nat \ {0}, NEW k \in Nat
    PROVE  (k * a) % a = 0
  <1>1. k * a \in Nat
    BY SMT
  <1>2. (k * a) \div a = k
    BY <1>1, DivUnique
  <1>3. (k * a) % a = k * a - ((k * a) \div a) * a
    BY <1>1, DivMod
  <1> QED
    BY <1>1, <1>2, <1>3

-----------------------------------------------------------------------------
(* Rounding.                                                               *)

\* A rounded-up number is a multiple, not below the number, less than one step above.
LEMMA RoundUpBounds ==
    ASSUME NEW x \in Nat, NEW a \in Nat \ {0}
    PROVE  /\ RoundUp(x, a) \in Nat
           /\ x <= RoundUp(x, a)
           /\ RoundUp(x, a) < x + a
           /\ \E k \in Nat : RoundUp(x, a) = k * a
  <1> DEFINE q == (x + a - 1) \div a
  <1>1. x + a - 1 \in Nat
    OBVIOUS
  <1>2. q \in Nat /\ q * a <= x + a - 1 /\ x + a - 1 < q * a + a
    BY <1>1, DivMod
  <1>3. RoundUp(x, a) = q * a
    BY DEF RoundUp
  <1>4. q * a \in Nat
    BY <1>2, SMT
  <1> HIDE DEF q
  <1> QED
    BY <1>2, <1>3, <1>4, SMT

\* Rounding a number of at most one page up to a divisor of the page size stays
\* within the page.
LEMMA RoundUpInPage ==
    ASSUME NEW x \in Nat, NEW a \in Nat \ {0}, NEW n \in Nat, NEW m \in Nat,
           x <= n, n = m * a
    PROVE  RoundUp(x, a) <= n
  <1>1. PICK k \in Nat : RoundUp(x, a) = k * a
    BY RoundUpBounds
  <1>0. RoundUp(x, a) < x + a
    BY RoundUpBounds
  <1>2. k * a < m * a + a
    BY <1>0, <1>1, SMT
  <1>3. CASE k <= m
    <2>1. (m - k) * a >= 0
      BY <1>3, SMT
    <2> QED
      BY <1>1, <2>1, SMT
  <1>4. CASE m < k
    BY <1>1, <1>2, <1>4, MultOrder, SMT
  <1> QED
    BY <1>3, <1>4, SMT

\* The number of pages that hold n bytes.
LEMMA PageUpBounds ==
    ASSUME NEW n \in Nat
    PROVE  /\ PageUp(n) \in Nat
           /\ n <= PageUp(n) * PAGE_SIZE
           /\ PageUp(n) * PAGE_SIZE < n + PAGE_SIZE
  <1> DEFINE q == (n + PAGE_SIZE - 1) \div PAGE_SIZE
  <1>1. n + PAGE_SIZE - 1 \in Nat
    BY PageSizeAssumption
  <1>2. /\ q \in Nat
        /\ q * PAGE_SIZE <= n + PAGE_SIZE - 1
        /\ n + PAGE_SIZE - 1 < q * PAGE_SIZE + PAGE_SIZE
    BY <1>1, DivMod, PageSizeAssumption
  <1>3. PageUp(n) = q
    BY DEF PageUp
  <1> HIDE DEF q
  <1>4. q * PAGE_SIZE \in Int
    BY <1>2, PageSizeAssumption, SMT
  <1> QED
    BY <1>2, <1>3, <1>4, PageSizeAssumption, SMT

-----------------------------------------------------------------------------
(* Blocks and pages.                                                       *)

\* The pages of a block are those with a byte of it.
LEMMA PagesOfBlock ==
    ASSUME NEW b \in Pool!Block, NEW q \in Int
    PROVE  q \in Pool!PagesOf(b) <=>
               q * PAGE_SIZE < b.addr + b.size /\ b.addr < q * PAGE_SIZE + PAGE_SIZE
  <1> DEFINE f == b.addr \div PAGE_SIZE
             l == (b.addr + b.size - 1) \div PAGE_SIZE
  <1>1. b.addr \in Nat /\ b.size \in Nat \ {0} /\ b.addr + b.size - 1 \in Nat
    BY DEF Pool!Block
  <1>2. f \in Nat /\ f * PAGE_SIZE <= b.addr /\ b.addr < f * PAGE_SIZE + PAGE_SIZE
    BY <1>1, DivMod, PageSizeAssumption
  <1>3. /\ l \in Nat
        /\ l * PAGE_SIZE <= b.addr + b.size - 1
        /\ b.addr + b.size - 1 < l * PAGE_SIZE + PAGE_SIZE
    BY <1>1, DivMod, PageSizeAssumption
  <1>4. q \in Pool!PagesOf(b) <=> f <= q /\ q <= l
    BY <1>2, <1>3 DEF Pool!PagesOf
  <1> HIDE DEF f, l
  <1>5. \A m, n \in Int : m < n => m * PAGE_SIZE + PAGE_SIZE <= n * PAGE_SIZE
    BY MultOrder, PageSizeAssumption
  <1>6. /\ q < f => q * PAGE_SIZE + PAGE_SIZE <= f * PAGE_SIZE
        /\ f < q => f * PAGE_SIZE + PAGE_SIZE <= q * PAGE_SIZE
        /\ q < l => q * PAGE_SIZE + PAGE_SIZE <= l * PAGE_SIZE
        /\ l < q => l * PAGE_SIZE + PAGE_SIZE <= q * PAGE_SIZE
    BY <1>2, <1>3, <1>5
  <1>7. q * PAGE_SIZE \in Int /\ f * PAGE_SIZE \in Int /\ l * PAGE_SIZE \in Int
    BY <1>2, <1>3, PageSizeAssumption, SMT
  <1> QED
    BY <1>1, <1>2, <1>3, <1>4, <1>6, <1>7, PageSizeAssumption, SMT

\* Blocks with no page in common have no byte in common.
LEMMA DisjointPages ==
    ASSUME NEW b \in Pool!Block, NEW c \in Pool!Block,
           Pool!PagesOf(b) \cap Pool!PagesOf(c) = {}
    PROVE  Pool!Disjoint(b, c)
  <1> DEFINE x == IF b.addr <= c.addr THEN c.addr ELSE b.addr
             q == x \div PAGE_SIZE
  <1> SUFFICES ASSUME ~ Pool!Disjoint(b, c) PROVE FALSE
    OBVIOUS
  <1>1. /\ b.addr \in Nat /\ b.size \in Nat /\ c.addr \in Nat /\ c.size \in Nat
        /\ b.size > 0 /\ c.size > 0
    BY DEF Pool!Block
  <1>2. /\ x \in Nat
        /\ b.addr <= x /\ x < b.addr + b.size
        /\ c.addr <= x /\ x < c.addr + c.size
    BY <1>1 DEF Pool!Disjoint
  <1>3. q \in Nat /\ q * PAGE_SIZE <= x /\ x < q * PAGE_SIZE + PAGE_SIZE
    BY <1>2, DivMod, PageSizeAssumption
  <1>4. q * PAGE_SIZE \in Int
    BY <1>3, PageSizeAssumption, SMT
  <1> HIDE DEF x, q
  <1>5. q \in Pool!PagesOf(b) /\ q \in Pool!PagesOf(c)
    BY <1>1, <1>2, <1>3, <1>4, PagesOfBlock, PageSizeAssumption, SMT
  <1> QED
    BY <1>5

-----------------------------------------------------------------------------
(* The inductive invariant.                                                *)

\* Nothing is registered or handed out before init_bootmem.
Untouched ==
    ~on_pgdat_list => node_bootmem_map = {} /\ ram = {} /\ allocs = <<>>

IInv ==
    /\ TypeOK
    /\ Untouched
    /\ NoOverlap
    /\ BlocksInRam
    /\ BitmapExact
    /\ BlocksAligned
    /\ TailFree

\* The fields of a block.
LEMMA BlockTypes ==
    ASSUME IInv
    PROVE  \A i \in 1..Len(allocs) : /\ allocs[i] \in Pool!Block
                                     /\ allocs[i].addr \in Nat
                                     /\ allocs[i].size \in Nat \ {0}
                                     /\ allocs[i].align \in Nat \ {0}
  <1>1. \A i \in 1..Len(allocs) : allocs[i] \in Pool!Block
    BY DEF IInv, TypeOK
  <1> QED
    BY <1>1 DEF Pool!Block

\* A free frame of the node is usable memory that no block touches.
LEMMA FreeFrames ==
    ASSUME IInv, NEW p \in 0..(node_low_pfn - 1), p \notin node_bootmem_map
    PROVE  p \in ram /\ \A i \in 1..Len(allocs) : p \notin Pool!PagesOf(allocs[i])
  BY DEF IInv, BitmapExact, AllocPages

\* Without a block there is no partly used page.
LEMMA NoTailAtStart ==
    ASSUME IInv, allocs = <<>>
    PROVE  last_offset = 0 /\ AllocPages = {}
  <1>1. Len(allocs) = 0
    OBVIOUS
  <1>2. AllocPages = {}
    BY <1>1 DEF AllocPages
  <1> QED
    BY <1>2 DEF IInv, BitmapExact, TailFree

\* The page of the tail belongs to a block.
LEMMA TailPage ==
    ASSUME IInv, last_offset # 0
    PROVE  last_pos \in AllocPages /\ last_pos \in ram
  BY DEF IInv, BitmapExact, TailFree

\* Of a power-of-two alignment and the page size one is a multiple of the other.
LEMMA AlignCases ==
    ASSUME NEW align \in Aligns, PowerOfTwo(align)
    PROVE  \/ align <= PAGE_SIZE /\ \E m \in Nat \ {0} : PAGE_SIZE = m * align
           \/ align > PAGE_SIZE /\ \E m \in Nat \ {0} : align = m * PAGE_SIZE
  <1>1. align \in Nat \ {0} /\ PAGE_SIZE \in Nat \ {0}
    BY ArgumentsAssumption, PageSizeAssumption
  <1>2. \A d, n \in Nat \ {0} : Divides(d, n) => \E m \in Nat \ {0} : n = m * d
    BY SMT DEF Divides
  <1>3. CASE align <= PAGE_SIZE
    BY <1>1, <1>2, <1>3, PowersAssumption
  <1>4. CASE ~ (align <= PAGE_SIZE)
    BY <1>1, <1>2, <1>4, PowersAssumption
  <1> QED
    BY <1>3, <1>4

\* The scan starts on a frame whose address has the alignment.
LEMMA PreferredAligned ==
    ASSUME NEW align \in Aligns, PowerOfTwo(align), NEW goal \in Nat,
           align > PAGE_SIZE
    PROVE  /\ Preferred(align, goal) \in Nat
           /\ \E k \in Nat : Preferred(align, goal) * PAGE_SIZE = k * align
  <1> DEFINE g == IF PageDown(goal) < node_low_pfn THEN goal ELSE 0
  <1>1. align \in Nat \ {0} /\ g \in Nat
    BY ArgumentsAssumption
  <1>2. PICK m \in Nat \ {0} : align = m * PAGE_SIZE
    BY <1>1, AlignCases, PageSizeAssumption
  <1>3. PICK k \in Nat : RoundUp(g, align) = k * align
    BY <1>1, RoundUpBounds
  <1>4. /\ k * m \in Nat
        /\ k * align = (k * m) * PAGE_SIZE
    BY <1>2, PageSizeAssumption, SMT
  <1>5. (k * m) * PAGE_SIZE \in Nat
    BY <1>4, PageSizeAssumption, SMT
  <1>6. PageDown(RoundUp(g, align)) = k * m
    BY <1>3, <1>4, <1>5, DivUnique, PageSizeAssumption DEF PageDown
  <1> QED
    BY <1>4, <1>6 DEF Preferred

\* For every alignment the scan's starting frame is a natural number.
LEMMA PreferredNat ==
    ASSUME NEW align \in Aligns, NEW goal \in Nat
    PROVE  Preferred(align, goal) \in Nat
  <1> DEFINE g == IF PageDown(goal) < node_low_pfn THEN goal ELSE 0
  <1>1. align \in Nat \ {0} /\ g \in Nat
    BY ArgumentsAssumption
  <1>2. RoundUp(g, align) \in Nat
    BY <1>1, RoundUpBounds
  <1> QED
    BY <1>2, DivMod, PageSizeAssumption DEF Preferred, PageDown

\* Whatever the scan stops at is a free run of the node with the alignment asked.
LEMMA FoundRun ==
    ASSUME TypeOK, NEW size \in Nat \ {0}, NEW align \in Aligns, PowerOfTwo(align),
           NEW goal \in Nat, NEW start \in Found(size, align, goal)
    PROVE  /\ start \in Nat
           /\ Fits(start, PageUp(size))
           /\ \E k \in Nat : start * PAGE_SIZE = k * align
  <1> DEFINE pref == Preferred(align, goal)
  <1>1. align \in Nat \ {0} /\ PAGE_SIZE \in Nat \ {0} /\ node_low_pfn \in Nat
    BY ArgumentsAssumption, PageSizeAssumption DEF TypeOK
  <1>2. pref \in Nat
    BY PreferredNat
  <1>3. PICK from \in {0, pref} : start \in Candidates(from, size, align)
    BY DEF Found
  <1>4. /\ start \in Nat /\ from \in Nat /\ start >= from
        /\ (start - from) % Incr(align) = 0
        /\ Fits(start, PageUp(size))
    BY <1>1, <1>2, <1>3 DEF Candidates
  <1>5. CASE align <= PAGE_SIZE
    <2>1. PICK m \in Nat \ {0} : PAGE_SIZE = m * align
      BY <1>5, <1>1, AlignCases
    <2>2. start * PAGE_SIZE = (start * m) * align /\ start * m \in Nat
      BY <1>4, <2>1, <1>1, SMT
    <2> QED
      BY <1>4, <2>2
  <1>6. CASE align > PAGE_SIZE
    <2>1. PICK m \in Nat \ {0} : align = m * PAGE_SIZE
      BY <1>6, <1>1, AlignCases
    <2>2. m * PAGE_SIZE \in Nat
      BY <1>1, <2>1
    <2>3. Incr(align) = m
      BY <1>1, <1>6, <2>1, <2>2, DivUnique DEF Incr, PageDown
    <2>4. PICK j \in Nat : from * PAGE_SIZE = j * align
      <3>1. CASE from = 0
        BY <3>1, <1>1, SMT
      <3>2. CASE from = pref
        BY <3>2, <1>6, PreferredAligned
      <3> QED
        BY <1>3, <3>1, <3>2
    <2> DEFINE d == (start - from) \div m
    <2>5. start - from \in Nat
      BY <1>4
    <2>9. /\ d \in Nat
          /\ (start - from) % m = (start - from) - d * m
      BY <2>5, DivMod
    <2>10. (start - from) % m = 0
      BY <2>3, <1>4
    <2> HIDE DEF d
    <2>6. d \in Nat /\ start - from = d * m
      BY <2>5, <2>9, <2>10, SMT
    <2>7. (start - from) * PAGE_SIZE = d * align
      BY <2>1, <2>6, <1>1, SMT
    <2>8. start * PAGE_SIZE = (j + d) * align
      BY <2>4, <2>6, <2>7, <1>1, <1>4, SMT
    <2> QED
      BY <1>4, <2>6, <2>8
  <1> QED
    BY <1>1, <1>5, <1>6

-----------------------------------------------------------------------------
(* A successful allocation.                                                *)

\* What a successful allocation does: block `new' is handed out, `area' holds the
\* frames it takes, and what is left of its last page becomes the tail.
Handed(new, area) ==
    /\ new \in Pool!Block
    /\ new.addr % new.align = 0
    /\ area \subseteq 0..(node_low_pfn - 1)
    /\ area \cap node_bootmem_map = {}
    /\ area \subseteq Pool!PagesOf(new)
    /\ Pool!PagesOf(new) \subseteq area \cup AllocPages
    /\ Pool!PagesOf(new) \subseteq ram
    /\ \A i \in 1..Len(allocs) : Pool!Disjoint(allocs[i], new)
    /\ node_bootmem_map' = node_bootmem_map \cup area
    /\ allocs' = Append(allocs, new)
    /\ last_pos' \in Nat
    /\ last_offset' \in 0..(PAGE_SIZE - 1)
    /\ last_offset' # 0 =>
          /\ last_pos' \in Pool!PagesOf(new)
          /\ new.addr + new.size = last_pos' * PAGE_SIZE + last_offset'
          /\ \A i \in 1..Len(allocs) :
                \/ allocs[i].addr + allocs[i].size <= last_pos' * PAGE_SIZE + last_offset'
                \/ allocs[i].addr >= (last_pos' + 1) * PAGE_SIZE

\* A block whose pages are all free frames of the node keeps clear of every other.
LEMMA FreshBlock ==
    ASSUME IInv, NEW new \in Pool!Block,
           Pool!PagesOf(new) \subseteq 0..(node_low_pfn - 1),
           Pool!PagesOf(new) \cap node_bootmem_map = {}
    PROVE  /\ Pool!PagesOf(new) \subseteq ram
           /\ \A i \in 1..Len(allocs) : Pool!Disjoint(allocs[i], new)
  <1>1. \A p \in Pool!PagesOf(new) :
            p \in ram /\ \A i \in 1..Len(allocs) : p \notin Pool!PagesOf(allocs[i])
    BY FreeFrames
  <1>2. \A i \in 1..Len(allocs) : allocs[i] \in Pool!Block
    BY DEF IInv, TypeOK
  <1> QED
    BY <1>1, <1>2, DisjointPages

\* Blocks that keep clear of page p end before it or begin after it.
LEMMA ClearOfPage ==
    ASSUME IInv, NEW p \in Nat,
           \A i \in 1..Len(allocs) : p \notin Pool!PagesOf(allocs[i])
    PROVE  \A i \in 1..Len(allocs) :
              \/ allocs[i].addr + allocs[i].size <= p * PAGE_SIZE
              \/ allocs[i].addr >= (p + 1) * PAGE_SIZE
  <1> SUFFICES ASSUME NEW i \in 1..Len(allocs)
               PROVE  \/ allocs[i].addr + allocs[i].size <= p * PAGE_SIZE
                      \/ allocs[i].addr >= (p + 1) * PAGE_SIZE
    OBVIOUS
  <1>1. allocs[i] \in Pool!Block
    BY DEF IInv, TypeOK
  <1>2. allocs[i].addr \in Nat /\ allocs[i].size \in Nat
    BY <1>1 DEF Pool!Block
  <1>3. ~ (/\ p * PAGE_SIZE < allocs[i].addr + allocs[i].size
           /\ allocs[i].addr < p * PAGE_SIZE + PAGE_SIZE)
    BY <1>1, PagesOfBlock
  <1>4. p * PAGE_SIZE \in Int /\ (p + 1) * PAGE_SIZE = p * PAGE_SIZE + PAGE_SIZE
    BY PageSizeAssumption, SMT
  <1> QED
    BY <1>2, <1>3, <1>4, PageSizeAssumption, SMT

\* The pages of a block that starts on a page boundary.
LEMMA PagesFromStart ==
    ASSUME NEW start \in Nat, NEW size \in Nat \ {0}, NEW align \in Nat \ {0}
    PROVE  LET new == [addr |-> start * PAGE_SIZE, size |-> size, align |-> align]
           IN  /\ new \in Pool!Block
               /\ Pool!PagesOf(new) = start..(start + PageUp(size) - 1)
  <1> DEFINE new == [addr |-> start * PAGE_SIZE, size |-> size, align |-> align]
             u == PageUp(size)
  <1>1. start * PAGE_SIZE \in Nat
    BY PageSizeAssumption, SMT
  <1>2. new \in Pool!Block
    BY <1>1 DEF Pool!Block
  <1>3. u \in Nat /\ size <= u * PAGE_SIZE /\ u * PAGE_SIZE < size + PAGE_SIZE
    BY PageUpBounds
  <1>4. u > 0
    BY <1>3, PageSizeAssumption, SMT
  <1> HIDE DEF u
  <1>5. (start * PAGE_SIZE) \div PAGE_SIZE = start
    BY <1>1, DivUnique, PageSizeAssumption, SMT
  <1>6. (start * PAGE_SIZE + size - 1) \div PAGE_SIZE = start + u - 1
    <2>1. (start + u - 1) * PAGE_SIZE = start * PAGE_SIZE + u * PAGE_SIZE - PAGE_SIZE
      BY <1>3, PageSizeAssumption, SMT
    <2>2. u * PAGE_SIZE \in Int
      BY <1>3, PageSizeAssumption, SMT
    <2>3. /\ start * PAGE_SIZE + size - 1 \in Nat
          /\ start + u - 1 \in Nat
          /\ (start + u - 1) * PAGE_SIZE <= start * PAGE_SIZE + size - 1
          /\ start * PAGE_SIZE + size - 1 < (start + u - 1) * PAGE_SIZE + PAGE_SIZE
      BY <1>1, <1>3, <1>4, <2>1, <2>2, PageSizeAssumption, SMT
    <2> QED
      BY <2>3, DivUnique, PageSizeAssumption
  <1>7. Pool!PagesOf(new) = start..(start + u - 1)
    BY <1>5, <1>6 DEF Pool!PagesOf
  <1> QED
    BY <1>2, <1>7 DEF u

\* A size that is no whole number of pages fills its last page up to the remainder.
LEMMA LastPartialPage ==
    ASSUME NEW n \in Nat, n % PAGE_SIZE # 0
    PROVE  PageUp(n) > 0 /\ n = (PageUp(n) - 1) * PAGE_SIZE + (n % PAGE_SIZE)
  <1> DEFINE q == n \div PAGE_SIZE
             r == n % PAGE_SIZE
             u == PageUp(n)
  <1>1. /\ q \in Nat /\ r \in 0..(PAGE_SIZE - 1) /\ r # 0
        /\ r = n - q * PAGE_SIZE
    BY DivMod, PageSizeAssumption
  <1>2. u \in Nat /\ n <= u * PAGE_SIZE /\ u * PAGE_SIZE < n + PAGE_SIZE
    BY PageUpBounds
  <1>3. q * PAGE_SIZE \in Int /\ u * PAGE_SIZE \in Int
    BY <1>1, <1>2, PageSizeAssumption, SMT
  <1> HIDE DEF q, r, u
  <1>4. q < u
    <2> SUFFICES ASSUME u <= q PROVE FALSE
      BY <1>1, <1>2
    <2>1. u * PAGE_SIZE <= q * PAGE_SIZE
      <3>1. (q - u) * PAGE_SIZE >= 0
        BY <1>1, <1>2, PageSizeAssumption, SMT
      <3> QED
        BY <3>1, <1>1, <1>2, PageSizeAssumption, SMT
    <2> QED
      BY <1>1, <1>2, <1>3, <2>1, PageSizeAssumption, SMT
  <1>5. ~ (q + 1 < u)
    <2> SUFFICES ASSUME q + 1 < u PROVE FALSE
      OBVIOUS
    <2>1. (q + 1) * PAGE_SIZE + PAGE_SIZE <= u * PAGE_SIZE
      BY <1>1, <1>2, MultOrder, PageSizeAssumption
    <2>2. (q + 1) * PAGE_SIZE = q * PAGE_SIZE + PAGE_SIZE
      BY <1>1, PageSizeAssumption, SMT
    <2> QED
      BY <1>1, <1>2, <1>3, <2>1, <2>2, PageSizeAssumption, SMT
  <1>6. u - 1 = q
    BY <1>1, <1>2, <1>4, <1>5
  <1>7. n = q * PAGE_SIZE + r
    BY <1>1, <1>3, PageSizeAssumption, SMT
  <1>8. u > 0 /\ n = (u - 1) * PAGE_SIZE + r
    BY <1>1, <1>2, <1>4, <1>6, <1>7
  <1> QED
    BY <1>8 DEF u, r

\* Blocks that end by x end by any later y.
LEMMA EndsLater ==
    ASSUME IInv, NEW x \in Int, NEW y \in Int, NEW z \in Int, x <= y,
           \A i \in 1..Len(allocs) :
              allocs[i].addr + allocs[i].size <= x \/ allocs[i].addr >= z
    PROVE  \A i \in 1..Len(allocs) :
              allocs[i].addr + allocs[i].size <= y \/ allocs[i].addr >= z
  <1> SUFFICES ASSUME NEW i \in 1..Len(allocs)
               PROVE  allocs[i].addr + allocs[i].size <= y \/ allocs[i].addr >= z
    OBVIOUS
  <1> DEFINE e == allocs[i].addr + allocs[i].size
  <1>1. e \in Int
    BY BlockTypes
  <1>2. e <= x \/ allocs[i].addr >= z
    OBVIOUS
  <1> HIDE DEF e
  <1>3. e <= y \/ allocs[i].addr >= z
    BY <1>1, <1>2
  <1> QED
    BY <1>3 DEF e

\* Hand hands the block out when no BUG check fires.
LEMMA HandOut ==
    ASSUME NEW addr, NEW size, NEW align, NEW area, NEW bug \in BOOLEAN,
           Hand(addr, size, align, area, bug), ~bug, area \cap node_bootmem_map = {}
    PROVE  /\ panicked' = FALSE
           /\ node_bootmem_map' = node_bootmem_map \cup area
           /\ allocs' = Append(allocs, [addr |-> addr, size |-> size, align |-> align])
  <1>1. panicked' = FALSE
    BY Zenon DEF Hand
  <1> QED
    BY <1>1, Zenon DEF Hand

\* A block placed in fresh pages.
LEMMA FreshStep ==
    ASSUME IInv, NEW size \in Nat \ {0}, NEW align \in Nat \ {0}, NEW start \in Nat,
           Fits(start, PageUp(size)), NEW k \in Nat, start * PAGE_SIZE = k * align,
           PlaceFresh(start, size, align)
    PROVE  ~panicked' /\ \E new, area : Handed(new, area)
  <1> DEFINE u == PageUp(size)
             new == [addr |-> start * PAGE_SIZE, size |-> size, align |-> align]
             area == start..(start + u - 1)
  <1>1. new \in Pool!Block /\ Pool!PagesOf(new) = area
    BY PagesFromStart
  <1>2. u \in Nat /\ u > 0
    BY PageUpBounds, PageSizeAssumption, SMT
  <1>3. area \subseteq 0..(node_low_pfn - 1) /\ area \cap node_bootmem_map = {}
    BY <1>2 DEF Fits, IInv, TypeOK
  <1>4. /\ panicked' = FALSE
        /\ node_bootmem_map' = node_bootmem_map \cup area
        /\ allocs' = Append(allocs, new)
        /\ last_pos' = start + u - 1
        /\ last_offset' = size % PAGE_SIZE
    BY <1>3 DEF PlaceFresh, Hand, InPage
  <1>5. last_offset' \in 0..(PAGE_SIZE - 1)
    BY <1>4, DivMod, PageSizeAssumption
  <1>6. new.addr % new.align = 0
    BY MultipleMod
  <1> HIDE DEF u, new, area
  <1>7. /\ Pool!PagesOf(new) \subseteq ram
        /\ \A i \in 1..Len(allocs) : Pool!Disjoint(allocs[i], new)
    BY <1>1, <1>3, FreshBlock
  <1>8. ASSUME last_offset' # 0
        PROVE  /\ last_pos' \in area
               /\ new.addr + new.size = last_pos' * PAGE_SIZE + last_offset'
               /\ \A i \in 1..Len(allocs) :
                    \/ allocs[i].addr + allocs[i].size <= last_pos' * PAGE_SIZE + last_offset'
                    \/ allocs[i].addr >= (last_pos' + 1) * PAGE_SIZE
    <2> DEFINE p == start + u - 1
    <2>1. p \in area /\ p \in Nat
      BY <1>2 DEF area
    <2>2. size = (u - 1) * PAGE_SIZE + (size % PAGE_SIZE)
      BY <1>4, <1>8, LastPartialPage DEF u
    <2>3. start * PAGE_SIZE + (u - 1) * PAGE_SIZE = p * PAGE_SIZE
      BY <1>2, PageSizeAssumption, SMT
    <2>4. new.addr = start * PAGE_SIZE /\ new.size = size
      BY DEF new
    <2>11. size % PAGE_SIZE \in Nat
      BY DivMod, PageSizeAssumption
    <2>5. size % PAGE_SIZE \in Nat /\ start * PAGE_SIZE \in Nat /\ (u - 1) * PAGE_SIZE \in Nat
      BY <1>2, <2>11, PageSizeAssumption, SMT
    <2>6. new.addr + new.size = p * PAGE_SIZE + (size % PAGE_SIZE)
      BY <2>2, <2>3, <2>4, <2>5, SMT
    <2>7. \A i \in 1..Len(allocs) :
              \/ allocs[i].addr + allocs[i].size <= p * PAGE_SIZE
              \/ allocs[i].addr >= (p + 1) * PAGE_SIZE
      BY <2>1, <1>3, FreeFrames, ClearOfPage
    <2>12. p \in Nat
      BY <2>1
    <2>9. p * PAGE_SIZE \in Nat
      BY <2>1, PageSizeAssumption, SMT
    <2> HIDE DEF p
    <2>10. \A i \in 1..Len(allocs) :
              \/ allocs[i].addr + allocs[i].size <= p * PAGE_SIZE + (size % PAGE_SIZE)
              \/ allocs[i].addr >= (p + 1) * PAGE_SIZE
      <3> DEFINE o == size % PAGE_SIZE
      <3>1. o \in Nat
        BY <2>11
      <3> HIDE DEF o
      <3>2. p * PAGE_SIZE <= p * PAGE_SIZE + o /\ p * PAGE_SIZE + o \in Int
        BY <3>1, <2>9
      <3>3. (p + 1) * PAGE_SIZE \in Int
        BY <2>9, <2>12, PageSizeAssumption, SMT
      <3> DEFINE x == p * PAGE_SIZE
                 y == p * PAGE_SIZE + o
                 z == (p + 1) * PAGE_SIZE
      <3>5. /\ x \in Int /\ y \in Int /\ z \in Int /\ x <= y
            /\ \A i \in 1..Len(allocs) :
                  allocs[i].addr + allocs[i].size <= x \/ allocs[i].addr >= z
        BY <3>2, <3>3, <2>7, <2>9
      <3> HIDE DEF x, y, z
      <3>6. \A i \in 1..Len(allocs) :
                  allocs[i].addr + allocs[i].size <= y \/ allocs[i].addr >= z
        BY <3>5, EndsLater
      <3>4. \A i \in 1..Len(allocs) :
              \/ allocs[i].addr + allocs[i].size <= p * PAGE_SIZE + o
              \/ allocs[i].addr >= (p + 1) * PAGE_SIZE
        BY <3>6, Zenon DEF y, z
      <3> QED
        BY <3>4 DEF o
    <2> QED
      BY <1>4, <2>1, <2>6, <2>10 DEF p
  <1>9. last_pos' \in Nat
    BY <1>2, <1>4
  <1>10. Handed(new, area)
    BY <1>1, <1>3, <1>4, <1>5, <1>6, <1>7, <1>8, <1>9 DEF Handed
  <1> QED
    BY <1>4, <1>10

\* The block that continues in the tail starts inside the last page, past its end,
\* and has the alignment asked.
LEMMA MergeAddr ==
    ASSUME IInv, NEW size \in Nat \ {0}, NEW align \in Aligns, PowerOfTwo(align),
           NEW start, Merges(start, align)
    PROVE  LET offset == RoundUp(last_offset, align)
               new == [addr |-> last_pos * PAGE_SIZE + offset, size |-> size, align |-> align]
           IN  /\ offset \in Nat /\ last_offset <= offset /\ offset <= PAGE_SIZE
               /\ new \in Pool!Block
               /\ new.addr % new.align = 0
  <1> DEFINE offset == RoundUp(last_offset, align)
             new == [addr |-> last_pos * PAGE_SIZE + offset, size |-> size, align |-> align]
  <1>1. /\ align \in Nat \ {0} /\ PAGE_SIZE \in Nat \ {0}
        /\ last_pos \in Nat /\ last_offset \in Nat /\ last_offset <= PAGE_SIZE
    BY ArgumentsAssumption, PageSizeAssumption DEF IInv, TypeOK
  <1>2. PICK m \in Nat : PAGE_SIZE = m * align
    BY <1>1, AlignCases DEF Merges
  <1>3. offset \in Nat /\ last_offset <= offset
    BY <1>1, RoundUpBounds
  <1>4. offset <= PAGE_SIZE
    BY <1>1, <1>2, RoundUpInPage
  <1>5. PICK k \in Nat : offset = k * align
    BY <1>1, RoundUpBounds
  <1> HIDE DEF offset
  <1>6. last_pos * PAGE_SIZE \in Nat
    BY <1>1, SMT
  <1>7. last_pos * PAGE_SIZE + offset = (last_pos * m + k) * align
    <2>1. last_pos * PAGE_SIZE = (last_pos * m) * align
      BY <1>1, <1>2, SMT
    <2> QED
      BY <2>1, <1>1, <1>2, <1>5, SMT
  <1>8. last_pos * m + k \in Nat
    BY <1>1, <1>2, <1>5, SMT
  <1>9. (last_pos * PAGE_SIZE + offset) % align = 0
    BY <1>1, <1>7, <1>8, MultipleMod
  <1>10. new \in Pool!Block
    BY <1>1, <1>3, <1>6 DEF Pool!Block
  <1> QED
    BY <1>3, <1>4, <1>9, <1>10 DEF offset

\* A block placed in what is left of the last page.
LEMMA TailStep ==
    ASSUME IInv, NEW size \in Nat \ {0}, NEW align \in Aligns, PowerOfTwo(align),
           NEW start, PlaceInTail(start, size, align)
    PROVE  ~panicked' /\ \E new, area : Handed(new, area)
  <1> DEFINE offset == RoundUp(last_offset, align)
             new == [addr |-> last_pos * PAGE_SIZE + offset, size |-> size, align |-> align]
             base == last_pos * PAGE_SIZE
  <1>1. Merges(start, align) /\ size < PAGE_SIZE - offset
    BY DEF PlaceInTail
  <1>2. /\ offset \in Nat /\ last_offset <= offset /\ offset <= PAGE_SIZE
        /\ new \in Pool!Block
        /\ new.addr % new.align = 0
    BY <1>1, MergeAddr
  <1>3. /\ PAGE_SIZE \in Nat \ {0} /\ last_pos \in Nat /\ last_offset \in Nat /\ base \in Nat
        /\ (last_pos + 1) * PAGE_SIZE = base + PAGE_SIZE
    BY PageSizeAssumption, SMT DEF IInv, TypeOK
  <1>4. /\ panicked' = FALSE
        /\ node_bootmem_map' = node_bootmem_map \cup {}
        /\ allocs' = Append(allocs, new)
        /\ last_pos' = last_pos
        /\ last_offset' = (offset + size) % PAGE_SIZE
    <2>1. /\ Hand(base + offset, size, align, {}, offset > PAGE_SIZE)
          /\ last_pos' = last_pos
          /\ last_offset' = (offset + size) % PAGE_SIZE
      BY DEF PlaceInTail, InPage
    <2>2. ~ (offset > PAGE_SIZE) /\ (offset > PAGE_SIZE) \in BOOLEAN
      BY <1>2, <1>3
    <2>3. {} \cap node_bootmem_map = {}
      OBVIOUS
    <2>4. /\ panicked' = FALSE
          /\ node_bootmem_map' = node_bootmem_map \cup {}
          /\ allocs' = Append(allocs, new)
      BY <2>1, <2>2, <2>3, HandOut, Zenon
    <2> QED
      BY <2>1, <2>4, Zenon
  <1> HIDE DEF offset
  <1>5. last_offset' = offset + size /\ last_offset' \in 0..(PAGE_SIZE - 1)
    <2>1. offset + size \in Nat /\ offset + size < PAGE_SIZE
      BY <1>1, <1>2, <1>3
    <2>2. (offset + size) \div PAGE_SIZE = 0
      BY <2>1, <1>3, DivUnique, SMT
    <2>3. (offset + size) % PAGE_SIZE
              = (offset + size) - ((offset + size) \div PAGE_SIZE) * PAGE_SIZE
      BY <2>1, <1>3, DivMod
    <2> QED
      BY <1>3, <1>4, <2>1, <2>2, <2>3, SMT
  <1>6. last_offset # 0
    BY <1>1 DEF Merges
  <1>7. new.addr = base + offset /\ new.size = size
    OBVIOUS
  <1> HIDE DEF new, base
  <1>8. Pool!PagesOf(new) = {last_pos}
    <2>1. Pool!PagesOf(new) \subseteq Int
      BY DEF Pool!PagesOf
    <2>2. ASSUME NEW q \in Int PROVE q \in Pool!PagesOf(new) <=> q = last_pos
      <3>1. q \in Pool!PagesOf(new) <=>
                q * PAGE_SIZE < base + offset + size /\ base + offset < q * PAGE_SIZE + PAGE_SIZE
        BY <1>2, <1>7, PagesOfBlock
      <3>2. CASE q = last_pos
        BY <3>1, <3>2, <1>1, <1>2, <1>3 DEF base
      <3>3. CASE q < last_pos
        <4>1. q * PAGE_SIZE + PAGE_SIZE <= base
          BY <3>3, <1>3, MultOrder DEF base
        <4>2. q * PAGE_SIZE \in Int
          BY <1>3, SMT
        <4> QED
          BY <3>1, <3>3, <4>1, <4>2, <1>2, <1>3
      <3>4. CASE last_pos < q
        <4>1. base + PAGE_SIZE <= q * PAGE_SIZE
          BY <3>4, <1>3, MultOrder DEF base
        <4>2. q * PAGE_SIZE \in Int
          BY <1>3, SMT
        <4> QED
          BY <3>1, <3>4, <4>1, <4>2, <1>1, <1>2, <1>3
      <3> QED
        BY <3>2, <3>3, <3>4, <1>3
    <2> QED
      BY <2>1, <2>2, <1>3
  <1>9. last_pos \in AllocPages /\ last_pos \in ram
    BY <1>6, TailPage
  <1>10. \A i \in 1..Len(allocs) :
            \/ allocs[i].addr + allocs[i].size <= base + last_offset
            \/ allocs[i].addr >= base + PAGE_SIZE
    BY <1>3, <1>6 DEF IInv, TailFree, base
  <1>11. \A i \in 1..Len(allocs) : Pool!Disjoint(allocs[i], new)
    BY <1>10, <1>1, <1>2, <1>3, <1>7, BlockTypes DEF Pool!Disjoint
  <1>12. \A i \in 1..Len(allocs) :
            \/ allocs[i].addr + allocs[i].size <= base + last_offset'
            \/ allocs[i].addr >= base + PAGE_SIZE
    <2>1. base + last_offset \in Int /\ base + last_offset' \in Int /\ base + PAGE_SIZE \in Int
      BY <1>2, <1>3, <1>5
    <2>2. base + last_offset <= base + last_offset'
      BY <1>2, <1>3, <1>5
    <2> QED
      BY <1>10, <2>1, <2>2, EndsLater
  <1>13. new.addr + new.size = base + last_offset'
    BY <1>2, <1>3, <1>5, <1>7
  <1>14. last_pos' * PAGE_SIZE = base /\ (last_pos' + 1) * PAGE_SIZE = base + PAGE_SIZE
    BY <1>3, <1>4 DEF base
  <1>15. Handed(new, {})
    BY <1>2, <1>3, <1>4, <1>5, <1>8, <1>9, <1>11, <1>12, <1>13, <1>14 DEF Handed
  <1> QED
    BY <1>4, <1>15

\* A larger number of bytes takes no fewer pages.
LEMMA PageUpMonotone ==
    ASSUME NEW m \in Nat, NEW n \in Nat, m <= n
    PROVE  PageUp(m) <= PageUp(n)
  <1> DEFINE u == PageUp(m)
             v == PageUp(n)
  <1>1. /\ u \in Nat /\ v \in Nat
        /\ u * PAGE_SIZE < m + PAGE_SIZE /\ n <= v * PAGE_SIZE
    BY PageUpBounds
  <1> HIDE DEF u, v
  <1> SUFFICES ASSUME v < u PROVE FALSE
    BY <1>1 DEF u, v
  <1>2. v * PAGE_SIZE + PAGE_SIZE <= u * PAGE_SIZE
    BY <1>1, MultOrder, PageSizeAssumption
  <1>3. v * PAGE_SIZE \in Int /\ u * PAGE_SIZE \in Int
    BY <1>1, PageSizeAssumption, SMT
  <1> QED
    BY <1>1, <1>2, <1>3, PageSizeAssumption

\* A block that starts in the tail and runs on into fresh pages.
LEMMA AcrossStep ==
    ASSUME IInv, NEW size \in Nat \ {0}, NEW align \in Aligns, PowerOfTwo(align),
           NEW start, Fits(start, PageUp(size)), PlaceAcross(start, size, align)
    PROVE  ~panicked' /\ \E new, area : Handed(new, area)
  <1> DEFINE offset == RoundUp(last_offset, align)
             base == last_pos * PAGE_SIZE
             next == start * PAGE_SIZE
             rest == size - (PAGE_SIZE - offset)
             r == PageUp(rest)
             area == start..(start + r - 1)
             new == [addr |-> base + offset, size |-> size, align |-> align]
  <1>1. Merges(start, align) /\ size >= PAGE_SIZE - offset
    BY DEF PlaceAcross
  <1>2. /\ offset \in Nat /\ last_offset <= offset /\ offset <= PAGE_SIZE
        /\ new \in Pool!Block
        /\ new.addr % new.align = 0
    BY <1>1, MergeAddr
  <1>3. /\ PAGE_SIZE \in Nat \ {0} /\ last_pos \in Nat /\ last_offset \in Nat
        /\ node_low_pfn \in Nat /\ last_offset # 0
        /\ start = last_pos + 1 /\ start \in Nat
    BY <1>1, PageSizeAssumption DEF IInv, TypeOK, Merges
  <1>4. base \in Nat /\ next \in Nat /\ next = base + PAGE_SIZE
    BY <1>3, SMT
  <1>5. rest \in Nat /\ rest <= size
    BY <1>1, <1>2, <1>3
  <1>6. /\ r \in Nat /\ rest <= r * PAGE_SIZE /\ r * PAGE_SIZE < rest + PAGE_SIZE
        /\ r <= PageUp(size) /\ PageUp(size) \in Nat
    BY <1>5, PageUpBounds, PageUpMonotone
  <1>7. area \subseteq 0..(node_low_pfn - 1) /\ area \cap node_bootmem_map = {}
    <2> HIDE DEF r
    <2> QED
      BY <1>3, <1>6 DEF Fits
  <1>8. /\ panicked' = FALSE
        /\ node_bootmem_map' = node_bootmem_map \cup area
        /\ allocs' = Append(allocs, new)
        /\ last_pos' = start + r - 1
        /\ last_offset' = rest % PAGE_SIZE
    <2>1. /\ Hand(base + offset, size, align, area, offset > PAGE_SIZE)
          /\ last_pos' = start + r - 1
          /\ last_offset' = rest % PAGE_SIZE
      BY DEF PlaceAcross, InPage
    <2>2. ~ (offset > PAGE_SIZE) /\ (offset > PAGE_SIZE) \in BOOLEAN
      BY <1>2, <1>3
    <2>3. /\ panicked' = FALSE
          /\ node_bootmem_map' = node_bootmem_map \cup area
          /\ allocs' = Append(allocs, new)
      BY <2>1, <2>2, <1>7, HandOut, Zenon
    <2> QED
      BY <2>1, <2>3, Zenon
  <1>9. new.addr = base + offset /\ new.size = size /\ base + offset + size = next + rest
    BY <1>2, <1>3, <1>4
  <1> HIDE DEF offset, base, next, rest, r, new
  <1>10. \A m, n \in Int : /\ m * PAGE_SIZE \in Int
                           /\ m < n => m * PAGE_SIZE + PAGE_SIZE <= n * PAGE_SIZE
    <2>1. \A m \in Int : m * PAGE_SIZE \in Int
      BY <1>3, SMT
    <2> QED
      BY <1>3, <2>1, MultOrder
  <1>11. (start + r) * PAGE_SIZE = next + r * PAGE_SIZE
    BY <1>3, <1>6, SMT DEF next
  <1>12. area \subseteq Pool!PagesOf(new)
    <2> SUFFICES ASSUME NEW q \in area PROVE q \in Pool!PagesOf(new)
      OBVIOUS
    <2>1. q \in Int /\ start <= q /\ q < start + r
      BY <1>3, <1>6
    <2>2. next + PAGE_SIZE <= q * PAGE_SIZE + PAGE_SIZE
      BY <2>1, <1>3, <1>4, <1>10 DEF next
    <2>3. q * PAGE_SIZE + PAGE_SIZE <= next + r * PAGE_SIZE
      BY <2>1, <1>3, <1>6, <1>10, <1>11
    <2>4. q * PAGE_SIZE < base + offset + size /\ base + offset < q * PAGE_SIZE + PAGE_SIZE
      BY <2>1, <2>2, <2>3, <1>2, <1>3, <1>4, <1>5, <1>6, <1>9, <1>10
    <2> QED
      BY <2>1, <2>4, <1>2, <1>9, PagesOfBlock
  <1>13. Pool!PagesOf(new) \subseteq area \cup {last_pos}
    <2> SUFFICES ASSUME NEW q \in Pool!PagesOf(new) PROVE q \in area \cup {last_pos}
      OBVIOUS
    <2>1. q \in Int
      BY DEF Pool!PagesOf
    <2>2. q * PAGE_SIZE < next + rest /\ base + offset < q * PAGE_SIZE + PAGE_SIZE
      BY <2>1, <1>2, <1>9, PagesOfBlock
    <2>3. ~ (q < last_pos)
      BY <2>1, <2>2, <1>2, <1>3, <1>4, <1>10 DEF base
    <2>4. ~ (start + r <= q)
      <3> SUFFICES ASSUME start + r <= q PROVE FALSE
        OBVIOUS
      <3>1. (start + r) * PAGE_SIZE <= q * PAGE_SIZE
        BY <2>1, <1>3, <1>6, <1>10
      <3> QED
        BY <3>1, <2>1, <2>2, <1>4, <1>5, <1>6, <1>10, <1>11
    <2> QED
      BY <2>1, <2>3, <2>4, <1>3, <1>6
  <1>14. last_pos \in AllocPages /\ last_pos \in ram
    BY <1>3, TailPage
  <1>15. \A p \in area :
            p \in ram /\ \A i \in 1..Len(allocs) : p \notin Pool!PagesOf(allocs[i])
    BY <1>7, FreeFrames
  <1>16. \A i \in 1..Len(allocs) : Pool!Disjoint(allocs[i], new)
    <2> SUFFICES ASSUME NEW i \in 1..Len(allocs) PROVE Pool!Disjoint(allocs[i], new)
      OBVIOUS
    <2> DEFINE b == allocs[i]
               q == b.addr \div PAGE_SIZE
    <2>1. b \in Pool!Block /\ b.addr \in Nat /\ b.size \in Nat \ {0}
      BY BlockTypes
    <2>2. b.addr + b.size <= base + last_offset \/ b.addr >= base + PAGE_SIZE
      BY <1>3, <1>4 DEF IInv, TailFree, base, next
    <2>3. CASE b.addr + b.size <= base + last_offset
      BY <2>1, <2>3, <1>2, <1>3, <1>4, <1>9 DEF Pool!Disjoint
    <2>4. CASE b.addr >= base + PAGE_SIZE
      <3>1. q \in Nat /\ q * PAGE_SIZE <= b.addr /\ b.addr < q * PAGE_SIZE + PAGE_SIZE
        BY <2>1, <1>3, DivMod
      <3> HIDE DEF q, b
      <3>7. q * PAGE_SIZE \in Int /\ r * PAGE_SIZE \in Int /\ (start + r) * PAGE_SIZE \in Int
        BY <3>1, <1>3, <1>6, <1>10
      <3>8. q * PAGE_SIZE < b.addr + b.size
        BY <3>1, <3>7, <2>1
      <3>2. q \in Pool!PagesOf(b)
        BY <3>1, <3>8, <2>1, PagesOfBlock
      <3>3. q >= start
        <4> SUFFICES ASSUME q < start PROVE FALSE
          BY <3>1, <1>3
        <4>1. q * PAGE_SIZE + PAGE_SIZE <= next
          BY <3>1, <1>3, <1>10 DEF next
        <4> QED
          BY <4>1, <3>1, <2>1, <2>4, <1>3, <1>4, <1>10
      <3>4. q >= start + r
        BY <3>1, <3>2, <3>3, <1>3, <1>6, <1>15 DEF b
      <3>5. (start + r) * PAGE_SIZE <= q * PAGE_SIZE
        <4>1. CASE start + r = q
          BY <4>1, <3>7
        <4>2. CASE start + r < q
          BY <4>2, <3>1, <3>7, <1>3, <1>6, <1>10
        <4> QED
          BY <4>1, <4>2, <3>1, <3>4, <1>3, <1>6
      <3>6. next + rest <= b.addr
        BY <3>1, <3>5, <3>7, <2>1, <1>4, <1>5, <1>6, <1>11
      <3> QED
        BY <3>6, <1>9 DEF Pool!Disjoint, b
    <2> QED
      BY <2>2, <2>3, <2>4
  <1>17. ASSUME last_offset' # 0
         PROVE  /\ last_pos' \in area
                /\ new.addr + new.size = last_pos' * PAGE_SIZE + last_offset'
                /\ \A i \in 1..Len(allocs) :
                    \/ allocs[i].addr + allocs[i].size <= last_pos' * PAGE_SIZE + last_offset'
                    \/ allocs[i].addr >= (last_pos' + 1) * PAGE_SIZE
    <2> DEFINE p == start + r - 1
               o == rest % PAGE_SIZE
    <2>1. r > 0 /\ rest = (r - 1) * PAGE_SIZE + o
      BY <1>5, <1>8, <1>17, LastPartialPage DEF r
    <2>2. p \in area /\ p \in Nat
      BY <2>1, <1>3, <1>6
    <2>3. o \in Nat
      BY <1>3, <1>5, DivMod
    <2>4. next + (r - 1) * PAGE_SIZE = p * PAGE_SIZE
      BY <1>3, <1>6, SMT DEF next
    <2>5. \A i \in 1..Len(allocs) :
              \/ allocs[i].addr + allocs[i].size <= p * PAGE_SIZE
              \/ allocs[i].addr >= (p + 1) * PAGE_SIZE
      BY <2>2, <1>15, ClearOfPage
    <2>9. p + 1 \in Int
      BY <2>2
    <2> HIDE DEF p, o
    <2>6. p * PAGE_SIZE \in Int /\ (r - 1) * PAGE_SIZE \in Int
      BY <2>2, <1>6, <1>10
    <2>7. \A i \in 1..Len(allocs) :
              \/ allocs[i].addr + allocs[i].size <= p * PAGE_SIZE + o
              \/ allocs[i].addr >= (p + 1) * PAGE_SIZE
      <3>1. p * PAGE_SIZE <= p * PAGE_SIZE + o /\ p * PAGE_SIZE + o \in Int
        BY <2>3, <2>6
      <3>2. (p + 1) * PAGE_SIZE \in Int
        BY <2>9, <1>10
      <3> DEFINE x == p * PAGE_SIZE
                 y == p * PAGE_SIZE + o
                 z == (p + 1) * PAGE_SIZE
      <3>3. /\ x \in Int /\ y \in Int /\ z \in Int /\ x <= y
            /\ \A i \in 1..Len(allocs) :
                  allocs[i].addr + allocs[i].size <= x \/ allocs[i].addr >= z
        BY <3>1, <3>2, <2>5, <2>6
      <3> HIDE DEF x, y, z
      <3>4. \A i \in 1..Len(allocs) :
                  allocs[i].addr + allocs[i].size <= y \/ allocs[i].addr >= z
        BY <3>3, EndsLater
      <3> QED
        BY <3>4, Zenon DEF y, z
    <2>8. new.addr + new.size = p * PAGE_SIZE + o
      BY <2>1, <2>3, <2>4, <2>6, <1>4, <1>9
    <2> QED
      BY <2>2, <2>7, <2>8, <1>8 DEF p, o
  <1>18. last_pos' \in Nat
    BY <1>3, <1>6, <1>8
  <1>19. last_offset' \in 0..(PAGE_SIZE - 1)
    BY <1>3, <1>5, <1>8, DivMod
  <1> HIDE DEF area
  <1>20. Handed(new, area)
    BY <1>2, <1>7, <1>8, <1>12, <1>13, <1>14, <1>15, <1>16, <1>17, <1>18, <1>19 DEF Handed
  <1> QED
    BY <1>8, <1>20

\* Every allocation stops the machine and leaves the allocator as it was, or hands
\* out a block.
LEMMA AllocStep ==
    ASSUME IInv, NEW size \in Sizes, NEW align \in Aligns, NEW goal \in Goals,
           AllocBootmem(size, align, goal)
    PROVE  /\ on_pgdat_list
           /\ UNCHANGED <<on_pgdat_list, node_low_pfn, ram>>
           /\ \/ /\ panicked' = TRUE /\ UNCHANGED <<bdata, allocs>>
                 /\ size = 0 \/ ~PowerOfTwo(align) \/ Found(size, align, goal) = {}
              \/ panicked' = FALSE /\ \E new, area : Handed(new, area)
  <1> DEFINE bad == size = 0 \/ ~PowerOfTwo(align)
             found == IF bad THEN {} ELSE Found(size, align, goal)
  <1>1. /\ size \in Nat /\ goal \in Nat /\ align \in Nat \ {0}
    BY ArgumentsAssumption
  <1>2. on_pgdat_list /\ UNCHANGED <<on_pgdat_list, node_low_pfn, ram>>
    BY DEF AllocBootmem
  <1>3. CASE found = {} /\ panicked' = TRUE /\ UNCHANGED <<bdata, allocs>>
    BY <1>2, <1>3
  <1>4. ASSUME NEW start \in found,
               \/ PlaceFresh(start, size, align)
               \/ PlaceInTail(start, size, align)
               \/ PlaceAcross(start, size, align)
        PROVE  panicked' = FALSE /\ \E new, area : Handed(new, area)
    <2>1. ~bad /\ start \in Found(size, align, goal) /\ size \in Nat \ {0} /\ PowerOfTwo(align)
      BY <1>1, <1>4
    <2>2. /\ start \in Nat /\ Fits(start, PageUp(size))
          /\ \E k \in Nat : start * PAGE_SIZE = k * align
      BY <2>1, <1>1, FoundRun DEF IInv
    <2>3. CASE PlaceFresh(start, size, align)
      BY <2>1, <2>2, <2>3, <1>1, FreshStep
    <2>4. CASE PlaceInTail(start, size, align)
      BY <2>1, <2>4, TailStep
    <2>5. CASE PlaceAcross(start, size, align)
      BY <2>1, <2>2, <2>5, AcrossStep
    <2> QED
      BY <1>4, <2>3, <2>4, <2>5
  <1>5. \/ found = {} /\ panicked' = TRUE /\ UNCHANGED <<bdata, allocs>>
        \/ \E start \in found : \/ PlaceFresh(start, size, align)
                                \/ PlaceInTail(start, size, align)
                                \/ PlaceAcross(start, size, align)
    BY DEF AllocBootmem
  <1> HIDE DEF found
  <1> QED
    BY <1>2, <1>3, <1>4, <1>5

-----------------------------------------------------------------------------
(* Induction.                                                              *)

LEMMA InitIInv == Init => IInv
  <1> SUFFICES ASSUME Init PROVE IInv
    OBVIOUS
  <1>1. TypeOK
    <2>1. <<>> \in Seq(Pool!Block)
      OBVIOUS
    <2>2. 0 \in 0..(PAGE_SIZE - 1)
      BY PageSizeAssumption
    <2> QED
      BY <2>1, <2>2, Zenon DEF Init, TypeOK
  <1>2. allocs = <<>> /\ Len(allocs) = 0
    BY DEF Init
  <1>3. Untouched /\ TailFree
    BY DEF Init, Untouched, TailFree
  <1>4. NoOverlap /\ BlocksInRam /\ BlocksAligned
    BY <1>2 DEF NoOverlap, BlocksInRam, BlocksAligned, Pool!PairwiseDisjoint
  <1>5. BitmapExact
    BY <1>2 DEF Init, BitmapExact, AllocPages
  <1> QED
    BY <1>1, <1>3, <1>4, <1>5 DEF IInv

\* Handing out a block keeps the invariant.
LEMMA HandedKeeps ==
    ASSUME IInv, NEW new, NEW area, Handed(new, area),
           on_pgdat_list, panicked' = FALSE, UNCHANGED <<on_pgdat_list, node_low_pfn, ram>>
    PROVE  IInv'
  <1> DEFINE n == Len(allocs)
  <1>1. /\ allocs \in Seq(Pool!Block) /\ new \in Pool!Block /\ n \in Nat
        /\ allocs' = Append(allocs, new)
    BY DEF IInv, TypeOK, Handed
  <1>2. /\ allocs' \in Seq(Pool!Block)
        /\ Len(allocs') = n + 1
        /\ \A i \in 1..n : allocs'[i] = allocs[i]
        /\ allocs'[n + 1] = new
    BY <1>1
  <1>3. TypeOK'
    BY <1>2 DEF IInv, TypeOK, Handed
  <1>4. Untouched'
    BY DEF Untouched
  <1> HIDE DEF n
  <1>10. n \in Nat
    BY <1>1
  <1>11. \A i \in 1..(n + 1) : i \in 1..n \/ i = n + 1
    BY <1>10
  <1>5. NoOverlap'
    <2> SUFFICES ASSUME NEW i \in 1..(n + 1), NEW j \in 1..(n + 1), i # j
                 PROVE  Pool!Disjoint(allocs'[i], allocs'[j])
      BY <1>2 DEF NoOverlap, Pool!PairwiseDisjoint
    <2>1. CASE i \in 1..n /\ j \in 1..n
      BY <1>2, <2>1 DEF IInv, NoOverlap, Pool!PairwiseDisjoint, n
    <2>2. CASE i = n + 1 /\ j \in 1..n
      <3>1. Pool!Disjoint(allocs[j], new)
        BY <2>2 DEF Handed, n
      <3> QED
        BY <3>1, <2>2, <1>2 DEF Pool!Disjoint
    <2>3. CASE i \in 1..n /\ j = n + 1
      BY <2>3, <1>2 DEF Handed, n
    <2> QED
      BY <2>1, <2>2, <2>3, <1>11
  <1>6. BlocksInRam'
    <2> SUFFICES ASSUME NEW i \in 1..(n + 1) PROVE Pool!PagesOf(allocs'[i]) \subseteq ram
      BY <1>2 DEF BlocksInRam, Pool!PagesOf
    <2>1. CASE i \in 1..n
      BY <2>1, <1>2 DEF IInv, BlocksInRam, n
    <2>2. CASE i = n + 1
      BY <2>2, <1>2 DEF Handed
    <2> QED
      BY <2>1, <2>2, <1>11
  <1>7. BitmapExact'
    <2>1. AllocPages' = AllocPages \cup Pool!PagesOf(new)
      <3>1. AllocPages' = UNION {Pool!PagesOf(allocs'[i]) : i \in 1..(n + 1)}
        BY <1>2 DEF AllocPages, Pool!PagesOf
      <3>2. \A i \in 1..n : Pool!PagesOf(allocs'[i]) = Pool!PagesOf(allocs[i])
        BY <1>2
      <3>3. AllocPages = UNION {Pool!PagesOf(allocs[i]) : i \in 1..n}
        BY DEF AllocPages, n
      <3> QED
        BY <3>1, <3>2, <3>3, <1>1, <1>2
    <2>2. node_bootmem_map' = node_bootmem_map \cup area
      BY DEF Handed
    <2>3. AllocPages \cup Pool!PagesOf(new) = AllocPages \cup area
      BY DEF Handed
    <2> QED
      BY <2>1, <2>2, <2>3 DEF IInv, BitmapExact
  <1>8. BlocksAligned'
    BY <1>1, <1>2 DEF IInv, BlocksAligned, Handed, n
  <1>9. TailFree'
    <2> SUFFICES ASSUME last_offset' # 0
                 PROVE  /\ last_pos' \in node_bootmem_map' \cap ram
                        /\ \A i \in 1..(n + 1) :
                            \/ allocs'[i].addr + allocs'[i].size
                                   <= last_pos' * PAGE_SIZE + last_offset'
                            \/ allocs'[i].addr >= (last_pos' + 1) * PAGE_SIZE
      BY <1>2 DEF TailFree
    <2>1. /\ last_pos' \in Pool!PagesOf(new)
          /\ new.addr + new.size = last_pos' * PAGE_SIZE + last_offset'
          /\ \A i \in 1..n :
                \/ allocs[i].addr + allocs[i].size <= last_pos' * PAGE_SIZE + last_offset'
                \/ allocs[i].addr >= (last_pos' + 1) * PAGE_SIZE
      BY DEF Handed, n
    <2>2. last_pos' \in node_bootmem_map' \cap ram
      <3>1. AllocPages \subseteq node_bootmem_map
        BY DEF IInv, BitmapExact
      <3> QED
        BY <3>1, <2>1 DEF Handed
    <2>3. new.addr + new.size <= last_pos' * PAGE_SIZE + last_offset'
      <3>1. new.addr + new.size \in Int
        BY <1>1 DEF Pool!Block
      <3> QED
        BY <3>1, <2>1
    <2> QED
      BY <2>1, <2>2, <2>3, <1>2, <1>11
  <1> QED
    BY <1>3, <1>4, <1>5, <1>6, <1>7, <1>8, <1>9 DEF IInv

\* Without blocks only the bitmap and the registered memory matter.
LEMMA NoBlocksKeep ==
    ASSUME TypeOK', Untouched', BitmapExact', allocs' = <<>>, last_offset' = 0
    PROVE  IInv'
  <1>1. Len(allocs') = 0
    OBVIOUS
  <1>2. (NoOverlap /\ BlocksInRam /\ BlocksAligned)'
    BY <1>1 DEF NoOverlap, BlocksInRam, BlocksAligned, Pool!PairwiseDisjoint
  <1>3. TailFree'
    BY DEF TailFree
  <1> QED
    BY <1>2, <1>3 DEF IInv

\* Every step keeps the inductive invariant.
LEMMA NextIInv == IInv /\ [Next]_vars => IInv'
  <1> SUFFICES ASSUME IInv, [Next]_vars PROVE IInv'
    OBVIOUS
  <1> USE DEF IInv
  <1>0. allocs = <<>> => last_offset = 0 /\ AllocPages = {}
    BY NoTailAtStart
  <1>9. allocs' = <<>> => AllocPages' = {}
    <2>1. allocs' = <<>> => Len(allocs') = 0
      OBVIOUS
    <2> QED
      BY <2>1 DEF AllocPages
  <1>1. ASSUME NEW pages \in MaxPfns, InitBootmem(pages)
        PROVE  IInv'
    <2>1. pages \in Nat
      BY ArgumentsAssumption
    <2>2. allocs = <<>> /\ ram = {} /\ on_pgdat_list' = TRUE
      BY <1>1 DEF InitBootmem, Untouched
    <2>3. TypeOK' /\ Untouched'
      BY <1>1, <2>1, <2>2 DEF InitBootmem, TypeOK, Untouched
    <2>4. BitmapExact'
      BY <1>1, <1>0, <1>9, <2>2 DEF InitBootmem, BitmapExact
    <2> QED
      BY <1>0, <1>1, <2>2, <2>3, <2>4, NoBlocksKeep DEF InitBootmem
  <1>2. ASSUME NEW r \in Regions, FreeBootmem(r.addr, r.size)
        PROVE  IInv'
    <2> DEFINE bad     == r.size = 0 \/ PageDown(r.addr + r.size) > node_low_pfn
               pages   == IF bad THEN {} ELSE PageUp(r.addr)..(PageDown(r.addr + r.size) - 1)
               cleared == {p \in pages : \A q \in pages \ node_bootmem_map : p < q}
    <2>1. /\ on_pgdat_list /\ allocs = <<>>
          /\ panicked' = (bad \/ cleared # pages)
          /\ node_bootmem_map' = node_bootmem_map \ cleared
          /\ ram' = ram \cup cleared
          /\ UNCHANGED <<on_pgdat_list, node_low_pfn, last_pos, last_offset, allocs>>
      BY <1>2 DEF FreeBootmem, Registering
    <2>2. cleared \subseteq Nat
      <3>1. r.addr \in Nat
        BY ArgumentsAssumption
      <3>2. PageUp(r.addr) \in Nat
        BY <3>1, PageUpBounds
      <3> QED
        BY <3>2
    <2>3. (bad \/ cleared # pages) \in BOOLEAN
      OBVIOUS
    <2> HIDE DEF bad, cleared, pages
    <2>4. panicked' \in BOOLEAN
      BY <2>1, <2>3, Zenon
    <2>5. TypeOK' /\ Untouched'
      BY <2>1, <2>2, <2>4 DEF TypeOK, Untouched
    <2>6. BitmapExact'
      BY <2>1, <1>0, <1>9 DEF BitmapExact
    <2> QED
      BY <1>0, <2>1, <2>5, <2>6, NoBlocksKeep
  <1>3. ASSUME NEW r \in Regions, ReserveBootmem(r.addr, r.size)
        PROVE  IInv'
    <2> DEFINE first == PageDown(r.addr)
               end   == PageUp(r.addr + r.size)
               bad   == r.size = 0 \/ first >= end \/ first >= node_low_pfn \/ end > node_low_pfn
               pages == IF bad THEN {} ELSE first..(end - 1)
    <2>1. /\ on_pgdat_list /\ allocs = <<>>
          /\ panicked' = bad
          /\ node_bootmem_map' = node_bootmem_map \cup pages
          /\ ram' = ram \ pages
          /\ UNCHANGED <<on_pgdat_list, node_low_pfn, last_pos, last_offset, allocs>>
      BY <1>3 DEF ReserveBootmem, Registering
    <2>2. pages \subseteq 0..(node_low_pfn - 1)
      <3>1. r.addr \in Nat /\ r.addr + r.size \in Nat
        BY ArgumentsAssumption
      <3>2. first \in Nat /\ end \in Nat /\ node_low_pfn \in Nat
        BY <3>1, DivMod, PageUpBounds, PageSizeAssumption DEF PageDown, TypeOK
      <3> HIDE DEF first, end
      <3> QED
        BY <3>2
    <2>3. bad \in BOOLEAN
      OBVIOUS
    <2> HIDE DEF bad, pages
    <2>4. panicked' \in BOOLEAN
      BY <2>1, <2>3, Zenon
    <2>5. TypeOK' /\ Untouched'
      BY <2>1, <2>2, <2>4 DEF TypeOK, Untouched
    <2>6. BitmapExact'
      BY <2>1, <2>2, <1>0, <1>9 DEF BitmapExact
    <2> QED
      BY <1>0, <2>1, <2>5, <2>6, NoBlocksKeep
  <1>4. ASSUME NEW size \in Sizes, NEW align \in Aligns, NEW goal \in Goals,
               AllocBootmem(size, align, goal)
        PROVE  IInv'
    <2>1. CASE panicked' = TRUE /\ UNCHANGED <<bdata, allocs>>
      <3>1. UNCHANGED <<on_pgdat_list, bdata, ram, allocs>> /\ panicked' \in BOOLEAN
        BY <1>4, <2>1, AllocStep DEF bdata
      <3> QED
        BY <3>1 DEF bdata, TypeOK, Untouched, NoOverlap, BlocksInRam, BitmapExact,
                    BlocksAligned, TailFree, AllocPages
    <2>2. CASE panicked' = FALSE /\ \E new, area : Handed(new, area)
      BY <1>4, <2>2, AllocStep, HandedKeeps
    <2> QED
      BY <1>4, <2>1, <2>2, AllocStep
  <1>5. CASE UNCHANGED vars
    BY <1>5 DEF vars, bdata, TypeOK, Untouched, NoOverlap, BlocksInRam, BitmapExact,
                BlocksAligned, TailFree, AllocPages
  <1> QED
    BY <1>1, <1>2, <1>3, <1>4, <1>5 DEF Next

\* The inductive invariant holds in every reachable state.
LEMMA AlwaysIInv == Spec => []IInv
  BY InitIInv, NextIInv, PTL DEF Spec

-----------------------------------------------------------------------------
(* The theorems.                                                           *)

\* Every variable of bootmem_data_t keeps its range through init_bootmem,
\* free_bootmem, reserve_bootmem and __alloc_bootmem.
THEOREM TypeCorrect == Spec => []TypeOK
  BY AlwaysIInv, PTL DEF IInv

\* __alloc_bootmem_core never hands out the same byte twice, however fresh and
\* merging allocations follow each other.
THEOREM BlocksDisjoint == Spec => []NoOverlap
  BY AlwaysIInv, PTL DEF IInv

\* __alloc_bootmem_core hands out only memory that free_bootmem registered and
\* reserve_bootmem left alone.
THEOREM OnlyRamGiven == Spec => []BlocksInRam
  BY AlwaysIInv, PTL DEF IInv

\* The bitmap is exact: its clear bits are the registered frames no block touches.
THEOREM BitmapCorrect == Spec => []BitmapExact
  BY AlwaysIInv, PTL DEF IInv

\* Every block, merged or not, starts at a multiple of the alignment asked.
THEOREM AlignmentKept == Spec => []BlocksAligned
  BY AlwaysIInv, PTL DEF IInv

\* Nobody owns the bytes of page last_pos from last_offset on.
THEOREM TailSound == Spec => []TailFree
  BY AlwaysIInv, PTL DEF IInv

\* The bitmap and the tail, from which alone the next call of __alloc_bootmem_core finds
\* its block, are exact after every call.
THEOREM RecordsCorrect == Spec => []RecordsExact
  BY AlwaysIInv, PTL DEF IInv, RecordsExact

\* A block handed out is a step of the pool.
LEMMA HandedGives ==
    ASSUME IInv, ~panicked, NEW new, NEW area, Handed(new, area), panicked' = FALSE,
           UNCHANGED ram
    PROVE  Pool!Next
  <1>1. allocs \in Seq(Pool!Block) /\ new \in Pool!Block /\ allocs' = Append(allocs, new)
    BY DEF IInv, TypeOK, Handed
  <1>2. allocs'[Len(allocs')] = new
    BY <1>1
  <1>3. Pool!Give
    BY <1>1, <1>2 DEF Pool!Give, Handed
  <1> QED
    BY <1>3, Zenon DEF Pool!Next

\* Every step of the allocator is a step of the pool or leaves it unchanged.
LEMMA StepsRefine == IInv /\ IInv' /\ [Next]_vars => [Pool!Next]_(Pool!vars)
  <1> SUFFICES ASSUME IInv, IInv', [Next]_vars PROVE [Pool!Next]_(Pool!vars)
    OBVIOUS
  <1>0. ram' \in SUBSET Nat /\ panicked' \in BOOLEAN /\ panicked \in BOOLEAN
    BY DEF IInv, TypeOK
  <1>r. ASSUME ~panicked, allocs = <<>>, UNCHANGED allocs
        PROVE  Pool!Next
    <2>1. Pool!Register
      BY <1>0, <1>r DEF Pool!Register
    <2>2. CASE panicked' = TRUE
      BY <1>r, <2>2, Zenon DEF Pool!Next, Pool!Halt
    <2>3. CASE panicked' = FALSE
      BY <1>r, <2>1, <2>3, Zenon DEF Pool!Next
    <2> QED
      BY <1>0, <2>2, <2>3
  <1>1. ASSUME NEW pages \in MaxPfns, InitBootmem(pages)
        PROVE  UNCHANGED Pool!vars
    BY <1>1 DEF InitBootmem, Pool!vars
  <1>2. ASSUME NEW r \in Regions, FreeBootmem(r.addr, r.size)
        PROVE  Pool!Next
    BY <1>2, <1>r DEF FreeBootmem, Registering
  <1>3. ASSUME NEW r \in Regions, ReserveBootmem(r.addr, r.size)
        PROVE  Pool!Next
    BY <1>3, <1>r DEF ReserveBootmem, Registering
  <1>4. ASSUME NEW size \in Sizes, NEW align \in Aligns, NEW goal \in Goals,
               AllocBootmem(size, align, goal)
        PROVE  Pool!Next
    <2>1. ~panicked
      BY <1>4 DEF AllocBootmem
    <2>2. CASE panicked' = TRUE /\ UNCHANGED <<bdata, allocs>>
      BY <2>1, <2>2, Zenon DEF Pool!Next, Pool!Halt
    <2>3. CASE panicked' = FALSE /\ \E new, area : Handed(new, area)
      BY <1>4, <2>1, <2>3, AllocStep, HandedGives
    <2> QED
      BY <1>4, <2>2, <2>3, AllocStep
  <1>5. CASE UNCHANGED vars
    BY <1>5 DEF vars, Pool!vars
  <1> QED
    BY <1>1, <1>2, <1>3, <1>4, <1>5 DEF Next

\* The bitmap allocator implements the pool of disjoint, aligned blocks.
THEOREM Refinement == Spec => ImplementsPool
  <1>1. Init => Pool!Init
    BY DEF Init, Pool!Init
  <1> QED
    BY <1>1, AlwaysIInv, StepsRefine, PTL DEF Spec, Pool!Spec, ImplementsPool

\* A frame whose address has the alignment is one the scan from 0 looks at.
LEMMA ScanMeets ==
    ASSUME NEW align \in Aligns, PowerOfTwo(align), NEW i \in Nat,
           (i * PAGE_SIZE) % align = 0
    PROVE  i % Incr(align) = 0
  <1>1. align \in Nat \ {0} /\ PAGE_SIZE \in Nat \ {0}
    BY ArgumentsAssumption, PageSizeAssumption
  <1>2. CASE align <= PAGE_SIZE
    <2>1. Incr(align) = 1
      <3>1. CASE align < PAGE_SIZE
        BY <3>1, <1>1 DEF Incr
      <3>2. CASE align = PAGE_SIZE
        <4>1. PAGE_SIZE \div PAGE_SIZE = 1
          BY <1>1, DivUnique, SMT
        <4> QED
          BY <4>1, <3>2, <1>1 DEF Incr, PageDown
      <3> QED
        BY <1>1, <1>2, <3>1, <3>2
    <2>2. (i * 1) % 1 = 0
      BY MultipleMod
    <2> QED
      BY <2>1, <2>2
  <1>3. CASE align > PAGE_SIZE
    <2>0. ~ (align <= PAGE_SIZE)
      BY <1>1, <1>3
    <2>1. PICK m \in Nat \ {0} : align = m * PAGE_SIZE
      BY <2>0, AlignCases, Zenon
    <2>2. Incr(align) = m
      BY <1>1, <1>3, <2>1, DivUnique DEF Incr, PageDown
    <2> DEFINE j == (i * PAGE_SIZE) \div align
    <2>3. i * PAGE_SIZE \in Nat
      BY <1>1, SMT
    <2>4. j \in Nat /\ (i * PAGE_SIZE) % align = i * PAGE_SIZE - j * align
      BY <1>1, <2>3, DivMod
    <2> HIDE DEF j
    <2>5. i * PAGE_SIZE = (j * m) * PAGE_SIZE /\ j * m \in Nat
      BY <1>1, <2>1, <2>3, <2>4, SMT
    <2>6. i = j * m
      <3>1. ~ (i < j * m)
        BY <1>1, <2>3, <2>5, MultOrder
      <3>2. ~ (j * m < i)
        BY <1>1, <2>3, <2>5, MultOrder
      <3> QED
        BY <2>5, <3>1, <3>2
    <2> QED
      BY <2>2, <2>4, <2>6, MultipleMod
  <1> QED
    BY <1>1, <1>2, <1>3

\* __alloc_bootmem reaches BUG on a correct request only when no aligned run of
\* free frames is left anywhere on the node.
THEOREM StopsOnlyWhenFull == Spec => AllocStopsOnlyWhenFull
  <1> DEFINE Full == \A size \in Sizes \ {0}, align \in Aligns, goal \in Goals :
          (AllocBootmem(size, align, goal) /\ PowerOfTwo(align) /\ panicked')
              => \A i \in 0..(node_low_pfn - 1) :
                    (i * PAGE_SIZE) % align = 0 => ~Fits(i, PageUp(size))
  <1>1. ASSUME IInv PROVE Full
    <2> SUFFICES ASSUME NEW size \in Sizes \ {0}, NEW align \in Aligns, NEW goal \in Goals,
                        AllocBootmem(size, align, goal), PowerOfTwo(align), panicked',
                        NEW i \in 0..(node_low_pfn - 1),
                        (i * PAGE_SIZE) % align = 0, Fits(i, PageUp(size))
                 PROVE  FALSE
      OBVIOUS
    <2>1. Found(size, align, goal) = {}
      BY <1>1, AllocStep
    <2>2. Candidates(0, size, align) = {}
      BY <2>1 DEF Found
    <2>3. i \in Nat /\ i - 0 = i
      BY <1>1 DEF IInv, TypeOK
    <2>4. i % Incr(align) = 0
      BY <2>3, ScanMeets
    <2>5. i \in Candidates(0, size, align)
      BY <2>3, <2>4 DEF Candidates
    <2> QED
      BY <2>2, <2>5
  <1>2. IInv => [Full]_vars
    BY <1>1
  <1> QED
    BY <1>2, AlwaysIInv, PTL DEF AllocStopsOnlyWhenFull

\* Of an aligned frame at or above a goal on a page boundary: the scan starts at it or
\* below, not below the goal, and its stride meets the frame.
LEMMA ScanFromGoal ==
    ASSUME NEW align \in Aligns, PowerOfTwo(align), NEW goal \in Nat, goal % PAGE_SIZE = 0,
           NEW i \in Nat, i < node_low_pfn, node_low_pfn \in Nat,
           (i * PAGE_SIZE) % align = 0, goal <= i * PAGE_SIZE
    PROVE  LET pref == Preferred(align, goal)
           IN  pref \in 0..i /\ goal <= pref * PAGE_SIZE /\ (i - pref) % Incr(align) = 0
  <1> DEFINE pref == Preferred(align, goal)
             x == i * PAGE_SIZE
             up == RoundUp(goal, align)
             page == goal \div PAGE_SIZE
  <1>1. align \in Nat \ {0} /\ PAGE_SIZE \in Nat \ {0}
    BY ArgumentsAssumption, PageSizeAssumption
  <1>2. x \in Nat
    BY <1>1, SMT
  <1>3. page \in Nat /\ goal = page * PAGE_SIZE
    <2>1. page \in Nat /\ goal % PAGE_SIZE = goal - page * PAGE_SIZE /\ page * PAGE_SIZE <= goal
      BY <1>1, DivMod
    <2>2. page * PAGE_SIZE \in Nat
      BY <2>1, <1>1, SMT
    <2> HIDE DEF page
    <2> QED
      BY <2>1, <2>2
  <1> HIDE DEF page
  <1>4. page <= i
    <2>1. SUFFICES ASSUME i < page PROVE FALSE
      BY <1>3
    <2>2. i * PAGE_SIZE + PAGE_SIZE <= page * PAGE_SIZE
      BY <2>1, <1>1, <1>3, MultOrder
    <2> QED
      BY <2>2, <1>1, <1>2, <1>3
  <1>5. PageDown(goal) = page
    BY <1>1, <1>3, DivUnique DEF PageDown
  <1>6. pref = PageDown(up)
    BY <1>4, <1>5, <1>3 DEF Preferred
  <1>7. PICK k \in Nat : up = k * align /\ goal <= up /\ up < goal + align
    BY <1>1, RoundUpBounds
  <1> HIDE DEF up
  <1>8. PICK j \in Nat : x = j * align
    <2> DEFINE q == x \div align
    <2>1. q \in Nat /\ x % align = x - q * align /\ q * align <= x
      BY <1>1, <1>2, DivMod
    <2>2. q * align \in Nat
      BY <2>1, <1>1, SMT
    <2> HIDE DEF q, x
    <2>3. x % align = 0
      BY DEF x
    <2> QED
      BY <1>2, <2>1, <2>2, <2>3
  <1>9. up \in Nat /\ up <= x
    <2>1. up \in Nat
      BY <1>1, <1>7, SMT
    <2>2. SUFFICES ASSUME j < k PROVE FALSE
      <3>1. CASE k = j
        BY <3>1, <2>1, <1>7, <1>8
      <3>2. CASE k < j
        <4>1. k * align + align <= j * align
          BY <3>2, <1>1, MultOrder
        <4> HIDE DEF x
        <4> QED
          BY <4>1, <2>1, <1>1, <1>2, <1>7, <1>8
      <3> QED
        BY <3>1, <3>2
    <2>3. j * align + align <= k * align
      BY <2>2, <1>1, MultOrder
    <2> HIDE DEF x
    <2> QED
      BY <2>1, <2>3, <1>1, <1>2, <1>7, <1>8, goal <= x DEF x
  <1>10. pref \in Nat /\ pref * PAGE_SIZE <= up /\ up < pref * PAGE_SIZE + PAGE_SIZE
    BY <1>1, <1>6, <1>9, DivMod DEF PageDown
  <1>11. pref * PAGE_SIZE \in Nat
    BY <1>1, <1>10, SMT
  <1> HIDE DEF pref
  <1>12. pref <= i
    <2>1. SUFFICES ASSUME i < pref PROVE FALSE
      BY <1>10
    <2>2. i * PAGE_SIZE + PAGE_SIZE <= pref * PAGE_SIZE
      BY <2>1, <1>1, <1>10, MultOrder
    <2> QED
      BY <2>2, <1>1, <1>2, <1>9, <1>10, <1>11
  <1>13. goal <= pref * PAGE_SIZE
    <2>1. ~ (pref < page)
      <3>1. SUFFICES ASSUME pref < page PROVE FALSE
        OBVIOUS
      <3>2. pref * PAGE_SIZE + PAGE_SIZE <= page * PAGE_SIZE
        BY <3>1, <1>1, <1>3, <1>10, MultOrder
      <3> QED
        BY <3>2, <1>1, <1>3, <1>7, <1>9, <1>10, <1>11
    <2>2. CASE pref = page
      BY <2>2, <1>3
    <2>3. CASE page < pref
      <3>1. page * PAGE_SIZE + PAGE_SIZE <= pref * PAGE_SIZE
        BY <2>3, <1>1, <1>3, <1>10, MultOrder
      <3> QED
        BY <3>1, <1>1, <1>3, <1>11
    <2> QED
      BY <2>1, <2>2, <2>3, <1>3, <1>10
  <1>14. (i - pref) % Incr(align) = 0
    <2>1. i % Incr(align) = 0
      BY ScanMeets
    <2>2. CASE align <= PAGE_SIZE
      <3>1. Incr(align) = 1
        <4>1. CASE align < PAGE_SIZE
          BY <4>1, <1>1 DEF Incr
        <4>2. CASE align = PAGE_SIZE
          <5>1. PAGE_SIZE \div PAGE_SIZE = 1
            BY <1>1, DivUnique, SMT
          <5> QED
            BY <5>1, <4>2, <1>1 DEF Incr, PageDown
        <4> QED
          BY <2>2, <1>1, <4>1, <4>2
      <3>2. i - pref \in Nat
        BY <1>10, <1>12
      <3>3. ((i - pref) * 1) % 1 = 0
        BY <3>2, MultipleMod
      <3> QED
        BY <3>1, <3>2, <3>3
    <2>3. CASE align > PAGE_SIZE
      <3>0. ~ (align <= PAGE_SIZE)
        BY <1>1, <2>3
      <3>1. PICK m \in Nat \ {0} : align = m * PAGE_SIZE
        BY <3>0, AlignCases, Zenon
      <3>2. Incr(align) = m
        BY <1>1, <2>3, <3>1, DivUnique DEF Incr, PageDown
      <3>3. pref = k * m
        <4>1. up = (k * m) * PAGE_SIZE /\ k * m \in Nat
          BY <1>7, <1>1, <3>1, SMT
        <4> QED
          BY <4>1, <1>1, <1>6, <1>9, DivUnique DEF PageDown
      <3>4. i = j * m
        <4>1. i * PAGE_SIZE = (j * m) * PAGE_SIZE /\ j * m \in Nat
          BY <1>8, <1>1, <3>1, SMT
        <4>2. ~ (i < j * m)
          BY <1>1, <1>2, <4>1, MultOrder
        <4>3. ~ (j * m < i)
          BY <1>1, <1>2, <4>1, MultOrder
        <4> QED
          BY <4>1, <4>2, <4>3
      <3>5. i - pref = (j - k) * m
        BY <3>3, <3>4, <3>1, SMT
      <3>6. j - k \in Nat
        <4>1. ~ (j < k)
          <5>1. SUFFICES ASSUME j < k PROVE FALSE
            OBVIOUS
          <5>2. j * m + m <= k * m
            BY <5>1, <3>1, MultOrder
          <5> QED
            BY <5>2, <3>1, <3>3, <3>4, <1>10, <1>12
        <4> QED
          BY <4>1
      <3> QED
        BY <3>1, <3>2, <3>5, <3>6, MultipleMod
    <2> QED
      BY <2>2, <2>3, <1>1
  <1> QED
    BY <1>10, <1>12, <1>13, <1>14 DEF pref

\* __alloc_bootmem tries the memory above the goal first: while an aligned run is free
\* there, no block is placed below, except that it may continue in the page before.
THEOREM GoalTriedFirst == Spec => GoalFirst
  <1> DEFINE Above == \A size \in Sizes, align \in Aligns, goal \in Goals :
          (AllocBootmem(size, align, goal) /\ ~panicked' /\ goal % PAGE_SIZE = 0
            /\ \E i \in 0..(node_low_pfn - 1) :
                  i * PAGE_SIZE >= goal /\ (i * PAGE_SIZE) % align = 0
                    /\ Fits(i, PageUp(size)))
              => allocs'[Len(allocs')].addr > goal - PAGE_SIZE
  <1>1. ASSUME IInv PROVE Above
    <2> SUFFICES ASSUME NEW size \in Sizes, NEW align \in Aligns, NEW goal \in Goals,
                        AllocBootmem(size, align, goal), ~panicked', goal % PAGE_SIZE = 0,
                        NEW i \in 0..(node_low_pfn - 1), i * PAGE_SIZE >= goal,
                        (i * PAGE_SIZE) % align = 0, Fits(i, PageUp(size))
                 PROVE  allocs'[Len(allocs')].addr > goal - PAGE_SIZE
      OBVIOUS
    <2> DEFINE pref == Preferred(align, goal)
               bad == size = 0 \/ ~PowerOfTwo(align)
               found == IF bad THEN {} ELSE Found(size, align, goal)
    <2>1. /\ size \in Nat /\ goal \in Nat /\ align \in Nat \ {0} /\ PAGE_SIZE \in Nat \ {0}
          /\ node_low_pfn \in Nat /\ i \in Nat /\ i < node_low_pfn
          /\ last_pos \in Nat /\ last_offset \in Nat
      BY <1>1, ArgumentsAssumption, PageSizeAssumption DEF IInv, TypeOK
    <2>2. PICK start \in found : \/ PlaceFresh(start, size, align)
                                 \/ PlaceInTail(start, size, align)
                                 \/ PlaceAcross(start, size, align)
      BY DEF AllocBootmem
    <2>3. size # 0 /\ PowerOfTwo(align) /\ start \in Found(size, align, goal)
      BY <2>2
    <2>4. /\ pref \in 0..i /\ goal <= pref * PAGE_SIZE
          /\ (i - pref) % Incr(align) = 0
      <3>1. goal <= i * PAGE_SIZE
        BY <2>1, SMT
      <3> QED
        BY <2>1, <2>3, <3>1, ScanFromGoal
    <2> HIDE DEF pref
    <2>5. i \in Candidates(pref, size, align)
      BY <2>1, <2>4 DEF Candidates
    <2>6. start \in Candidates(pref, size, align)
      BY <2>3, <2>5 DEF Found, pref
    <2>7. start \in Nat /\ pref <= start /\ pref \in Nat
      BY <2>1, <2>4, <2>6 DEF Candidates
    <2>8. start * PAGE_SIZE \in Nat /\ goal <= start * PAGE_SIZE
      <3>1. pref * PAGE_SIZE \in Nat /\ start * PAGE_SIZE \in Nat
        BY <2>1, <2>7, SMT
      <3>2. CASE pref < start
        <4>1. pref * PAGE_SIZE + PAGE_SIZE <= start * PAGE_SIZE
          BY <3>2, <2>1, <2>7, MultOrder
        <4> QED
          BY <4>1, <3>1, <2>1, <2>4
      <3>3. CASE pref = start
        BY <3>1, <3>3, <2>4
      <3> QED
        BY <2>7, <3>2, <3>3
    <2>9. \A addr, area, bug : Hand(addr, size, align, area, bug)
            => allocs'[Len(allocs')].addr = addr
      <3> SUFFICES ASSUME NEW addr, NEW area, NEW bug, Hand(addr, size, align, area, bug)
                   PROVE  allocs'[Len(allocs')].addr = addr
        OBVIOUS
      <3> DEFINE new == [addr |-> addr, size |-> size, align |-> align]
      <3>1. allocs' = Append(allocs, new)
        BY Zenon DEF Hand
      <3>2. allocs \in Seq(Pool!Block)
        BY <1>1 DEF IInv, TypeOK
      <3>3. Len(allocs') = Len(allocs) + 1 /\ allocs'[Len(allocs) + 1] = new
        <4> HIDE DEF new
        <4> QED
          BY <3>1, <3>2
      <3> QED
        BY <3>3
    <2>10. CASE PlaceFresh(start, size, align)
      <3>1. allocs'[Len(allocs')].addr = start * PAGE_SIZE
        BY <2>9, <2>10, Zenon DEF PlaceFresh
      <3> QED
        BY <3>1, <2>1, <2>8
    <2>11. ASSUME PlaceInTail(start, size, align) \/ PlaceAcross(start, size, align)
           PROVE  allocs'[Len(allocs')].addr > goal - PAGE_SIZE
      <3> DEFINE offset == RoundUp(last_offset, align)
      <3>1. allocs'[Len(allocs')].addr = last_pos * PAGE_SIZE + offset
        BY <2>9, <2>11, Zenon DEF PlaceInTail, PlaceAcross
      <3>2. last_pos + 1 = start /\ last_offset # 0
        BY <2>11 DEF PlaceInTail, PlaceAcross, Merges
      <3>3. offset \in Nat /\ last_offset <= offset
        BY <2>1, RoundUpBounds
      <3> HIDE DEF offset
      <3>4. last_pos * PAGE_SIZE \in Nat /\ start * PAGE_SIZE = last_pos * PAGE_SIZE + PAGE_SIZE
        BY <2>1, <3>2, SMT
      <3> QED
        BY <3>1, <3>2, <3>3, <3>4, <2>1, <2>8
    <2> QED
      BY <2>2, <2>10, <2>11
  <1>2. IInv => [Above]_vars
    BY <1>1
  <1> QED
    BY <1>2, AlwaysIInv, PTL DEF GoalFirst
=============================================================================
