----------------------------- MODULE E820Proofs -----------------------------
(***************************************************************************)
(* Proofs about the memory map of module E820, for every map a boot loader *)
(* hands over, of any length: biosmap runs over exactly when the map is    *)
(* longer than E820MAX and no other array ever does; what                  *)
(* sanitize_e820_map leaves is in order and without overlaps,              *)
(* copy_e820_map cuts the hole and nothing else out of the RAM, and where  *)
(* entries meet in pairs every byte keeps the largest of its types.        *)
(***************************************************************************)
EXTENDS E820, FiniteSetTheorems, WellFoundedInduction, TLAPS

-----------------------------------------------------------------------------
(* Largest elements.                                                       *)

\* A set of natural numbers has a least element.
LEMMA LeastElement ==
    ASSUME NEW S \in SUBSET Nat, S # {}
    PROVE  \E n \in S : \A m \in S : n <= m
<1> DEFINE R == OpToRel(<, Nat)
<1>1. \A m, n \in Nat : ~(<<m, n>> \in R) => n <= m
  BY DEF OpToRel
<1>2. IsWellFoundedOn(R, Nat)
  BY NatLessThanWellFounded
<1> HIDE DEF R
<1>3. \E n \in S : \A m \in S : ~(<<m, n>> \in R)
  BY <1>2, WFMin
<1>4. \A n \in S : n \in Nat
  OBVIOUS
<1> QED
  BY <1>1, <1>3, <1>4, Zenon

\* The elements of a sequence of natural numbers have an upper bound.
LEMMA SeqBounded ==
    ASSUME NEW s \in Seq(Nat)
    PROVE  \E b \in Nat : \A i \in DOMAIN s : s[i] <= b
<1> DEFINE P(n) == \A f \in [1 .. n -> Nat] : \E b \in Nat : \A i \in 1 .. n : f[i] <= b
           T == {n \in Nat : ~P(n)}
<1>1. T = {}
  <2>1. SUFFICES ASSUME T # {} PROVE FALSE
    OBVIOUS
  <2>2. PICK n \in T : \A m \in T : n <= m
    <3>1. T \in SUBSET Nat
      OBVIOUS
    <3> HIDE DEF T
    <3> QED
      BY <2>1, <3>1, LeastElement
  <2>3. n \in Nat /\ ~P(n)
    OBVIOUS
  <2>4. PICK f \in [1 .. n -> Nat] : ~\E b \in Nat : \A i \in 1 .. n : f[i] <= b
    BY <2>3
  <2>5. n # 0
    <3>1. n = 0 => \A i \in 1 .. n : f[i] <= 0
      OBVIOUS
    <3> QED
      BY <3>1, <2>4
  <2>6. n - 1 \in Nat /\ n - 1 \notin T
    <3> HIDE DEF T
    <3> QED
      BY <2>2, <2>3, <2>5
  <2>7. P(n - 1)
    BY <2>6
  <2> DEFINE g == [i \in 1 .. n - 1 |-> f[i]]
  <2>8. g \in [1 .. n - 1 -> Nat]
    <3>1. \A i \in 1 .. n - 1 : i \in 1 .. n
      BY <2>3
    <3> QED
      BY <3>1, <2>4
  <2>9. PICK b \in Nat : \A i \in 1 .. n - 1 : g[i] <= b
    BY <2>7, <2>8
  <2>10. \A i \in 1 .. n : f[i] \in Nat
    BY <2>4
  <2>11. PICK v \in Nat : v = f[n]
    <3>1. n \in 1 .. n
      BY <2>3, <2>5
    <3> QED
      BY <3>1, <2>10
  <2>12. \A i \in 1 .. n : f[i] <= b + v
    <3>1. TAKE i \in 1 .. n
    <3>2. CASE i = n
      BY <3>2, <2>11
    <3>3. CASE i # n
      <4>1. i \in 1 .. n - 1 /\ g[i] = f[i]
        BY <3>3, <2>3
      <4>2. f[i] <= b /\ f[i] \in Nat
        BY <4>1, <2>9, <2>10
      <4> QED
        BY <4>2
    <3> QED
      BY <3>2, <3>3
  <2>13. b + v \in Nat
    OBVIOUS
  <2> QED
    BY <2>4, <2>12, <2>13
<1>2. Len(s) \in Nat /\ s \in [1 .. Len(s) -> Nat] /\ DOMAIN s = 1 .. Len(s)
  OBVIOUS
<1>3. \A n \in Nat : P(n)
  BY <1>1
<1> HIDE DEF P, T
<1>4. P(Len(s))
  BY <1>2, <1>3
<1> QED
  BY <1>2, <1>4 DEF P

\* Max of a bounded set of natural numbers is what its name says.
LEMMA MaxOfBounded ==
    ASSUME NEW S \in SUBSET Nat, S # {}, NEW b \in Nat, \A x \in S : x <= b
    PROVE  Max(S) \in S /\ \A x \in S : x <= Max(S)
<1> DEFINE U == {n \in Nat : \A x \in S : x <= n}
<1>1. PICK u \in U : \A n \in U : u <= n
  <2>1. U \in SUBSET Nat /\ U # {}
    OBVIOUS
  <2> HIDE DEF U
  <2> QED
    BY <2>1, LeastElement
<1>2. u \in S
  <2>1. SUFFICES ASSUME u \notin S PROVE FALSE
    OBVIOUS
  <2>2. \A x \in S : x <= u - 1
    BY <2>1, <1>1
  <2>3. u \in Nat /\ \A n \in Nat : (\A x \in S : x <= n) => u <= n
    BY <1>1
  <2>4. u - 1 \in Nat
    <3>1. PICK x \in S : TRUE
      OBVIOUS
    <3>2. x \in Nat /\ x <= u - 1
      BY <2>2
    <3> QED
      BY <3>2, <2>3
  <2> QED
    BY <2>2, <2>3, <2>4
<1>3. \E m \in S : \A x \in S : m >= x
  BY <1>1, <1>2
<1> QED
  BY <1>3 DEF Max

-----------------------------------------------------------------------------
(* The inductive invariant.                                                *)

End(e) == e.addr + e.size

\* No address reaches two words' sum, so no entry wraps round.
Top == 2 * WORD - 2

Below(map, x) == \A i \in DOMAIN map : End(map[i]) <= x

Ordered(map) == \A i, j \in DOMAIN map : i < j => End(map[i]) <= map[j].addr

\* An entry of RAM over byte x.
RamOver(e, x) == e.type = E820_RAM /\ Covers(e, x)

RamIn(map, x) == \E i \in DOMAIN map : RamOver(map[i], x)

InHole(x) == HOLE_START <= x /\ x < HOLE_END

Loops == {"record", "sort", "sweep"}
Copying == {"copy_e820_map", "done"}

\* What the functions that have not begun will find.
Untouched ==
    /\ stage \notin Copying => e820 = <<>>
    /\ stage \notin Copying \cup {"sweep"} =>
          overlap_list = <<>> /\ last = [type |-> 0, addr |-> 0] /\ new_bios = <<>>
    /\ stage \in {"init_biosmap", "sanitize_e820_map", "overrun"} =>
          round = 1 /\ change_point = <<>>
    /\ stage = "init_biosmap" => biosmap = <<>>

\* biosmap has room for its entries, unless it was overrun; none of them wraps round.
MapFits ==
    /\ stage # "overrun" => Len(biosmap) <= E820MAX
    /\ Below(biosmap, Top)

\* Until the end of the sweep biosmap is what the boot loader reported.
Reported ==
    /\ stage # "init_biosmap" => (stage = "overrun" <=> Len(mmap) > E820MAX)
    /\ stage = "overrun" => biosmap = LowWords(mmap)
    /\ stage \in {"sanitize_e820_map"} \cup Loops => biosmap = LowWords(mmap)
    /\ stage \in Loops => Len(biosmap) >= 2

PointsOfEntries ==
    stage \in Loops =>
        \A k \in DOMAIN change_point :
            change_point[k].addr <= Top /\ change_point[k].entry \in DOMAIN biosmap

\* The first n points are sorted.
SortedUpTo(n) ==
    \A k \in DOMAIN change_point :
        1 < k /\ k <= n => ~Precedes(change_point[k], change_point[k - 1])

\* A pass without an exchange has found the points it compared sorted.
SortedSoFar ==
    /\ stage # "sort" => ~still_changing
    /\ stage = "sort" => round >= 2 /\ (~still_changing => SortedUpTo(round - 1))
    /\ stage = "sweep" => SortedUpTo(Len(change_point))

\* The address the sweep has come to.
Reached == IF round = 1 THEN 0 ELSE change_point[round - 1].addr

\* The new table is in order and ends where the entry that is open begins.
SweptInOrder ==
    stage = "sweep" =>
        /\ round <= Len(change_point) + 1
        /\ \A i \in DOMAIN overlap_list : overlap_list[i] \in DOMAIN biosmap
        /\ last.addr <= Reached
        /\ Len(new_bios) <= E820MAX
        /\ Ordered(new_bios)
        /\ Below(new_bios, IF last.type = 0 THEN Reached ELSE last.addr)

\* The copy is in order, and what is to come lies behind it.
CopiedInOrder ==
    stage \in Copying =>
        /\ Ordered(biosmap)
        /\ round <= Len(biosmap) + 1
        /\ stage = "done" /\ Len(biosmap) >= 2 => round = Len(biosmap) + 1
        /\ Len(e820) <= E820MAX
        /\ Ordered(e820) /\ Below(e820, Top)
        /\ \A j \in DOMAIN biosmap : round <= j => Below(e820, biosmap[j].addr)

\* What of byte x the first n entries of biosmap make RAM.
CopiedRam(n, x) ==
    ~InHole(x) /\ \E j \in DOMAIN biosmap : j <= n /\ RamOver(biosmap[j], x)

\* As far as e820 goes, its RAM is that of the entries copied, less the hole.
CopiedExactly ==
    stage \in Copying =>
        \A x \in Nat : Tells(e820, x) => (RamIn(e820, x) <=> CopiedRam(round - 1, x))

\* No RAM of a table is in the hole.
OutsideHole(table) ==
    \A k \in DOMAIN table :
        table[k].type = E820_RAM => End(table[k]) <= HOLE_START \/ HOLE_END <= table[k].addr

HoleClear == OutsideHole(e820)

IInv ==
    /\ TypeOK /\ Untouched /\ MapFits /\ Reported
    /\ PointsOfEntries /\ SortedSoFar /\ SweptInOrder
    /\ CopiedInOrder /\ CopiedExactly /\ HoleClear

-----------------------------------------------------------------------------
(* Entries and tables.                                                     *)

LEMMA EntryTypes ==
    ASSUME NEW map \in Seq(Entry), NEW i \in DOMAIN map
    PROVE  /\ map[i] \in Entry
           /\ map[i].addr \in Nat /\ map[i].size \in Nat /\ map[i].type \in Nat \ {0}
           /\ End(map[i]) \in Nat
<1>1. map[i] \in Entry
  OBVIOUS
<1>2. \A e \in Entry : /\ e.addr \in Nat /\ e.size \in Nat /\ e.type \in Nat \ {0}
                       /\ End(e) \in Nat
  BY DEF Entry, End
<1> QED
  BY <1>1, <1>2

\* The low words of a map: as many entries, none of which reaches beyond two words' sum.
LEMMA LowWordsFit ==
    ASSUME NEW mm \in MemoryMaps
    PROVE  /\ LowWords(mm) \in Seq(Entry) /\ Len(LowWords(mm)) = Len(mm)
           /\ Len(mm) \in Nat
           /\ Below(LowWords(mm), Top)
<1>1. mm \in Seq(Entry) /\ WORD \in Nat \ {0}
  BY MapAssumption DEF Parameters
<1>2. Len(mm) \in Nat /\ DOMAIN mm = 1 .. Len(mm)
  BY <1>1
<1> DEFINE low == LowWords(mm)
<1>3. \A i \in 1 .. Len(mm) :
        low[i] = [addr |-> mm[i].addr % WORD, size |-> mm[i].size % WORD, type |-> mm[i].type]
  BY <1>2 DEF LowWords
<1>4. \A n \in Nat : n % WORD \in Nat /\ n % WORD <= WORD - 1
  BY <1>1
<1>5. ASSUME NEW i \in 1 .. Len(mm) PROVE low[i] \in Entry /\ End(low[i]) <= Top
  <2>1. mm[i].addr \in Nat /\ mm[i].size \in Nat /\ mm[i].type \in Nat \ {0}
    BY <1>1, <1>2, EntryTypes
  <2>2. PICK a \in Nat : a = mm[i].addr % WORD /\ a <= WORD - 1
    BY <2>1, <1>4
  <2>3. PICK z \in Nat : z = mm[i].size % WORD /\ z <= WORD - 1
    BY <2>1, <1>4
  <2>4. low[i] = [addr |-> a, size |-> z, type |-> mm[i].type]
    BY <1>3, <2>2, <2>3
  <2>5. low[i] \in Entry
    BY <2>1, <2>4 DEF Entry
  <2>6. End(low[i]) = a + z
    BY <2>4 DEF End
  <2> QED
    BY <1>1, <2>2, <2>3, <2>5, <2>6 DEF Top
<1>6. DOMAIN low = 1 .. Len(mm)
  BY <1>2 DEF LowWords
<1>7. low = [i \in 1 .. Len(mm) |-> low[i]]
  BY <1>2, <1>6 DEF LowWords
<1> HIDE DEF low
<1>8. low \in Seq(Entry)
  BY <1>2, <1>5, <1>7
<1>9. Len(low) = Len(mm)
  BY <1>2, <1>6, <1>8
<1> QED
  BY <1>1, <1>2, <1>5, <1>6, <1>8, <1>9 DEF low, Below

\* No 64-bit sum wraps round.
LEMMA NoneWraps ==
    ASSUME NEW map \in Seq(Entry), Below(map, Top), NEW i \in DOMAIN map
    PROVE  ~Wraps(map[i])
<1>1. WORD \in Nat \ {0}
  BY MapAssumption DEF Parameters
<1>2. 2 * WORD - 2 < WORD * WORD
  <2>1. (WORD - 1) * (WORD - 1) >= 0
    BY <1>1
  <2>2. (WORD - 1) * (WORD - 1) = WORD * WORD - 2 * WORD + 1
    BY <1>1
  <2>3. WORD * WORD \in Int
    BY <1>1
  <2> QED
    BY <1>1, <2>1, <2>2, <2>3
<1>3. End(map[i]) \in Nat /\ End(map[i]) <= 2 * WORD - 2 /\ End(map[i]) = map[i].addr + map[i].size
  BY EntryTypes DEF Below, Top, End
<1>4. WORD * WORD \in Int
  BY <1>1
<1> QED
  BY <1>1, <1>2, <1>3, <1>4 DEF Wraps

\* A table with one more entry.
Added(table, start, size, type) ==
    Append(table, [addr |-> start, size |-> size, type |-> type])

\* The new entry is the last.
LEMMA AddedLength ==
    ASSUME NEW table \in Seq(Entry), NEW start, NEW size, NEW type,
           NEW new, new = Added(table, start, size, type)
    PROVE  Len(new) = Len(table) + 1
BY DEF Added

LEMMA AddedLast ==
    ASSUME NEW table \in Seq(Entry), NEW start, NEW size, NEW type,
           NEW new, new = Added(table, start, size, type)
    PROVE  new[Len(table) + 1] = [addr |-> start, size |-> size, type |-> type]
<1>1. PICK e : e = [addr |-> start, size |-> size, type |-> type]
  OBVIOUS
<1>2. new = Append(table, e)
  BY <1>1 DEF Added
<1> QED
  BY <1>1, <1>2

\* An entry behind the others keeps a table in order.
LEMMA AppendInOrder ==
    ASSUME NEW table \in Seq(Entry), Ordered(table),
           NEW start \in Nat, NEW size \in Nat, NEW type \in Nat \ {0}, Below(table, start),
           NEW new, new = Added(table, start, size, type)
    PROVE  new \in Seq(Entry) /\ Ordered(new) /\ Below(new, start + size)
<1> DEFINE n == Len(table) + 1
<1>0. PICK e : e = [addr |-> start, size |-> size, type |-> type]
  OBVIOUS
<1>1. e \in Entry /\ End(e) = start + size /\ e.addr = start /\ new = Append(table, e)
  BY <1>0 DEF Entry, End, Added
<1>2. /\ new \in Seq(Entry) /\ Len(new) = n /\ Len(table) \in Nat
      /\ \A i \in 1 .. Len(table) : new[i] = table[i]
      /\ new[n] = e
  BY <1>1
<1>3. /\ DOMAIN table = 1 .. Len(table) /\ DOMAIN new = 1 .. n
      /\ 1 .. n = 1 .. Len(table) \cup {n}
  BY <1>2
<1>4. \A i \in DOMAIN table : End(table[i]) \in Nat /\ End(table[i]) <= start
  BY EntryTypes DEF Below
<1>5. Below(new, start + size)
  BY <1>1, <1>2, <1>3, <1>4 DEF Below
<1>6. Ordered(new)
  <2> SUFFICES ASSUME NEW i \in DOMAIN new, NEW j \in DOMAIN new, i < j
               PROVE  End(new[i]) <= new[j].addr
    BY DEF Ordered
  <2>1. i \in 1 .. Len(table) /\ new[i] = table[i]
    BY <1>2, <1>3
  <2>2. CASE j = n
    BY <1>1, <1>2, <1>3, <1>4, <2>1, <2>2
  <2>3. CASE j # n
    <3>1. j \in 1 .. Len(table) /\ new[j] = table[j]
      BY <1>2, <1>3, <2>3
    <3> QED
      BY <1>3, <2>1, <3>1 DEF Ordered
  <2> QED
    BY <2>2, <2>3
<1> QED
  BY <1>2, <1>5, <1>6

-----------------------------------------------------------------------------
(* Largest types.                                                          *)

LEMMA LargestType ==
    ASSUME NEW map \in Seq(Entry), NEW I \in SUBSET DOMAIN map,
           NEW S, S = {0} \cup {map[i].type : i \in I}
    PROVE  /\ Max(S) \in Nat
           /\ \A i \in I : map[i].type <= Max(S)
           /\ Max(S) # 0 => \E i \in I : map[i].type = Max(S)
<1> DEFINE s == [i \in 1 .. Len(map) |-> map[i].type]
<1>1. \A i \in DOMAIN map : map[i].type \in Nat
  BY EntryTypes
<1>2. s \in Seq(Nat) /\ DOMAIN s = DOMAIN map
  BY <1>1
<1>3. PICK b \in Nat : \A i \in DOMAIN s : s[i] <= b
  BY <1>2, SeqBounded
<1>4. S \in SUBSET Nat /\ S # {} /\ \A y \in S : y <= b
  <2>1. \A i \in DOMAIN map : map[i].type <= b
    BY <1>2, <1>3
  <2> QED
    BY <1>1, <2>1
<1>5. Max(S) \in S /\ \A y \in S : y <= Max(S)
  BY <1>4, MaxOfBounded
<1> QED
  BY <1>4, <1>5

In(list, i) == \E a \in DOMAIN list : list[a] = i

\* The type of an overlap is that of one of its entries, and no other is larger.
LEMMA TypeOfBounds ==
    ASSUME NEW map \in Seq(Entry), NEW list \in Seq(Nat \ {0}),
           \A a \in DOMAIN list : list[a] \in DOMAIN map
    PROVE  /\ TypeOf(map, list) \in Nat
           /\ \A i \in DOMAIN map : In(list, i) => map[i].type <= TypeOf(map, list)
           /\ TypeOf(map, list) # 0 =>
                 \E i \in DOMAIN map : In(list, i) /\ map[i].type = TypeOf(map, list)
<1> DEFINE I == {i \in DOMAIN map : In(list, i)}
           S == {0} \cup {map[i].type : i \in I}
<1>1. {map[list[a]].type : a \in DOMAIN list} = {map[i].type : i \in I}
  BY DEF In
<1>2. TypeOf(map, list) = Max(S)
  BY <1>1 DEF TypeOf
<1>3. I \in SUBSET DOMAIN map
  OBVIOUS
<1> HIDE DEF I
<1>4. /\ Max(S) \in Nat
      /\ \A i \in I : map[i].type <= Max(S)
      /\ Max(S) # 0 => \E i \in I : map[i].type = Max(S)
  BY <1>3, LargestType
<1> QED
  BY <1>2, <1>4 DEF I

\* The type at a byte is that of one of the entries over it, and no other is larger.
LEMMA TypeAtBounds ==
    ASSUME NEW map \in Seq(Entry), NEW x \in Nat
    PROVE  /\ TypeAt(map, x) \in Nat
           /\ \A i \in DOMAIN map : Covers(map[i], x) => map[i].type <= TypeAt(map, x)
           /\ TypeAt(map, x) # 0 =>
                 \E i \in DOMAIN map : Covers(map[i], x) /\ map[i].type = TypeAt(map, x)
<1> DEFINE I == {j \in DOMAIN map : Covers(map[j], x)}
           S == {0} \cup {map[i].type : i \in I}
<1>1. TypeAt(map, x) = Max(S)
  BY DEF TypeAt
<1>2. I \in SUBSET DOMAIN map
  OBVIOUS
<1> HIDE DEF I
<1>3. /\ Max(S) \in Nat
      /\ \A i \in I : map[i].type <= Max(S)
      /\ Max(S) # 0 => \E i \in I : map[i].type = Max(S)
  BY <1>2, LargestType
<1> QED
  BY <1>1, <1>3 DEF I

LEMMA TypeOfOver ==
    ASSUME NEW map, NEW list, NEW x,
           \A a \in DOMAIN list : list[a] \in DOMAIN map,
           \A i \in DOMAIN map : In(list, i) <=> Covers(map[i], x)
    PROVE  TypeAt(map, x) = TypeOf(map, list)
<1>1. {map[list[a]].type : a \in DOMAIN list}
          = {map[i].type : i \in {j \in DOMAIN map : Covers(map[j], x)}}
  BY DEF In
<1> QED
  BY <1>1 DEF TypeAt, TypeOf

LEMMA NothingThere ==
    ASSUME NEW map \in Seq(Entry), NEW y \in Nat, NEW x \in Nat, Below(map, y), y <= x
    PROVE  TypeAt(map, x) = 0
<1>1. \A i \in DOMAIN map : ~Covers(map[i], x)
  <2>1. TAKE i \in DOMAIN map
  <2>2. End(map[i]) \in Nat /\ End(map[i]) <= y
    BY EntryTypes DEF Below
  <2> QED
    BY <2>2 DEF End, Covers
<1> QED
  BY <1>1, TypeAtBounds

\* Where entries do not overlap, the type of a byte is that of the entry over it.
LEMMA OneThere ==
    ASSUME NEW map \in Seq(Entry), Ordered(map), NEW x \in Nat,
           NEW i \in DOMAIN map, Covers(map[i], x)
    PROVE  TypeAt(map, x) = map[i].type
<1>1. map[i].type \in Nat \ {0} /\ map[i].type <= TypeAt(map, x) /\ TypeAt(map, x) \in Nat
  BY EntryTypes, TypeAtBounds
<1>2. PICK j \in DOMAIN map : Covers(map[j], x) /\ map[j].type = TypeAt(map, x)
  <2>1. TypeAt(map, x) # 0
    BY <1>1
  <2> QED
    BY <2>1, TypeAtBounds
<1>3. j = i
  <2>1. /\ map[i].addr \in Nat /\ map[i].size \in Nat
        /\ map[j].addr \in Nat /\ map[j].size \in Nat
        /\ i \in Nat /\ j \in Nat
    BY EntryTypes
  <2>2. i < j => map[i].addr + map[i].size <= map[j].addr
    BY DEF Ordered, End
  <2>3. j < i => map[j].addr + map[j].size <= map[i].addr
    BY DEF Ordered, End
  <2> QED
    BY <1>2, <2>1, <2>2, <2>3 DEF Covers
<1> QED
  BY <1>2, <1>3

\* An entry that is not over a byte does not change its type.
LEMMA TypeKept ==
    ASSUME NEW table \in Seq(Entry), NEW e \in Entry, NEW x \in Nat, ~Covers(e, x)
    PROVE  TypeAt(Append(table, e), x) = TypeAt(table, x)
<1> DEFINE n == Len(table) + 1
           new == Append(table, e)
<1>1. /\ DOMAIN table = 1 .. Len(table) /\ DOMAIN new = 1 .. n /\ Len(table) \in Nat
      /\ new[n] = e /\ \A i \in DOMAIN table : new[i] = table[i]
      /\ 1 .. n = 1 .. Len(table) \cup {n}
  OBVIOUS
<1> HIDE DEF new
<1>2. {j \in DOMAIN new : Covers(new[j], x)} = {j \in DOMAIN table : Covers(table[j], x)}
  BY <1>1
<1>3. {new[i].type : i \in {j \in DOMAIN new : Covers(new[j], x)}}
          = {table[i].type : i \in {j \in DOMAIN table : Covers(table[j], x)}}
  BY <1>1, <1>2
<1> QED
  BY <1>3 DEF TypeAt, new

-----------------------------------------------------------------------------
(* The steps keep the invariant.                                           *)

LEMMA InitIInv == Init => IInv
<1> SUFFICES ASSUME Init PROVE IInv
  OBVIOUS
<1>1. mmap \in MemoryMaps /\ E820MAX \in Nat \ {0}
  BY MapAssumption DEF Init, Parameters
<1>2. TypeOK
  <2>1. [type |-> 0, addr |-> 0] \in [type : Nat, addr : Nat]
    OBVIOUS
  <2>2. \A S : <<>> \in Seq(S)
    OBVIOUS
  <2>3. last \in [type : Nat, addr : Nat]
    BY <2>1 DEF Init
  <2>4. /\ biosmap \in Seq(Entry) /\ e820 \in Seq(Entry) /\ new_bios \in Seq(Entry)
        /\ change_point \in Seq([addr : Nat, entry : Nat \ {0}])
        /\ overlap_list \in Seq(Nat \ {0})
    BY <2>2, Zenon DEF Init
  <2>5. still_changing \in BOOLEAN
    BY Zenon DEF Init
  <2>6. /\ round \in Nat \ {0}
        /\ stage \in {"init_biosmap", "sanitize_e820_map", "record", "sort", "sweep",
                      "copy_e820_map", "done", "overrun"}
    BY DEF Init
  <2> QED
    BY <1>1, <2>3, <2>4, <2>5, <2>6, Zenon DEF TypeOK
<1>3. Untouched /\ Reported /\ PointsOfEntries /\ SortedSoFar /\ SweptInOrder
        /\ CopiedInOrder /\ CopiedExactly
  BY DEF Init, Untouched, Reported, PointsOfEntries, SortedSoFar, SweptInOrder,
         CopiedInOrder, CopiedExactly, Loops, Copying
<1>4. MapFits /\ HoleClear
  BY <1>1 DEF Init, MapFits, Below, HoleClear, OutsideHole
<1> QED
  BY <1>2, <1>3, <1>4 DEF IInv

LEMMA InitBiosmapStep == IInv /\ InitBiosmap => IInv'
<1> SUFFICES ASSUME IInv, InitBiosmap PROVE IInv'
  OBVIOUS
<1> USE DEF IInv, InitBiosmap, locals
<1>1. /\ biosmap' = LowWords(mmap) /\ biosmap' \in Seq(Entry) /\ Len(biosmap') = Len(mmap)
      /\ Below(biosmap', Top) /\ Len(mmap) \in Nat /\ E820MAX \in Nat
  BY LowWordsFit, MapAssumption DEF TypeOK, Parameters
<1>2. /\ stage' = IF Len(mmap) > E820MAX THEN "overrun" ELSE "sanitize_e820_map"
      /\ stage = "init_biosmap"
  OBVIOUS
<1>3. TypeOK'
  BY <1>1, <1>2 DEF TypeOK
<1>4. Untouched'
  BY <1>2 DEF Untouched, Loops, Copying
<1>5. MapFits' /\ HoleClear' /\ Reported'
  BY <1>1, <1>2 DEF MapFits, HoleClear, Reported, Below, Top, Loops
<1>6. PointsOfEntries' /\ SortedSoFar' /\ SweptInOrder' /\ CopiedInOrder' /\ CopiedExactly'
  BY <1>2 DEF PointsOfEntries, SortedSoFar, SweptInOrder, CopiedInOrder, CopiedExactly,
              Loops, Copying
<1> QED
  BY <1>3, <1>4, <1>5, <1>6

\* The map that is refused has fewer than two entries: it is in order.
LEMMA CheckMapStep == IInv /\ CheckMap => IInv'
<1> SUFFICES ASSUME IInv, CheckMap PROVE IInv'
  OBVIOUS
<1> USE DEF IInv, CheckMap, locals
<1>1. /\ stage = "sanitize_e820_map" /\ e820 = <<>> /\ round = 1 /\ change_point = <<>>
      /\ biosmap \in Seq(Entry) /\ Len(biosmap) \in Nat /\ E820MAX \in Nat \ {0}
  BY MapAssumption DEF Untouched, TypeOK, Loops, Copying, Parameters
<1>2. /\ Len(biosmap) < 2 => stage' = "copy_e820_map"
      /\ Len(biosmap) >= 2 => stage' = "record"
  <2>1. \A i \in DOMAIN biosmap : ~Wraps(biosmap[i])
    BY <1>1, NoneWraps DEF MapFits
  <2> QED
    BY <1>1, <2>1 DEF Refuses
<1>3. TypeOK'
  BY <1>1, <1>2 DEF TypeOK
<1>4. Untouched'
  BY <1>1, <1>2 DEF Untouched, Loops, Copying
<1>5. MapFits' /\ HoleClear'
  BY DEF MapFits, HoleClear, Below
<1>6. Reported' /\ PointsOfEntries' /\ SortedSoFar' /\ SweptInOrder'
  <2>1. ~still_changing \/ stage' # "record"
    BY <1>1 DEF SortedSoFar
  <2> QED
    BY <1>1, <1>2, <2>1 DEF Reported, PointsOfEntries, SortedSoFar, SweptInOrder, Loops
<1>7. CopiedInOrder'
  <2> SUFFICES ASSUME stage' \in Copying PROVE CopiedInOrder'
    BY DEF CopiedInOrder
  <2>1. Len(biosmap) < 2 /\ stage' = "copy_e820_map"
    BY <1>1, <1>2 DEF Copying
  <2>2. Ordered(biosmap)
    BY <1>1, <2>1 DEF Ordered
  <2>3. Ordered(e820) /\ Below(e820, Top) /\ \A x : Below(e820, x)
    BY <1>1 DEF Ordered, Below
  <2> QED
    BY <1>1, <2>1, <2>2, <2>3 DEF CopiedInOrder, Ordered, Below, Top, End
<1>8. CopiedExactly'
  <2> SUFFICES ASSUME NEW x \in Nat
               PROVE  RamIn(e820, x) <=> CopiedRam(round - 1, x)
    BY DEF CopiedExactly, CopiedRam, RamIn, RamOver, Covers, InHole, Tells
  <2>1. ~RamIn(e820, x)
    BY <1>1 DEF RamIn
  <2>2. ~CopiedRam(round - 1, x)
    BY <1>1 DEF CopiedRam
  <2> QED
    BY <2>1, <2>2
<1> QED
  BY <1>3, <1>4, <1>5, <1>6, <1>7, <1>8

\* The points of an entry are at its ends.
LEMMA PointsOfEntry ==
    ASSUME NEW map \in Seq(Entry), NEW i \in DOMAIN map, Below(map, Top),
           NEW points, points = ChangePoints(map, i)
    PROVE  /\ points \in Seq([addr : Nat, entry : Nat \ {0}])
           /\ \A k \in DOMAIN points : points[k].addr <= Top /\ points[k].entry = i
<1> DEFINE Point == [addr : Nat, entry : Nat \ {0}]
           p == [addr |-> map[i].addr, entry |-> i]
           q == [addr |-> map[i].addr + map[i].size, entry |-> i]
<1>1. /\ map[i].addr \in Nat /\ map[i].size \in Nat /\ map[i].addr + map[i].size <= Top
      /\ i \in Nat \ {0} /\ WORD \in Nat
  BY EntryTypes, MapAssumption DEF Below, End, Parameters
<1>2. /\ p \in Point /\ p.addr <= Top /\ p.entry = i
      /\ q \in Point /\ q.addr <= Top /\ q.entry = i
  BY <1>1 DEF Top
<1>3. points = <<>> \/ points = <<p, q>>
  BY DEF ChangePoints
<1> HIDE DEF p, q, Point
<1>4. CASE points = <<>>
  BY <1>4 DEF Point
<1>5. CASE points = <<p, q>>
  BY <1>2, <1>5 DEF Point
<1> QED
  BY <1>3, <1>4, <1>5

LEMMA RecordEntryStep == IInv /\ RecordEntry => IInv'
<1> SUFFICES ASSUME IInv, RecordEntry PROVE IInv'
  OBVIOUS
<1> USE DEF IInv, RecordEntry
<1>1. /\ stage = "record" /\ stage' = "record" /\ round \in Nat \ {0}
      /\ biosmap \in Seq(Entry) /\ round \in DOMAIN biosmap /\ biosmap' = biosmap
  BY DEF TypeOK
<1> DEFINE points == ChangePoints(biosmap, round)
           Point == [addr : Nat, entry : Nat \ {0}]
<1>2. /\ points \in Seq(Point)
      /\ \A k \in DOMAIN points : points[k].addr <= Top /\ points[k].entry = round
  BY <1>1, PointsOfEntry DEF MapFits
<1>3. change_point \in Seq(Point) /\ change_point' = change_point \o points
  BY DEF TypeOK
<1> HIDE DEF points
<1>4. TypeOK'
  <2>1. change_point' \in Seq(Point)
    BY <1>2, <1>3
  <2> QED
    BY <1>1, <2>1 DEF TypeOK
<1>5. PointsOfEntries'
  <2> SUFFICES ASSUME NEW k \in DOMAIN change_point'
               PROVE  change_point'[k].addr <= Top /\ change_point'[k].entry \in DOMAIN biosmap
    BY <1>1 DEF PointsOfEntries, Top
  <2>1. CASE k \in 1 .. Len(change_point)
    <3>1. change_point'[k] = change_point[k] /\ k \in DOMAIN change_point
      BY <1>2, <1>3, <2>1
    <3> QED
      BY <1>1, <3>1 DEF PointsOfEntries, Loops
  <2>2. CASE k \notin 1 .. Len(change_point)
    <3>1. PICK i \in DOMAIN points : change_point'[k] = points[i]
      <4>1. k \in 1 .. Len(change_point) + Len(points)
        BY <1>2, <1>3
      <4>2. k - Len(change_point) \in DOMAIN points
        BY <1>2, <1>3, <2>2, <4>1
      <4>3. change_point'[k] = points[k - Len(change_point)]
        BY <1>2, <1>3, <2>2, <4>1
      <4> QED
        BY <4>2, <4>3
    <3> QED
      BY <1>1, <1>2, <3>1
  <2> QED
    BY <2>1, <2>2
<1>6. Untouched' /\ MapFits' /\ Reported' /\ HoleClear'
  BY <1>1 DEF Untouched, MapFits, Reported, HoleClear, Below, Loops, Copying
<1>7. SortedSoFar' /\ SweptInOrder' /\ CopiedInOrder' /\ CopiedExactly'
  BY <1>1 DEF SortedSoFar, SweptInOrder, CopiedInOrder, CopiedExactly, Copying
<1> QED
  BY <1>4, <1>5, <1>6, <1>7

LEMMA StartSortStep == IInv /\ StartSort => IInv'
<1> SUFFICES ASSUME IInv, StartSort PROVE IInv'
  OBVIOUS
<1> USE DEF IInv, StartSort, locals
<1>1. stage = "record" /\ stage' = "sort" /\ round' = 2 /\ change_point' = change_point
  OBVIOUS
<1>2. TypeOK'
  BY <1>1 DEF TypeOK
<1>3. Untouched' /\ MapFits' /\ Reported' /\ HoleClear' /\ PointsOfEntries'
  BY <1>1 DEF Untouched, MapFits, Reported, HoleClear, PointsOfEntries, Below, Loops, Copying
<1>4. SortedSoFar'
  <2>1. \A k \in DOMAIN change_point : ~(1 < k /\ k <= 1)
    BY DEF TypeOK
  <2> QED
    BY <1>1, <2>1 DEF SortedSoFar, SortedUpTo
<1>5. SweptInOrder' /\ CopiedInOrder' /\ CopiedExactly'
  BY <1>1 DEF SweptInOrder, CopiedInOrder, CopiedExactly, Copying
<1> QED
  BY <1>2, <1>3, <1>4, <1>5

LEMMA SortPointStep == IInv /\ SortPoint => IInv'
<1> SUFFICES ASSUME IInv, SortPoint PROVE IInv'
  OBVIOUS
<1> DEFINE Point == [addr : Nat, entry : Nat \ {0}]
           p == change_point[round - 1]
           q == change_point[round]
<1>0. /\ TypeOK /\ Untouched /\ MapFits /\ Reported
      /\ PointsOfEntries /\ SortedSoFar /\ SweptInOrder
      /\ CopiedInOrder /\ CopiedExactly /\ HoleClear
  BY DEF IInv
<1>1. /\ stage = "sort" /\ stage' = stage /\ biosmap' = biosmap /\ mmap' = mmap
      /\ round <= Len(change_point) /\ round' = round + 1
      /\ e820' = e820 /\ overlap_list' = overlap_list /\ last' = last /\ new_bios' = new_bios
  BY DEF SortPoint
<1>2. /\ round \in Nat /\ round >= 2 /\ round' \in Nat \ {0}
      /\ change_point \in Seq(Point)
      /\ DOMAIN change_point = 1 .. Len(change_point) /\ Len(change_point) \in Nat
      /\ round \in DOMAIN change_point /\ round - 1 \in DOMAIN change_point
      /\ p \in Point /\ q \in Point
  <2>1. round \in Nat /\ round >= 2 /\ change_point \in Seq(Point)
    BY <1>0, <1>1 DEF TypeOK, SortedSoFar
  <2>2. /\ round' \in Nat \ {0}
        /\ DOMAIN change_point = 1 .. Len(change_point) /\ Len(change_point) \in Nat
        /\ round \in DOMAIN change_point /\ round - 1 \in DOMAIN change_point
    <3> HIDE DEF Point
    <3> QED
      BY <1>1, <2>1
  <2>3. \A k \in DOMAIN change_point : change_point[k] \in Point
    <3> HIDE DEF Point
    <3> QED
      BY <2>1
  <2> QED
    BY <2>1, <2>2, <2>3, Zenon
<1>3. Untouched' /\ MapFits' /\ Reported' /\ HoleClear'
  BY <1>0, <1>1 DEF Untouched, MapFits, Reported, HoleClear, Below, Loops, Copying
<1>4. SweptInOrder' /\ CopiedInOrder' /\ CopiedExactly'
  BY <1>1 DEF SweptInOrder, CopiedInOrder, CopiedExactly, Copying
<1>5. ASSUME change_point' \in Seq(Point), still_changing' \in BOOLEAN PROVE TypeOK'
  BY <1>0, <1>1, <1>2, <1>5, Zenon DEF TypeOK
<1>6. \A k \in DOMAIN change_point :
        change_point[k].addr <= Top /\ change_point[k].entry \in DOMAIN biosmap
  BY <1>0, <1>1 DEF PointsOfEntries, Loops
<1>7. CASE Precedes(q, p)
  <2>1. /\ still_changing' = TRUE
        /\ change_point' = [change_point EXCEPT ![round - 1] = q, ![round] = p]
    BY <1>7 DEF SortPoint
  <2>2. /\ change_point' \in Seq(Point) /\ DOMAIN change_point' = DOMAIN change_point
        /\ \A k \in DOMAIN change_point :
              change_point'[k] = IF k = round THEN p
                                 ELSE IF k = round - 1 THEN q ELSE change_point[k]
    <3> HIDE DEF p, q, Point
    <3> QED
      BY <1>2, <2>1
  <2>3. TypeOK'
    <3>1. still_changing' \in BOOLEAN
      BY <2>1, Zenon
    <3> QED
      BY <1>5, <2>2, <3>1
  <2>4. PointsOfEntries'
    <3>1. \A k \in DOMAIN change_point' :
            change_point'[k].addr <= Top /\ change_point'[k].entry \in DOMAIN biosmap
      BY <1>2, <1>6, <2>2
    <3> QED
      BY <1>1, <3>1 DEF PointsOfEntries, Top
  <2>5. SortedSoFar'
    BY <1>1, <1>2, <2>1 DEF SortedSoFar
  <2> QED
    BY <1>3, <1>4, <2>3, <2>4, <2>5 DEF IInv
<1>8. CASE ~Precedes(q, p)
  <2>1. change_point' = change_point /\ still_changing' = still_changing
    BY <1>8 DEF SortPoint
  <2>2. TypeOK'
    <3>1. still_changing' \in BOOLEAN
      BY <1>0, <2>1, Zenon DEF TypeOK
    <3> QED
      BY <1>2, <1>5, <2>1, <3>1
  <2>3. PointsOfEntries'
    BY <1>1, <1>6, <2>1 DEF PointsOfEntries, Top
  <2>4. ASSUME ~still_changing PROVE SortedUpTo(round - 1)'
    <3>1. SortedUpTo(round - 1)
      BY <1>0, <1>1, <2>4 DEF SortedSoFar
    <3>2. SUFFICES ASSUME NEW k \in DOMAIN change_point, 1 < k, k <= round
                   PROVE  ~Precedes(change_point[k], change_point[k - 1])
      BY <1>1, <1>2, <2>1 DEF SortedUpTo, Precedes, IsStart
    <3>3. CASE k = round
      BY <1>8, <3>3
    <3>4. CASE k # round
      BY <1>2, <3>1, <3>2, <3>4 DEF SortedUpTo
    <3> QED
      BY <3>3, <3>4
  <2>5. SortedSoFar'
    BY <1>1, <1>2, <2>1, <2>4 DEF SortedSoFar
  <2> QED
    BY <1>3, <1>4, <2>2, <2>3, <2>5 DEF IInv
<1> QED
  BY <1>7, <1>8

LEMMA EndPassStep == IInv /\ EndPass => IInv'
<1> SUFFICES ASSUME IInv, EndPass PROVE IInv'
  OBVIOUS
<1> USE DEF IInv, EndPass
<1>1. /\ stage = "sort" /\ stage' \in {"sort", "sweep"} /\ biosmap' = biosmap
      /\ change_point' = change_point /\ still_changing' = FALSE
      /\ round \in Nat /\ round > Len(change_point) /\ Len(change_point) \in Nat
      /\ DOMAIN change_point = 1 .. Len(change_point)
      /\ still_changing => stage' = "sort" /\ round' = 2
      /\ ~still_changing => stage' = "sweep" /\ round' = 1
  BY DEF TypeOK
<1>2. TypeOK'
  <2>1. still_changing' \in BOOLEAN /\ round' \in Nat \ {0}
    <3>1. still_changing' \in BOOLEAN
      BY <1>1, Zenon
    <3> QED
      BY <1>1, <3>1
  <2> QED
    BY <1>1, <2>1 DEF TypeOK
<1>3. Untouched' /\ MapFits' /\ Reported' /\ HoleClear' /\ PointsOfEntries'
  BY <1>1 DEF Untouched, MapFits, Reported, HoleClear, PointsOfEntries, Below, Loops,
              Copying, Top
<1>4. SortedSoFar'
  <2>1. CASE still_changing
    <3>1. SortedUpTo(1)'
      BY <1>1 DEF SortedUpTo
    <3> QED
      BY <1>1, <2>1, <3>1 DEF SortedSoFar
  <2>2. CASE ~still_changing
    <3>1. SortedUpTo(round - 1)
      BY <1>1, <2>2 DEF SortedSoFar
    <3>2. SortedUpTo(Len(change_point))'
      BY <1>1, <3>1 DEF SortedUpTo, Precedes, IsStart
    <3> QED
      BY <1>1, <2>2, <3>2 DEF SortedSoFar
  <2> QED
    BY <2>1, <2>2
<1>5. SweptInOrder'
  <2>1. overlap_list = <<>> /\ last = [type |-> 0, addr |-> 0] /\ new_bios = <<>>
    BY <1>1 DEF Untouched, Copying
  <2>2. E820MAX \in Nat \ {0}
    BY MapAssumption DEF Parameters
  <2> QED
    BY <1>1, <2>1, <2>2 DEF SweptInOrder, Ordered, Below, Reached
<1>6. CopiedInOrder' /\ CopiedExactly'
  BY <1>1 DEF CopiedInOrder, CopiedExactly, Copying
<1> QED
  BY <1>2, <1>3, <1>4, <1>5, <1>6

LEMMA PointTypes ==
    ASSUME NEW points \in Seq([addr : Nat, entry : Nat \ {0}]), NEW k \in DOMAIN points
    PROVE  points[k].addr \in Nat /\ points[k].entry \in Nat \ {0}
<1> DEFINE Point == [addr : Nat, entry : Nat \ {0}]
<1>1. points[k] \in Point
  <2>1. points \in Seq(Point)
    OBVIOUS
  <2> HIDE DEF Point
  <2> QED
    BY <2>1
<1> QED
  BY <1>1

\* Whatever the loop leaves of the overlap list are entries of biosmap.
LEMMA ListOfEntries ==
    ASSUME NEW map \in Seq(Entry), NEW list \in Seq(Nat \ {0}),
           \A i \in DOMAIN list : list[i] \in DOMAIN map,
           NEW entry \in DOMAIN map, entry \in Nat \ {0},
           NEW new, new = Append(list, entry) \/ new = RemoveEntry(list, entry)
    PROVE  new \in Seq(Nat \ {0}) /\ \A i \in DOMAIN new : new[i] \in DOMAIN map
<1>1. CASE new = Append(list, entry)
  BY <1>1
<1>2. CASE new = RemoveEntry(list, entry)
  <2> DEFINE n == Len(list) \div 2
  <2>1. Len(list) \in Nat /\ n \in Nat /\ n + n <= Len(list)
    OBVIOUS
  <2>2. \A i \in 1 .. n : i \in DOMAIN list /\ Len(list) + 1 - i \in DOMAIN list
    BY <2>1
  <2>3. new = [i \in 1 .. n |-> IF list[i] = entry THEN list[Len(list) + 1 - i] ELSE list[i]]
    BY <1>2 DEF RemoveEntry
  <2> HIDE DEF n
  <2>4. \A i \in 1 .. n : new[i] \in Nat \ {0} /\ new[i] \in DOMAIN map
    <3>1. TAKE i \in 1 .. n
    <3>2. new[i] = list[i] \/ new[i] = list[Len(list) + 1 - i]
      BY <2>3
    <3>3. \A k \in DOMAIN list : list[k] \in Nat \ {0} /\ list[k] \in DOMAIN map
      OBVIOUS
    <3> QED
      BY <2>2, <3>2, <3>3
  <2>5. DOMAIN new = 1 .. n /\ new \in [1 .. n -> Nat \ {0}]
    BY <2>3, <2>4
  <2> QED
    BY <2>1, <2>4, <2>5
<1> QED
  BY <1>1, <1>2

\* An entry that is closed at `end' keeps the new table in order.
LEMMA ClosedInOrder ==
    ASSUME NEW table \in Seq(Entry), Ordered(table), Len(table) < E820MAX,
           NEW type \in Nat, NEW addr \in Nat, NEW end \in Nat, addr <= end,
           NEW low \in Nat, low <= end,
           Below(table, IF type = 0 THEN low ELSE addr),
           NEW new, new = Closed(table, type, addr, end)
    PROVE  new \in Seq(Entry) /\ Len(new) <= E820MAX /\ Ordered(new) /\ Below(new, end)
<1>1. E820MAX \in Nat /\ Len(table) \in Nat
  BY MapAssumption DEF Parameters
<1>2. \A i \in DOMAIN table : End(table[i]) \in Nat
  BY EntryTypes
<1>3. Below(table, end)
  BY <1>2 DEF Below
<1>4. CASE type = 0 \/ addr = end
  <2>1. new = table
    BY <1>4 DEF Closed
  <2> QED
    BY <1>1, <1>3, <2>1
<1>5. CASE type # 0 /\ addr # end
  <2>1. PICK size \in Nat : size = end - addr
    OBVIOUS
  <2>2. new = Added(table, addr, size, type)
    BY <1>5, <2>1 DEF Closed, Added
  <2>3. Below(table, addr)
    BY <1>5
  <2>4. PICK t \in Nat \ {0} : t = type
    BY <1>5
  <2>5. new = Added(table, addr, size, t)
    BY <2>2, <2>4
  <2>6. Len(new) = Len(table) + 1
    BY <2>2, AddedLength
  <2>7. new \in Seq(Entry) /\ Ordered(new) /\ Below(new, addr + size)
    BY <2>3, <2>5, AppendInOrder
  <2>8. addr + size = end
    BY <2>1
  <2> QED
    BY <1>1, <2>6, <2>7, <2>8
<1> QED
  BY <1>4, <1>5

LEMMA SweepPointStep == IInv /\ SweepPoint => IInv'
<1> SUFFICES ASSUME IInv, SweepPoint PROVE IInv'
  OBVIOUS
<1> DEFINE Point == [addr : Nat, entry : Nat \ {0}]
           p == change_point[round]
           type == TypeOf(biosmap, overlap_list')
<1>0. /\ TypeOK /\ Untouched /\ MapFits /\ Reported
      /\ PointsOfEntries /\ SortedSoFar /\ SweptInOrder
      /\ CopiedInOrder /\ CopiedExactly /\ HoleClear
  BY DEF IInv
<1>1. /\ stage = "sweep" /\ stage' = stage /\ biosmap' = biosmap /\ mmap' = mmap
      /\ round <= Len(change_point) /\ round' = round + 1 /\ e820' = e820
      /\ change_point' = change_point /\ still_changing' = still_changing
      /\ ~Full(new_bios)
      /\ \/ overlap_list' = Append(overlap_list, p.entry)
         \/ overlap_list' = RemoveEntry(overlap_list, p.entry)
      /\ type = last.type => last' = last /\ new_bios' = new_bios
      /\ type # last.type =>
            /\ new_bios' = Closed(new_bios, last.type, last.addr, p.addr)
            /\ last' = [type |-> type, addr |-> IF type = 0 THEN last.addr ELSE p.addr]
  BY DEF SweepPoint
<1>2. /\ biosmap \in Seq(Entry) /\ change_point \in Seq(Point) /\ new_bios \in Seq(Entry)
      /\ overlap_list \in Seq(Nat \ {0}) /\ round \in Nat \ {0}
      /\ last \in [type : Nat, addr : Nat] /\ last.type \in Nat /\ last.addr \in Nat
  BY <1>0 DEF TypeOK
<1>3. /\ round \in DOMAIN change_point /\ p \in Point /\ p.addr \in Nat /\ p.entry \in Nat \ {0}
      /\ p.entry \in DOMAIN biosmap /\ round' \in Nat \ {0}
  <2>1. round \in DOMAIN change_point /\ round' \in Nat \ {0}
    <3> HIDE DEF Point
    <3> QED
      BY <1>1, <1>2
  <2>2. \A k \in DOMAIN change_point : change_point[k] \in Point
    <3> HIDE DEF Point
    <3> QED
      BY <1>2
  <2>3. p \in Point
    BY <2>1, <2>2, Zenon
  <2> QED
    BY <1>0, <1>1, <2>1, <2>3 DEF PointsOfEntries, Loops
<1>4. /\ \A i \in DOMAIN overlap_list : overlap_list[i] \in DOMAIN biosmap
      /\ last.addr <= Reached /\ Ordered(new_bios)
      /\ Below(new_bios, IF last.type = 0 THEN Reached ELSE last.addr)
  BY <1>0, <1>1 DEF SweptInOrder
<1>5. Reached \in Nat /\ Reached <= p.addr /\ Reached' = p.addr
  <2>0. Reached' = p.addr
    <3>1. round' # 1 /\ round' - 1 = round
      BY <1>1, <1>2
    <3>2. Reached' = change_point'[round' - 1].addr
      BY <3>1 DEF Reached
    <3> QED
      BY <1>1, <3>1, <3>2, Zenon
  <2>1. CASE round = 1
    <3>1. Reached = 0
      BY <2>1 DEF Reached
    <3> QED
      BY <1>3, <2>0, <3>1
  <2>2. CASE round # 1
    <3>1. ~Precedes(change_point[round], change_point[round - 1])
      <4>1. SortedUpTo(Len(change_point)) /\ 1 < round
        BY <1>0, <1>1, <1>2, <2>2 DEF SortedSoFar
      <4> QED
        BY <1>1, <1>3, <4>1 DEF SortedUpTo
    <3>2. round - 1 \in DOMAIN change_point
      <4> HIDE DEF Point
      <4> QED
        BY <1>1, <1>2, <2>2
    <3>3. change_point[round - 1].addr \in Nat
      BY <1>2, <3>2, PointTypes
    <3>4. Reached = change_point[round - 1].addr
      BY <2>2 DEF Reached
    <3>5. ~(change_point[round].addr < change_point[round - 1].addr)
      BY <3>1 DEF Precedes
    <3>6. change_point[round].addr \in Nat
      BY <1>3
    <3> HIDE DEF p
    <3>7. change_point[round - 1].addr <= change_point[round].addr
      BY <3>3, <3>5, <3>6
    <3> QED
      BY <2>0, <3>3, <3>4, <3>7 DEF p
  <2> QED
    BY <2>1, <2>2
<1>6. /\ overlap_list' \in Seq(Nat \ {0})
      /\ \A i \in DOMAIN overlap_list' : overlap_list'[i] \in DOMAIN biosmap
  <2>1. PICK entry : entry = p.entry
    OBVIOUS
  <2>2. PICK new : new = overlap_list'
    OBVIOUS
  <2> HIDE DEF p, Point
  <2>3. new = Append(overlap_list, entry) \/ new = RemoveEntry(overlap_list, entry)
    BY <1>1, <2>1, <2>2
  <2>4. entry \in DOMAIN biosmap /\ entry \in Nat \ {0}
    BY <1>3, <2>1
  <2>5. new \in Seq(Nat \ {0}) /\ \A i \in DOMAIN new : new[i] \in DOMAIN biosmap
    BY <1>2, <1>4, <2>3, <2>4, ListOfEntries
  <2> QED
    BY <2>2, <2>5
<1>7. type \in Nat
  BY <1>2, <1>6, TypeOfBounds
<1>8. Len(new_bios) < E820MAX /\ E820MAX \in Nat /\ Len(new_bios) \in Nat
  BY <1>1, <1>2, MapAssumption DEF Full, Parameters
<1> HIDE DEF p, type, Point
<1>9. /\ last' \in [type : Nat, addr : Nat] /\ last'.addr \in Nat /\ last'.addr <= p.addr
      /\ new_bios' \in Seq(Entry) /\ Len(new_bios') <= E820MAX /\ Ordered(new_bios')
      /\ Below(new_bios', IF last'.type = 0 THEN p.addr ELSE last'.addr)
  <2>1. CASE type = last.type
    <3>1. \A i \in DOMAIN new_bios : End(new_bios[i]) \in Nat
      BY <1>2, EntryTypes
    <3>2. last.type = 0 => Below(new_bios, p.addr)
      BY <1>3, <1>4, <1>5, <3>1 DEF Below
    <3> QED
      BY <1>1, <1>2, <1>3, <1>4, <1>5, <1>8, <2>1, <3>2
  <2>2. CASE type # last.type
    <3>1. /\ new_bios' \in Seq(Entry) /\ Len(new_bios') <= E820MAX /\ Ordered(new_bios')
          /\ Below(new_bios', p.addr)
      <4>1. last.addr <= p.addr
        BY <1>2, <1>3, <1>4, <1>5
      <4> QED
        BY <1>1, <1>2, <1>3, <1>4, <1>5, <1>8, <2>2, <4>1, ClosedInOrder
    <3>2. /\ last' \in [type : Nat, addr : Nat] /\ last'.type = type
          /\ last'.addr = IF type = 0 THEN last.addr ELSE p.addr
      BY <1>1, <1>2, <1>3, <1>7, <2>2
    <3> QED
      BY <1>2, <1>3, <1>4, <1>5, <3>1, <3>2
  <2> QED
    BY <2>1, <2>2
<1>10. TypeOK'
  BY <1>0, <1>1, <1>3, <1>6, <1>9, Zenon DEF TypeOK
<1>11. Untouched' /\ MapFits' /\ Reported' /\ HoleClear' /\ PointsOfEntries'
  BY <1>0, <1>1 DEF Untouched, MapFits, Reported, HoleClear, PointsOfEntries, Below, Loops,
                    Copying, Top
<1>12. SortedSoFar'
  BY <1>0, <1>1 DEF SortedSoFar, SortedUpTo, Precedes, IsStart
<1>13. SweptInOrder'
  <2>1. round' <= Len(change_point') + 1
    <3> HIDE DEF Point
    <3> QED
      BY <1>1, <1>2
  <2> QED
    BY <1>1, <1>5, <1>6, <1>9, <2>1 DEF SweptInOrder, Ordered, Below
<1>14. CopiedInOrder' /\ CopiedExactly'
  BY <1>1 DEF CopiedInOrder, CopiedExactly, Copying
<1> QED
  BY <1>10, <1>11, <1>12, <1>13, <1>14 DEF IInv

LEMMA EndSweepStep == IInv /\ EndSweep => IInv'
<1> SUFFICES ASSUME IInv, EndSweep PROVE IInv'
  OBVIOUS
<1>0. /\ TypeOK /\ Untouched /\ MapFits /\ Reported
      /\ PointsOfEntries /\ SortedSoFar /\ SweptInOrder
      /\ CopiedInOrder /\ CopiedExactly /\ HoleClear
  BY DEF IInv
<1>1. /\ stage = "sweep" /\ stage' = "copy_e820_map" /\ biosmap' = new_bios /\ mmap' = mmap
      /\ round' = 1 /\ e820' = e820 /\ e820 = <<>>
      /\ change_point' = change_point /\ still_changing' = still_changing
      /\ overlap_list' = overlap_list /\ last' = last /\ new_bios' = new_bios
  BY <1>0 DEF EndSweep, locals, Untouched, Copying
<1>2. /\ new_bios \in Seq(Entry) /\ Len(new_bios) \in Nat /\ Len(new_bios) <= E820MAX
      /\ Ordered(new_bios) /\ E820MAX \in Nat
  BY <1>0, <1>1, MapAssumption DEF TypeOK, SweptInOrder, Parameters
<1>3. Below(new_bios, Top)
  <2>1. WORD \in Nat \ {0}
    BY MapAssumption DEF Parameters
  <2>2. Reached \in Nat /\ Reached <= Top
    <3>1. CASE round = 1
      BY <2>1, <3>1 DEF Reached, Top
    <3>2. CASE round # 1
      <4>1. change_point \in Seq([addr : Nat, entry : Nat \ {0}]) /\ round \in Nat \ {0}
        BY <1>0 DEF TypeOK
      <4>2. round <= Len(change_point) + 1
        BY <1>0, <1>1 DEF SweptInOrder
      <4>3. round - 1 \in DOMAIN change_point
        BY <3>2, <4>1, <4>2
      <4>4. change_point[round - 1].addr \in Nat
        BY <4>1, <4>3, PointTypes
      <4> QED
        BY <1>0, <1>1, <3>2, <4>3, <4>4 DEF Reached, PointsOfEntries, Loops
    <3> QED
      BY <3>1, <3>2
  <2>3. last.addr \in Nat /\ last.addr <= Reached
    BY <1>0, <1>1 DEF TypeOK, SweptInOrder
  <2>4. \A i \in DOMAIN new_bios : End(new_bios[i]) \in Nat
    BY <1>2, EntryTypes
  <2>5. Below(new_bios, IF last.type = 0 THEN Reached ELSE last.addr)
    BY <1>0, <1>1 DEF SweptInOrder
  <2> QED
    BY <2>1, <2>2, <2>3, <2>4, <2>5 DEF Below, Top
<1>4. TypeOK'
  <2>1. round' \in Nat \ {0}
    BY <1>1
  <2> QED
    BY <1>0, <1>1, <1>2, <2>1, Zenon DEF TypeOK
<1>5. Untouched' /\ MapFits' /\ Reported' /\ HoleClear' /\ PointsOfEntries'
  BY <1>0, <1>1, <1>2, <1>3 DEF Untouched, MapFits, Reported, HoleClear, PointsOfEntries, Below,
                                Loops, Copying, Top
<1>6. SortedSoFar' /\ SweptInOrder'
  BY <1>0, <1>1 DEF SortedSoFar, SweptInOrder
<1>7. CopiedInOrder'
  <2>1. Ordered(e820) /\ \A x : Below(e820, x)
    BY <1>1 DEF Ordered, Below
  <2>2. Len(e820) <= E820MAX
    BY <1>1, <1>2
  <2> QED
    BY <1>1, <1>2, <2>1, <2>2 DEF CopiedInOrder, Ordered, Below, Top, End
<1>8. CopiedExactly'
  <2>1. ASSUME NEW x \in Nat
        PROVE  ~RamIn(e820', x) /\ ~CopiedRam(round - 1, x)'
    BY <1>1, <1>2 DEF CopiedRam, RamIn
  <2> QED
    BY <1>1, <2>1 DEF CopiedExactly, Tells
<1> QED
  BY <1>4, <1>5, <1>6, <1>7, <1>8 DEF IInv

\* A table's entries are those of another one and the region.
HoldsRegion(new, table, start, size, type) ==
    \A k \in DOMAIN new :
        \/ k \in DOMAIN table /\ new[k] = table[k]
        \/ new[k] = [addr |-> start, size |-> size, type |-> type]

\* A region behind the entries of a table: what the table holds and tells with it.
LEMMA RegionAdded ==
    ASSUME NEW table \in Seq(Entry), Ordered(table), Len(table) <= E820MAX,
           NEW start \in Nat, NEW size \in Nat, NEW type \in Nat \ {0}, Below(table, start),
           NEW new, new = AddMemoryRegion(table, start, size, type)
    PROVE  /\ new \in Seq(Entry) /\ Len(new) <= E820MAX
           /\ Ordered(new) /\ Below(new, start + size)
           /\ HoldsRegion(new, table, start, size, type)
           /\ \A x \in Nat :
                 Tells(new, x) =>
                     /\ Tells(table, x)
                     /\ RamIn(new, x) <=>
                           \/ RamIn(table, x)
                           \/ type = E820_RAM /\ start <= x /\ x < start + size
<1>1. E820MAX \in Nat \ {0} /\ Len(table) \in Nat
  BY MapAssumption DEF Parameters
<1>2. \A i \in DOMAIN table : End(table[i]) \in Nat /\ End(table[i]) <= start
  BY EntryTypes DEF Below
<1>3. CASE Len(table) = E820MAX
  <2>1. new = table
    BY <1>3 DEF AddMemoryRegion
  <2>2. Below(table, start + size)
    BY <1>2 DEF Below
  <2>3. Len(table) \in DOMAIN table
    BY <1>1, <1>3
  <2>4. ASSUME NEW x \in Nat, Tells(new, x) PROVE ~(start <= x)
    BY <1>1, <1>2, <1>3, <2>1, <2>3, <2>4 DEF Tells, End
  <2> QED
    BY <2>1, <2>2, <2>4 DEF HoldsRegion
<1>4. CASE Len(table) # E820MAX
  <2>1. new = Added(table, start, size, type)
    BY <1>4 DEF AddMemoryRegion, Added
  <2>2. new \in Seq(Entry) /\ Ordered(new) /\ Below(new, start + size)
    BY <2>1, AppendInOrder
  <2>6. PICK n \in Nat :
          /\ n = Len(table) + 1 /\ Len(new) = n
          /\ DOMAIN new = DOMAIN table \cup {n}
          /\ \A i \in DOMAIN table : new[i] = table[i] /\ i # n
          /\ new[n] = [addr |-> start, size |-> size, type |-> type]
    <3>1. PICK n \in Nat : n = Len(table) + 1
      BY <1>1
    <3>2. Len(new) = n /\ new[n] = [addr |-> start, size |-> size, type |-> type]
      <4>1. Len(new) = Len(table) + 1
        BY <2>1, AddedLength
      <4>2. new[Len(table) + 1] = [addr |-> start, size |-> size, type |-> type]
        BY <2>1, AddedLast
      <4> QED
        BY <3>1, <4>1, <4>2
    <3>3. \A i \in DOMAIN table : new[i] = table[i]
      BY <2>1 DEF Added
    <3>4. DOMAIN table = 1 .. Len(table) /\ DOMAIN new = 1 .. n
      BY <2>2, <3>2
    <3>5. 1 .. n = 1 .. Len(table) \cup {n} /\ \A i \in 1 .. Len(table) : i # n
      BY <1>1, <3>1
    <3> QED
      BY <3>1, <3>2, <3>3, <3>4, <3>5
  <2>3. Len(new) <= E820MAX
    BY <1>1, <1>4, <2>2, <2>6
  <2>4. \A x \in Nat : Tells(table, x)
    BY <1>1, <1>4 DEF Tells
  <2>5. ASSUME NEW x \in Nat
        PROVE  RamIn(new, x) <=> \/ RamIn(table, x)
                                 \/ type = E820_RAM /\ start <= x /\ x < start + size
    <3>1. RamIn(new, x) <=> RamIn(table, x) \/ RamOver(new[n], x)
      BY <2>6 DEF RamIn
    <3>2. RamOver(new[n], x) <=>
            type = E820_RAM /\ start <= x /\ x < start + size
      BY <2>6 DEF RamOver, Covers
    <3> QED
      BY <3>1, <3>2
  <2> QED
    BY <2>2, <2>3, <2>4, <2>5, <2>6 DEF HoldsRegion
<1> QED
  BY <1>3, <1>4

\* A region that is clear of the hole leaves the table's RAM outside of it.
LEMMA RegionOutsideHole ==
    ASSUME NEW table \in Seq(Entry), OutsideHole(table), NEW start, NEW size, NEW type,
           type = E820_RAM => start + size <= HOLE_START \/ HOLE_END <= start,
           NEW new \in Seq(Entry), HoldsRegion(new, table, start, size, type)
    PROVE  OutsideHole(new)
<1>1. SUFFICES ASSUME NEW k \in DOMAIN new, new[k].type = E820_RAM
               PROVE  End(new[k]) <= HOLE_START \/ HOLE_END <= new[k].addr
  BY DEF OutsideHole
<1>2. CASE k \in DOMAIN table /\ new[k] = table[k]
  BY <1>1, <1>2 DEF OutsideHole
<1>3. CASE new[k] = [addr |-> start, size |-> size, type |-> type]
  BY <1>1, <1>3 DEF End
<1> QED
  BY <1>2, <1>3 DEF HoldsRegion

\* Copying an entry behind the others: what the table holds and tells then.
LEMMA EntryCopied ==
    ASSUME NEW table \in Seq(Entry), Ordered(table), Len(table) <= E820MAX,
           NEW e \in Entry, Below(table, e.addr), OutsideHole(table),
           NEW new, new = CopyEntry(table, e)
    PROVE  /\ new \in Seq(Entry) /\ Len(new) <= E820MAX
           /\ Ordered(new) /\ Below(new, End(e)) /\ OutsideHole(new)
           /\ \A x \in Nat :
                 Tells(new, x) =>
                     /\ Tells(table, x)
                     /\ RamIn(new, x) <=> RamIn(table, x) \/ (RamOver(e, x) /\ ~InHole(x))
<1>1. /\ HOLE_START \in Nat /\ HOLE_END \in Nat /\ HOLE_START < HOLE_END
      /\ E820MAX \in Nat /\ Len(table) \in Nat
  BY MapAssumption DEF Parameters
<1>2. PICK a \in Nat, z \in Nat, t \in Nat \ {0} : a = e.addr /\ z = e.size /\ t = e.type
  BY DEF Entry
<1>3. End(e) = a + z
  BY <1>2 DEF End
<1> DEFINE cut == t = E820_RAM /\ a < HOLE_END /\ a + z > HOLE_START
<1>4. \A x : RamOver(e, x) <=> t = E820_RAM /\ a <= x /\ x < a + z
  BY <1>2 DEF RamOver, Covers
<1>5. CASE ~cut
  <2>1. new = AddMemoryRegion(table, a, z, t)
    BY <1>2, <1>5 DEF CopyEntry
  <2>2. /\ new \in Seq(Entry) /\ Len(new) <= E820MAX
        /\ Ordered(new) /\ Below(new, a + z)
        /\ HoldsRegion(new, table, a, z, t)
        /\ \A x \in Nat :
              Tells(new, x) =>
                  /\ Tells(table, x)
                  /\ RamIn(new, x) <=>
                        RamIn(table, x) \/ (t = E820_RAM /\ a <= x /\ x < a + z)
    BY <1>2, <2>1, RegionAdded
  <2>3. t = E820_RAM => a + z <= HOLE_START \/ HOLE_END <= a
    BY <1>1, <1>2, <1>5
  <2>4. OutsideHole(new)
    BY <2>2, <2>3, RegionOutsideHole
  <2>5. \A x \in Nat : RamOver(e, x) => ~InHole(x)
    BY <1>1, <1>4, <2>3 DEF InHole
  <2> QED
    BY <1>3, <1>4, <2>2, <2>4, <2>5
<1>6. CASE cut
  <2>1. t = E820_RAM /\ a < HOLE_END /\ a + z > HOLE_START
    BY <1>6
  <2> HIDE DEF cut
  <2>2. PICK below :
          /\ below = IF a < HOLE_START THEN AddMemoryRegion(table, a, HOLE_START - a, t)
                     ELSE table
          /\ new = IF a + z <= HOLE_END THEN below
                   ELSE AddMemoryRegion(below, HOLE_END, (a + z) - HOLE_END, t)
    <3>1. e.type = E820_RAM /\ e.addr < HOLE_END /\ e.addr + e.size > HOLE_START
      BY <1>2, <2>1
    <3> DEFINE low == IF e.addr < HOLE_START
                      THEN AddMemoryRegion(table, e.addr, HOLE_START - e.addr, e.type)
                      ELSE table
    <3>2. new = IF ~(/\ e.type = E820_RAM /\ e.addr < HOLE_END
                     /\ e.addr + e.size > HOLE_START)
                THEN AddMemoryRegion(table, e.addr, e.size, e.type)
                ELSE IF e.addr + e.size <= HOLE_END THEN low
                ELSE AddMemoryRegion(low, HOLE_END, (e.addr + e.size) - HOLE_END, e.type)
      BY DEF CopyEntry
    <3>3. new = IF e.addr + e.size <= HOLE_END THEN low
                ELSE AddMemoryRegion(low, HOLE_END, (e.addr + e.size) - HOLE_END, e.type)
      <4> HIDE DEF low
      <4> QED
        BY <3>1, <3>2
    <3>4. low = IF a < HOLE_START THEN AddMemoryRegion(table, a, HOLE_START - a, t) ELSE table
      BY <1>2, Zenon
    <3> HIDE DEF low
    <3> QED
      BY <1>2, <3>3, <3>4, Zenon
  <2>4. /\ below \in Seq(Entry) /\ Len(below) <= E820MAX
        /\ Ordered(below) /\ Below(below, a + z) /\ Below(below, HOLE_END)
        /\ OutsideHole(below)
        /\ \A x \in Nat :
              Tells(below, x) =>
                  /\ Tells(table, x)
                  /\ RamIn(below, x) <=> RamIn(table, x) \/ (a <= x /\ x < HOLE_START)
    <3>1. CASE a < HOLE_START
      <4>1. PICK size \in Nat : size = HOLE_START - a
        BY <1>1, <3>1
      <4>2. below = AddMemoryRegion(table, a, size, t)
        BY <2>2, <3>1, <4>1
      <4>3. /\ below \in Seq(Entry) /\ Len(below) <= E820MAX
            /\ Ordered(below) /\ Below(below, a + size)
            /\ HoldsRegion(below, table, a, size, t)
            /\ \A x \in Nat :
                  Tells(below, x) =>
                      /\ Tells(table, x)
                      /\ RamIn(below, x) <=>
                            RamIn(table, x) \/ (t = E820_RAM /\ a <= x /\ x < a + size)
        BY <1>2, <4>2, RegionAdded
      <4>4. a + size = HOLE_START
        BY <1>1, <4>1
      <4>5. OutsideHole(below)
        <5>1. t = E820_RAM => a + size <= HOLE_START \/ HOLE_END <= a
          BY <1>1, <4>4
        <5> QED
          BY <4>3, <5>1, RegionOutsideHole
      <4>6. \A i \in DOMAIN below : End(below[i]) \in Nat /\ End(below[i]) <= HOLE_START
        BY <4>3, <4>4, EntryTypes DEF Below
      <4>7. Below(below, a + z) /\ Below(below, HOLE_END)
        BY <1>1, <2>1, <4>6 DEF Below
      <4> QED
        BY <2>1, <4>3, <4>4, <4>5, <4>7
    <3>2. CASE ~(a < HOLE_START)
      <4>1. below = table
        BY <2>2, <3>2
      <4>2. \A i \in DOMAIN table : End(table[i]) \in Nat /\ End(table[i]) <= a
        BY <1>2, EntryTypes DEF Below
      <4>3. Below(below, a + z) /\ Below(below, HOLE_END)
        BY <1>1, <2>1, <4>1, <4>2 DEF Below
      <4>4. \A x \in Nat : ~(a <= x /\ x < HOLE_START)
        BY <1>1, <3>2
      <4> QED
        BY <4>1, <4>3, <4>4
    <3> QED
      BY <3>1, <3>2
  <2>5. CASE a + z <= HOLE_END
    <3>1. new = below
      BY <2>2, <2>5
    <3>2. \A x \in Nat : RamOver(e, x) /\ ~InHole(x) <=> a <= x /\ x < HOLE_START
      BY <1>1, <1>4, <2>1, <2>5 DEF InHole
    <3> QED
      BY <1>3, <2>4, <3>1, <3>2
  <2>6. CASE ~(a + z <= HOLE_END)
    <3>1. PICK size \in Nat : size = (a + z) - HOLE_END
      BY <1>1, <2>6
    <3>2. new = AddMemoryRegion(below, HOLE_END, size, t)
      BY <2>2, <2>6, <3>1
    <3>3. /\ new \in Seq(Entry) /\ Len(new) <= E820MAX
          /\ Ordered(new) /\ Below(new, HOLE_END + size)
          /\ HoldsRegion(new, below, HOLE_END, size, t)
          /\ \A x \in Nat :
                Tells(new, x) =>
                    /\ Tells(below, x)
                    /\ RamIn(new, x) <=>
                          RamIn(below, x) \/ (t = E820_RAM /\ HOLE_END <= x /\ x < HOLE_END + size)
      BY <1>1, <2>4, <3>2, RegionAdded
    <3>4. HOLE_END + size = a + z
      BY <1>1, <3>1
    <3>5. OutsideHole(new)
      <4>1. t = E820_RAM => HOLE_END + size <= HOLE_START \/ HOLE_END <= HOLE_END
        BY <1>1
      <4> QED
        BY <2>4, <3>3, <4>1, RegionOutsideHole
    <3>6. \A x \in Nat : RamOver(e, x) /\ ~InHole(x) <=>
                            \/ a <= x /\ x < HOLE_START
                            \/ HOLE_END <= x /\ x < a + z
      BY <1>1, <1>4, <2>1, <2>6 DEF InHole
    <3>7. ASSUME NEW x \in Nat, Tells(new, x)
          PROVE  /\ Tells(table, x)
                 /\ RamIn(new, x) <=> RamIn(table, x) \/ (RamOver(e, x) /\ ~InHole(x))
      <4>1. Tells(below, x)
        BY <3>3, <3>7
      <4>2. RamIn(new, x) <=> RamIn(below, x) \/ (HOLE_END <= x /\ x < a + z)
        BY <2>1, <3>3, <3>4, <3>7
      <4> QED
        BY <2>4, <3>6, <4>1, <4>2
    <3> QED
      BY <1>3, <3>3, <3>4, <3>5, <3>7
  <2> QED
    BY <2>5, <2>6
<1> QED
  BY <1>5, <1>6

LEMMA CopyRoundStep == IInv /\ CopyRound => IInv'
<1> SUFFICES ASSUME IInv, CopyRound PROVE IInv'
  OBVIOUS
<1>0. /\ TypeOK /\ Untouched /\ MapFits /\ Reported
      /\ PointsOfEntries /\ SortedSoFar /\ SweptInOrder
      /\ CopiedInOrder /\ CopiedExactly /\ HoleClear
  BY DEF IInv
<1>1. /\ stage = "copy_e820_map" /\ stage' = stage /\ biosmap' = biosmap /\ mmap' = mmap
      /\ round <= Len(biosmap) /\ round' = round + 1
      /\ e820' = CopyEntry(e820, biosmap[round])
      /\ change_point' = change_point /\ still_changing' = still_changing
      /\ overlap_list' = overlap_list /\ last' = last /\ new_bios' = new_bios
  BY DEF CopyRound, Copies, locals
<1>2. /\ biosmap \in Seq(Entry) /\ e820 \in Seq(Entry) /\ round \in Nat \ {0}
      /\ round' \in Nat \ {0} /\ Len(biosmap) \in Nat
      /\ round \in DOMAIN biosmap
  BY <1>0, <1>1 DEF TypeOK
<1>3. /\ Ordered(biosmap) /\ Len(e820) <= E820MAX /\ Ordered(e820)
      /\ \A j \in DOMAIN biosmap : round <= j => Below(e820, biosmap[j].addr)
  BY <1>0, <1>1 DEF CopiedInOrder, Copying
<1>4. PICK e : e = biosmap[round]
  OBVIOUS
<1>5. /\ e \in Entry /\ e.addr \in Nat /\ End(e) \in Nat /\ Below(e820, e.addr)
      /\ OutsideHole(e820)
  BY <1>0, <1>2, <1>3, <1>4, EntryTypes DEF HoleClear
<1>6. PICK new : new = e820'
  OBVIOUS
<1>7. new = CopyEntry(e820, e)
  BY <1>1, <1>4, <1>6
<1>8. /\ new \in Seq(Entry) /\ Len(new) <= E820MAX
      /\ Ordered(new) /\ Below(new, End(e)) /\ OutsideHole(new)
  BY <1>2, <1>3, <1>5, <1>7, EntryCopied
<1>9. \A x \in Nat :
        Tells(new, x) =>
            /\ Tells(e820, x)
            /\ RamIn(new, x) <=> RamIn(e820, x) \/ (RamOver(e, x) /\ ~InHole(x))
  BY <1>2, <1>3, <1>5, <1>7, EntryCopied
<1>10. TypeOK'
  BY <1>0, <1>1, <1>2, <1>6, <1>8, Zenon DEF TypeOK
<1>11. Untouched' /\ MapFits' /\ Reported' /\ HoleClear' /\ PointsOfEntries'
  <2>1. HoleClear'
    BY <1>6, <1>8 DEF HoleClear, OutsideHole
  <2> QED
    BY <1>0, <1>1, <2>1 DEF Untouched, MapFits, Reported, PointsOfEntries, Below, Loops,
                            Copying, Top
<1>12. SortedSoFar' /\ SweptInOrder'
  BY <1>0, <1>1 DEF SortedSoFar, SweptInOrder
<1>13. CopiedInOrder'
  <2>1. \A i \in DOMAIN new : End(new[i]) \in Nat /\ End(new[i]) <= End(e)
    BY <1>8, EntryTypes DEF Below
  <2>2. Below(new, Top)
    <3>1. End(e) <= Top /\ WORD \in Nat
      BY <1>0, <1>2, <1>4, MapAssumption DEF MapFits, Below, Parameters
    <3> QED
      BY <1>5, <2>1, <3>1 DEF Below, Top
  <2>3. ASSUME NEW j \in DOMAIN biosmap, round + 1 <= j PROVE Below(new, biosmap[j].addr)
    <3>1. j \in Nat /\ round < j
      BY <1>2, <2>3
    <3>2. End(e) <= biosmap[j].addr /\ biosmap[j].addr \in Nat
      BY <1>2, <1>3, <1>4, <3>1, EntryTypes DEF Ordered
    <3> QED
      BY <1>5, <2>1, <3>2 DEF Below
  <2>4. round' <= Len(biosmap) + 1
    BY <1>1, <1>2
  <2> QED
    BY <1>1, <1>3, <1>6, <1>8, <2>2, <2>3, <2>4 DEF CopiedInOrder, Ordered, Below, Top
<1>14. CopiedExactly'
  <2>1. ASSUME NEW x \in Nat, Tells(new, x)
        PROVE  RamIn(new, x) <=> CopiedRam(round, x)
    <3>1. RamIn(e820, x) <=> CopiedRam(round - 1, x)
      BY <1>0, <1>1, <1>9, <2>1 DEF CopiedExactly, Copying
    <3>2. \A j \in DOMAIN biosmap : j <= round <=> j <= round - 1 \/ j = round
      BY <1>2
    <3>3. CopiedRam(round, x) <=> CopiedRam(round - 1, x) \/ (RamOver(e, x) /\ ~InHole(x))
      BY <1>2, <1>4, <3>2 DEF CopiedRam
    <3> QED
      BY <1>9, <2>1, <3>1, <3>3
  <2>2. round' - 1 = round
    BY <1>1, <1>2
  <2> QED
    BY <1>1, <1>6, <2>1, <2>2 DEF CopiedExactly, Tells, RamIn, CopiedRam, InHole
<1> QED
  BY <1>10, <1>11, <1>12, <1>13, <1>14 DEF IInv

LEMMA EndCopyStep == IInv /\ EndCopy => IInv'
<1> SUFFICES ASSUME IInv, EndCopy PROVE IInv'
  OBVIOUS
<1>0. /\ TypeOK /\ Untouched /\ MapFits /\ Reported
      /\ PointsOfEntries /\ SortedSoFar /\ SweptInOrder
      /\ CopiedInOrder /\ CopiedExactly /\ HoleClear
  BY DEF IInv
<1>1. /\ stage = "copy_e820_map" /\ stage' = "done" /\ biosmap' = biosmap /\ mmap' = mmap
      /\ round' = round /\ e820' = e820 /\ ~Copies
      /\ change_point' = change_point /\ still_changing' = still_changing
      /\ overlap_list' = overlap_list /\ last' = last /\ new_bios' = new_bios
  BY DEF EndCopy, locals
<1>2. biosmap \in Seq(Entry) /\ round \in Nat \ {0} /\ Len(biosmap) \in Nat
  BY <1>0 DEF TypeOK
<1>3. TypeOK' /\ Untouched' /\ MapFits' /\ Reported' /\ HoleClear' /\ PointsOfEntries'
  <2>1. TypeOK'
    BY <1>0, <1>1, Zenon DEF TypeOK
  <2> QED
    BY <1>0, <1>1, <2>1 DEF Untouched, MapFits, Reported, HoleClear, OutsideHole,
                            PointsOfEntries, Below, Loops, Copying, Top
<1>4. SortedSoFar' /\ SweptInOrder'
  BY <1>0, <1>1 DEF SortedSoFar, SweptInOrder
<1>5. CopiedInOrder'
  <2>1. round <= Len(biosmap) + 1
    BY <1>0, <1>1 DEF CopiedInOrder, Copying
  <2>2. Len(biosmap) >= 2 => round = Len(biosmap) + 1
    <3>1. SUFFICES ASSUME Len(biosmap) >= 2, round # Len(biosmap) + 1 PROVE FALSE
      OBVIOUS
    <3>2. round <= Len(biosmap) /\ round \in DOMAIN biosmap
      BY <1>2, <2>1, <3>1
    <3>3. ~Wraps(biosmap[round])
      BY <1>0, <1>2, <3>2, NoneWraps DEF MapFits
    <3> QED
      BY <1>1, <3>1, <3>2, <3>3 DEF Copies
  <2> QED
    BY <1>0, <1>1, <2>2 DEF CopiedInOrder, Copying, Ordered, Below, Top
<1>6. CopiedExactly'
  BY <1>0, <1>1 DEF CopiedExactly, Copying, Tells, RamIn, CopiedRam, InHole
<1> QED
  BY <1>3, <1>4, <1>5, <1>6 DEF IInv

LEMMA StutterStep == IInv /\ UNCHANGED vars => IInv'
<1> SUFFICES ASSUME IInv, UNCHANGED vars PROVE IInv'
  OBVIOUS
<1>1. /\ stage' = stage /\ biosmap' = biosmap /\ mmap' = mmap
      /\ round' = round /\ e820' = e820
      /\ change_point' = change_point /\ still_changing' = still_changing
      /\ overlap_list' = overlap_list /\ last' = last /\ new_bios' = new_bios
  BY DEF vars, locals
<1>2. TypeOK'
  BY <1>1, Zenon DEF IInv, TypeOK
<1>3. Untouched' /\ MapFits' /\ Reported' /\ PointsOfEntries' /\ HoleClear'
  BY <1>1 DEF IInv, Untouched, MapFits, Reported, HoleClear, OutsideHole, PointsOfEntries,
              Below, Loops, Copying, Top
<1>4. SortedSoFar' /\ SweptInOrder'
  BY <1>1 DEF IInv, SortedSoFar, SortedUpTo, Precedes, IsStart, SweptInOrder, Ordered, Below,
              Reached
<1>5. CopiedInOrder' /\ CopiedExactly'
  BY <1>1 DEF IInv, CopiedInOrder, CopiedExactly, Copying, Ordered, Below, Top, Tells, RamIn,
              CopiedRam, InHole
<1> QED
  BY <1>2, <1>3, <1>4, <1>5 DEF IInv

LEMMA NextIInv == IInv /\ [Next]_vars => IInv'
<1> SUFFICES ASSUME IInv, [Next]_vars PROVE IInv'
  OBVIOUS
<1>1. CASE InitBiosmap
  BY <1>1, InitBiosmapStep
<1>2. CASE CheckMap
  BY <1>2, CheckMapStep
<1>3. CASE RecordEntry
  BY <1>3, RecordEntryStep
<1>4. CASE StartSort
  BY <1>4, StartSortStep
<1>5. CASE SortPoint
  BY <1>5, SortPointStep
<1>6. CASE EndPass
  BY <1>6, EndPassStep
<1>7. CASE SweepPoint
  BY <1>7, SweepPointStep
<1>8. CASE EndSweep
  BY <1>8, EndSweepStep
<1>9. CASE CopyRound
  BY <1>9, CopyRoundStep
<1>10. CASE EndCopy
  BY <1>10, EndCopyStep
<1>11. CASE UNCHANGED vars
  BY <1>11, StutterStep
<1> QED
  BY <1>1, <1>2, <1>3, <1>4, <1>5, <1>6, <1>7, <1>8, <1>9, <1>10, <1>11 DEF Next

\* The invariant holds throughout, whatever map of legal length the boot loader reports.
THEOREM AlwaysIInv == Spec => []IInv
BY InitIInv, NextIInv, PTL DEF Spec

-----------------------------------------------------------------------------
(* What it shows.                                                          *)

\* The variables of the three functions keep their types.
THEOREM TypeCorrect == Spec => []TypeOK
<1>1. IInv => TypeOK
  BY DEF IInv
<1> QED
  BY <1>1, AlwaysIInv, PTL

LEMMA InvOrder == IInv => InOrder
<1>1. Copying = {"copy_e820_map", "done"}
  BY DEF Copying
<1> QED
  BY <1>1 DEF IInv, CopiedInOrder, InOrder, SanitizedMap, Ordered, End

\* Whatever overlaps the boot loader reports, sanitize_e820_map leaves entries in address
\* order of which no two overlap.
THEOREM SanitizedInOrder == Spec => []InOrder
BY InvOrder, AlwaysIInv, PTL

\* Where entries do not overlap, a byte has the type of RAM exactly if RAM is over it.
LEMMA TypeIsRam ==
    ASSUME NEW map \in Seq(Entry), Ordered(map), NEW x \in Nat
    PROVE  TypeAt(map, x) = E820_RAM <=> RamIn(map, x)
<1>1. ASSUME TypeAt(map, x) = E820_RAM PROVE RamIn(map, x)
  <2>1. TypeAt(map, x) # 0
    BY <1>1 DEF E820_RAM
  <2> QED
    BY <1>1, <2>1, TypeAtBounds DEF RamIn, RamOver
<1>2. ASSUME RamIn(map, x) PROVE TypeAt(map, x) = E820_RAM
  <2>1. PICK i \in DOMAIN map : map[i].type = E820_RAM /\ Covers(map[i], x)
    BY <1>2 DEF RamIn, RamOver
  <2> QED
    BY <2>1, OneThere
<1> QED
  BY <1>1, <1>2

LEMMA InvHole == IInv => HoleCutOut
<1> SUFFICES ASSUME IInv, stage = "done", Len(biosmap) >= 2,
                    NEW x \in Corners(biosmap) \cup Corners(e820) \cup {HOLE_START, HOLE_END},
                    Tells(e820, x)
             PROVE  TypeAt(e820, x) = E820_RAM <=>
                        TypeAt(biosmap, x) = E820_RAM /\ ~(HOLE_START <= x /\ x < HOLE_END)
  BY DEF HoleCutOut
<1>1. biosmap \in Seq(Entry) /\ e820 \in Seq(Entry)
  BY DEF IInv, TypeOK
<1>2. x \in Nat
  <2>1. ASSUME NEW map \in Seq(Entry), NEW y \in Corners(map) PROVE y \in Nat
    <3>1. PICK i \in DOMAIN map : y = map[i].addr \/ y = map[i].addr + map[i].size
      BY DEF Corners
    <3>2. map[i].addr \in Nat /\ map[i].size \in Nat
      BY EntryTypes
    <3> QED
      BY <3>1, <3>2
  <2>2. HOLE_START \in Nat /\ HOLE_END \in Nat
    BY MapAssumption DEF Parameters
  <2> QED
    BY <1>1, <2>1, <2>2
<1>3. Ordered(biosmap) /\ Ordered(e820) /\ round = Len(biosmap) + 1
  BY DEF IInv, CopiedInOrder, Copying
<1>4. RamIn(e820, x) <=> CopiedRam(round - 1, x)
  BY <1>2 DEF IInv, CopiedExactly, Copying
<1>5. CopiedRam(round - 1, x) <=> ~InHole(x) /\ RamIn(biosmap, x)
  <2>1. \A j \in DOMAIN biosmap : j <= round - 1
    BY <1>1, <1>3
  <2> QED
    BY <2>1 DEF CopiedRam, RamIn
<1>6. TypeAt(e820, x) = E820_RAM <=> RamIn(e820, x)
  BY <1>1, <1>2, <1>3, TypeIsRam
<1>7. TypeAt(biosmap, x) = E820_RAM <=> RamIn(biosmap, x)
  BY <1>1, <1>2, <1>3, TypeIsRam
<1> QED
  BY <1>4, <1>5, <1>6, <1>7 DEF InHole

\* copy_e820_map takes the 640 KB - 1 MB hole out of the RAM, and neither adds nor loses any
\* other memory as far as the table's room goes.
THEOREM CopyCutsTheHole == Spec => []HoleCutOut
BY InvHole, AlwaysIInv, PTL

-----------------------------------------------------------------------------
(* Entries that meet in pairs: the invariant of the overlap list.          *)

Pairs == MeetsInPairs(LowWords(mmap))

Starts(map, p) == p.addr = map[p.entry].addr
Ends(map, p)   == p.addr = End(map[p.entry])

\* The points are the two ends of each of the first n entries that are not empty, each once.
PointsOf(points, map, n) ==
    /\ \A k \in DOMAIN points :
          /\ points[k].entry \in DOMAIN map /\ points[k].entry <= n
          /\ map[points[k].entry].size # 0
          /\ Starts(map, points[k]) \/ Ends(map, points[k])
    /\ \A i \in DOMAIN map : i <= n /\ map[i].size # 0 =>
          /\ \E k \in DOMAIN points : points[k].entry = i /\ Starts(map, points[k])
          /\ \E k \in DOMAIN points : points[k].entry = i /\ Ends(map, points[k])
    /\ \A k, l \in DOMAIN points : points[k] = points[l] => k = l

PointsExact ==
    stage \in Loops =>
        PointsOf(change_point, biosmap, IF stage = "record" THEN round - 1 ELSE Len(biosmap))

\* The first n points hold the start of entry i but not its end.
Open(points, map, n, i) ==
    /\ \E k \in DOMAIN points : k <= n /\ points[k].entry = i /\ Starts(map, points[k])
    /\ \A k \in DOMAIN points : k <= n => ~(points[k].entry = i /\ Ends(map, points[k]))

\* The list holds the open entries, each once.
ListOf(list, points, map, n) ==
    /\ list \in Seq(Nat \ {0}) /\ Len(list) <= 2
    /\ \A a, b \in DOMAIN list : list[a] = list[b] => a = b
    /\ \A a \in DOMAIN list : list[a] \in DOMAIN map
    /\ \A i \in DOMAIN map : In(list, i) <=> Open(points, map, n, i)

\* The type that a new table and the entry that is open give byte x.
SoFar(table, open, x) ==
    IF open.type # 0 /\ open.addr <= x THEN open.type ELSE TypeAt(table, x)

\* The address of the n-th point, where the sweep of the first n points has come to.
At(points, n) == IF n = 0 THEN 0 ELSE points[n].addr

SweptTypes(table, open, points, map, n) ==
    \A x \in Nat : x < At(points, n) => SoFar(table, open, x) = TypeAt(map, x)

\* Entries that touch differ in type.
Differ(map) ==
    \A i, j \in DOMAIN map :
        j = i + 1 /\ End(map[i]) = map[j].addr => map[i].type # map[j].type

\* Behind the first n points no entry starts at address x or before it.
NoStartTo(x, points, map, n) ==
    \A k \in DOMAIN points : n < k /\ Starts(map, points[k]) => x < points[k].addr

\* At one address types only rise or only fall: an entry that starts there is not closed
\* there, and no entry starts there once one was closed.
Rises(type, open, list, map) ==
    /\ type < open.type
    /\ \E i \in DOMAIN map : In(list, i) /\ map[i].addr = open.addr /\ map[i].type = open.type

Falls(type, open, points, map, n) == open.type < type /\ NoStartTo(open.addr, points, map, n)

\* The entry that is open will not be one with entry e, which is the last so far.
Apart(e, open, list, points, map, n) ==
    /\ open.type = 0 => NoStartTo(End(e), points, map, n)
    /\ open.type # 0 /\ End(e) = open.addr =>
          /\ e.type # open.type
          /\ open.addr = At(points, n) =>
                Rises(e.type, open, list, map) \/ Falls(e.type, open, points, map, n)

NothingToMerge(table, open, list, points, map, n) ==
    /\ Differ(table)
    /\ \A k \in DOMAIN table : k = Len(table) => Apart(table[k], open, list, points, map, n)

\* What the sweep of the first n points has made of a map.
Swept(table, open, list, points, map, n) ==
    /\ ListOf(list, points, map, n)
    /\ open.type = TypeOf(map, list)
    /\ SweptTypes(table, open, points, map, n)
    /\ NothingToMerge(table, open, list, points, map, n)

SweptPairs ==
    stage = "sweep" /\ Pairs =>
        Swept(new_bios, last, overlap_list, change_point, biosmap, round - 1)

PairInv == PointsExact /\ SweptPairs /\ PrecedenceOfPairs /\ NoneToMerge

\* Two or fewer open entries: a third that meets them at an address would be too many.
LEMMA NoThird ==
    ASSUME NEW map \in Seq(Entry), MeetsInPairs(map), NEW x \in Corners(map),
           NEW I, I = {i \in DOMAIN map : map[i].size # 0 /\ map[i].addr <= x
                                              /\ x <= map[i].addr + map[i].size},
           NEW a \in I, NEW b \in I, NEW c \in I
    PROVE  a = b \/ a = c \/ b = c
<1>1. SUFFICES ASSUME a # b, a # c, b # c PROVE FALSE
  OBVIOUS
<1>2. IsFiniteSet(I) /\ Cardinality(I) <= 2
  <2>1. IsFiniteSet(1 .. Len(map))
    BY FS_Interval
  <2>2. I \subseteq 1 .. Len(map)
    OBVIOUS
  <2> QED
    BY <2>1, <2>2, FS_Subset DEF MeetsInPairs
<1>3. IsFiniteSet({a, b, c}) /\ Cardinality({a, b, c}) = 3
  <2>1. ASSUME NEW S, IsFiniteSet(S), NEW d, d \notin S, NEW T, T = S \cup {d}
        PROVE  IsFiniteSet(T) /\ Cardinality(T) = Cardinality(S) + 1
    <3>1. IsFiniteSet(S \cup {d}) /\ Cardinality(S \cup {d}) = Cardinality(S) + 1
      BY <2>1, FS_AddElement
    <3> QED
      BY <2>1, <3>1, Zenon
  <2>2. PICK S : S = {a}
    OBVIOUS
  <2>3. PICK T : T = S \cup {b}
    OBVIOUS
  <2>4. PICK U : U = T \cup {c}
    OBVIOUS
  <2>5. IsFiniteSet(S) /\ Cardinality(S) = 1 /\ b \notin S
    BY <1>1, <2>2, FS_Singleton
  <2>6. IsFiniteSet(T) /\ Cardinality(T) = Cardinality(S) + 1
    BY <2>1, <2>3, <2>5, Zenon
  <2>7. c \notin T
    BY <1>1, <2>2, <2>3
  <2>8. IsFiniteSet(U) /\ Cardinality(U) = Cardinality(T) + 1
    BY <2>1, <2>4, <2>6, <2>7, Zenon
  <2>9. U = {a, b, c}
    BY <2>2, <2>3, <2>4
  <2>10. Cardinality(U) = 3
    BY <2>5, <2>6, <2>8
  <2> QED
    BY <2>8, <2>9, <2>10
<1>4. Cardinality({a, b, c}) <= Cardinality(I)
  BY <1>2, FS_Subset
<1> QED
  BY <1>2, <1>3, <1>4, FS_CardinalityType

Rank(p) == 2 * p.addr + (IF IsStart(p) THEN 0 ELSE 1)

\* Sorted points are in order of their ranks, near and far.
LEMMA RankOrder ==
    ASSUME IInv, stage = "sweep",
           NEW k \in DOMAIN change_point, NEW l \in DOMAIN change_point, k <= l
    PROVE  Rank(change_point[k]) <= Rank(change_point[l])
<1> DEFINE T == {m \in DOMAIN change_point :
                   k <= m /\ Rank(change_point[m]) < Rank(change_point[k])}
<1>1. /\ DOMAIN change_point = 1 .. Len(change_point) /\ Len(change_point) \in Nat
      /\ \A m \in DOMAIN change_point : change_point[m].addr \in Nat
      /\ SortedUpTo(Len(change_point))
  <2>1. change_point \in Seq([addr : Nat, entry : Nat \ {0}]) /\ SortedUpTo(Len(change_point))
    BY DEF IInv, TypeOK, SortedSoFar
  <2>2. \A m \in DOMAIN change_point : change_point[m].addr \in Nat
    BY <2>1, PointTypes
  <2> HIDE DEF IInv
  <2> QED
    BY <2>1, <2>2
<1>2. \A m \in DOMAIN change_point : Rank(change_point[m]) \in Nat
  BY <1>1 DEF Rank
<1>3. SUFFICES ASSUME l \in T PROVE FALSE
  BY <1>2
<1>4. PICK m \in T : \A n \in T : m <= n
  <2>1. T \in SUBSET Nat /\ T # {}
    BY <1>1, <1>3
  <2> HIDE DEF T
  <2> QED
    BY <2>1, LeastElement
<1>5. m # k
  BY <1>2
<1>6. m \in Nat /\ m - 1 \in DOMAIN change_point /\ k <= m - 1 /\ 1 < m /\ m <= Len(change_point)
  BY <1>1, <1>5
<1>7. ~Precedes(change_point[m], change_point[m - 1])
  BY <1>1, <1>6 DEF SortedUpTo
<1>8. Rank(change_point[m - 1]) <= Rank(change_point[m])
  <2>1. \A p, q : p.addr \in Nat /\ q.addr \in Nat /\ ~Precedes(q, p) => Rank(p) <= Rank(q)
    BY DEF Precedes, Rank
  <2>2. change_point[m].addr \in Nat /\ change_point[m - 1].addr \in Nat
    BY <1>1, <1>6
  <2> QED
    BY <1>7, <2>1, <2>2, Zenon
<1>9. m - 1 \in T
  <2>1. Rank(change_point[m]) < Rank(change_point[k])
    OBVIOUS
  <2>2. /\ Rank(change_point[m - 1]) \in Nat /\ Rank(change_point[m]) \in Nat
        /\ Rank(change_point[k]) \in Nat
    BY <1>2, <1>6
  <2>3. Rank(change_point[m - 1]) < Rank(change_point[k])
    BY <1>8, <2>1, <2>2
  <2> QED
    BY <1>6, <2>3
<1> QED
  BY <1>4, <1>6, <1>9

\* What the order of ranks says of addresses and kinds.
LEMMA PointOrder ==
    ASSUME IInv, stage = "sweep",
           NEW k \in DOMAIN change_point, NEW l \in DOMAIN change_point, k <= l
    PROVE  /\ k \in Nat /\ l \in Nat
           /\ change_point[k].addr \in Nat /\ change_point[l].addr \in Nat
           /\ change_point[k].addr <= change_point[l].addr
           /\ IsStart(change_point[l]) /\ change_point[k].addr = change_point[l].addr
                 => IsStart(change_point[k])
<1>1. change_point \in Seq([addr : Nat, entry : Nat \ {0}])
  BY DEF IInv, TypeOK
<1>2. change_point[k].addr \in Nat /\ change_point[l].addr \in Nat
  BY <1>1, PointTypes
<1>3. k \in Nat /\ l \in Nat
  BY <1>1
<1>4. Rank(change_point[k]) <= Rank(change_point[l])
  BY RankOrder
<1> QED
  BY <1>2, <1>3, <1>4 DEF Rank

-----------------------------------------------------------------------------
(* The points remain the ends of the entries.                              *)

LEMMA PointsAppended ==
    ASSUME NEW map \in Seq(Entry), NEW points \in Seq([addr : Nat, entry : Nat \ {0}]),
           NEW i \in DOMAIN map, PointsOf(points, map, i - 1),
           NEW new, new = points \o ChangePoints(map, i)
    PROVE  PointsOf(new, map, i)
<1> DEFINE Point == [addr : Nat, entry : Nat \ {0}]
           n == Len(points)
           p == [addr |-> map[i].addr, entry |-> i]
           q == [addr |-> map[i].addr + map[i].size, entry |-> i]
<1>1. /\ map[i].addr \in Nat /\ map[i].size \in Nat /\ End(map[i]) = map[i].addr + map[i].size
      /\ i \in Nat \ {0} /\ DOMAIN map \subseteq Nat
  BY EntryTypes DEF End
<1>2. n \in Nat /\ DOMAIN points = 1 .. n
  OBVIOUS
<1>3. CASE map[i].size = 0
  <2>1. new = points
    <3> HIDE DEF Point
    <3>1. points \in Seq(Point)
      BY DEF Point
    <3> QED
      BY <1>3, <3>1 DEF ChangePoints
  <2>2. \A j \in DOMAIN map : j <= i /\ map[j].size # 0 => j <= i - 1
    BY <1>1, <1>3
  <2>3. \A j \in DOMAIN map : j <= i - 1 => j <= i
    BY <1>1
  <2> QED
    BY <2>1, <2>2, <2>3 DEF PointsOf
<1>4. CASE map[i].size # 0
  <2>1. p \in Point /\ q \in Point /\ p # q
    <3>1. p.addr # q.addr
      BY <1>1, <1>4
    <3> QED
      BY <1>1, <3>1
  <2>2. ChangePoints(map, i) = <<p, q>>
    BY <1>4 DEF ChangePoints
  <2>3. p.entry = i /\ q.entry = i /\ Starts(map, p) /\ Ends(map, q)
    BY <1>1 DEF Starts, Ends
  <2>4. /\ DOMAIN new = 1 .. n + 2
        /\ \A k \in 1 .. n : new[k] = points[k]
        /\ new[n + 1] = p /\ new[n + 2] = q
    <3> HIDE DEF p, q, Point
    <3>1. points \in Seq(Point)
      BY DEF Point
    <3> QED
      BY <2>1, <2>2, <3>1
  <2> HIDE DEF p, q, Point, n
  <2>5. \A k \in DOMAIN new : k \in 1 .. n \/ k = n + 1 \/ k = n + 2
    BY <1>2, <2>4
  <2>6. /\ n + 1 \in DOMAIN new /\ n + 2 \in DOMAIN new
        /\ \A k \in 1 .. n : k \in DOMAIN new
    BY <1>2, <2>4
  <2>7. \A k \in 1 .. n : /\ points[k].entry \in DOMAIN map /\ points[k].entry <= i
                          /\ points[k].entry # i /\ map[points[k].entry].size # 0
                          /\ Starts(map, points[k]) \/ Ends(map, points[k])
    <3>1. TAKE k \in 1 .. n
    <3>2. /\ points[k].entry \in DOMAIN map /\ points[k].entry <= i - 1
          /\ map[points[k].entry].size # 0
          /\ Starts(map, points[k]) \/ Ends(map, points[k])
      BY <1>2 DEF PointsOf
    <3>3. points[k].entry \in Nat
      BY <1>1, <3>2
    <3>4. points[k].entry <= i /\ points[k].entry # i
      <4>1. i \in Nat
        BY <1>1
      <4>2. \A e, m \in Nat : e <= m - 1 => e <= m /\ e # m
        OBVIOUS
      <4> QED
        BY Zenon, <3>2, <3>3, <4>1, <4>2
    <3> QED
      BY <3>2, <3>4
  <2>8. ASSUME NEW k \in DOMAIN new
        PROVE  /\ new[k].entry \in DOMAIN map /\ new[k].entry <= i
               /\ map[new[k].entry].size # 0 /\ (Starts(map, new[k]) \/ Ends(map, new[k]))
    <3>1. CASE k \in 1 .. n
      BY <2>4, <2>7, <3>1
    <3>2. CASE k = n + 1 \/ k = n + 2
      <4>1. new[k] = p \/ new[k] = q
        BY <2>4, <3>2
      <4>2. i <= i
        BY <1>1
      <4> QED
        BY <1>4, <2>3, <4>1, <4>2
    <3> QED
      BY <2>5, <3>1, <3>2
  <2>9. ASSUME NEW j \in DOMAIN map, j <= i, map[j].size # 0
        PROVE  /\ \E k \in DOMAIN new : new[k].entry = j /\ Starts(map, new[k])
               /\ \E k \in DOMAIN new : new[k].entry = j /\ Ends(map, new[k])
    <3>1. CASE j = i
      BY <2>3, <2>4, <2>6, <3>1
    <3>2. CASE j # i
      <4>1. j <= i - 1
        BY <1>1, <2>9, <3>2
      <4>2. PICK k \in 1 .. n : points[k].entry = j /\ Starts(map, points[k])
        BY <1>2, <2>9, <4>1 DEF PointsOf
      <4>3. PICK l \in 1 .. n : points[l].entry = j /\ Ends(map, points[l])
        BY <1>2, <2>9, <4>1 DEF PointsOf
      <4> QED
        BY <2>4, <2>6, <4>2, <4>3
    <3> QED
      BY <3>1, <3>2
  <2>10. ASSUME NEW k \in DOMAIN new, NEW l \in DOMAIN new, new[k] = new[l] PROVE k = l
    <3>1. CASE k \in 1 .. n /\ l \in 1 .. n
      BY <1>2, <2>4, <2>10, <3>1 DEF PointsOf
    <3>2. ASSUME NEW a \in DOMAIN new, a \notin 1 .. n
          PROVE  new[a].entry = i /\ (a = n + 1 \/ a = n + 2)
      BY <2>3, <2>4, <2>5, <3>2
    <3>3. CASE k \notin 1 .. n /\ l \notin 1 .. n
      BY <2>1, <2>4, <2>10, <3>2, <3>3
    <3>4. \A a \in 1 .. n : new[a].entry # i
      BY <2>4, <2>7
    <3> QED
      BY <2>10, <3>1, <3>2, <3>3, <3>4
  <2> QED
    BY <2>8, <2>9, <2>10 DEF PointsOf
<1> QED
  BY <1>3, <1>4

\* The order of the points does not matter.
LEMMA PointsSwapped ==
    ASSUME NEW map, NEW n, NEW points, PointsOf(points, map, n),
           NEW k \in DOMAIN points, NEW l \in DOMAIN points,
           NEW new, new = [points EXCEPT ![k] = points[l], ![l] = points[k]]
    PROVE  PointsOf(new, map, n)
<1> DEFINE s(a) == IF a = l THEN k ELSE IF a = k THEN l ELSE a
           D == DOMAIN points
<1>1. DOMAIN new = D /\ \A a \in D : new[a] = points[s(a)]
  OBVIOUS
<1>2. \A a \in D : s(a) \in D /\ s(s(a)) = a
  OBVIOUS
<1> HIDE DEF s
<1>3. \A a, b \in D : s(a) = s(b) => a = b
  BY <1>2
<1>4. \A a \in D : new[s(a)] = points[a]
  BY <1>1, <1>2
<1> HIDE DEF D
<1>5. /\ \A a \in D : /\ points[a].entry \in DOMAIN map /\ points[a].entry <= n
                      /\ map[points[a].entry].size # 0
                      /\ Starts(map, points[a]) \/ Ends(map, points[a])
      /\ \A i \in DOMAIN map : i <= n /\ map[i].size # 0 =>
            /\ \E a \in D : points[a].entry = i /\ Starts(map, points[a])
            /\ \E a \in D : points[a].entry = i /\ Ends(map, points[a])
      /\ \A a, b \in D : points[a] = points[b] => a = b
  BY DEF PointsOf, D
<1>6. \A a \in D : /\ new[a].entry \in DOMAIN map /\ new[a].entry <= n
                   /\ map[new[a].entry].size # 0
                   /\ Starts(map, new[a]) \/ Ends(map, new[a])
  BY <1>1, <1>2, <1>5
<1>7. ASSUME NEW i \in DOMAIN map, i <= n, map[i].size # 0
      PROVE  /\ \E a \in D : new[a].entry = i /\ Starts(map, new[a])
             /\ \E a \in D : new[a].entry = i /\ Ends(map, new[a])
  <2>1. PICK a \in D : points[a].entry = i /\ Starts(map, points[a])
    BY <1>5, <1>7
  <2>2. PICK b \in D : points[b].entry = i /\ Ends(map, points[b])
    BY <1>5, <1>7
  <2> QED
    BY <1>2, <1>4, <2>1, <2>2
<1>8. \A a, b \in D : new[a] = new[b] => a = b
  BY <1>1, <1>2, <1>3, <1>5
<1> QED
  BY <1>1, <1>6, <1>7, <1>8 DEF PointsOf

LEMMA PointsKept == IInv /\ PointsExact /\ [Next]_vars => PointsExact'
<1> SUFFICES ASSUME IInv, PointsExact, [Next]_vars PROVE PointsExact'
  OBVIOUS
<1>0. /\ biosmap \in Seq(Entry) /\ round \in Nat \ {0}
      /\ change_point \in Seq([addr : Nat, entry : Nat \ {0}])
  BY DEF IInv, TypeOK
<1>1. CASE RecordEntry
  <2>1. /\ stage = "record" /\ stage' = "record" /\ round' = round + 1
        /\ round \in DOMAIN biosmap /\ biosmap' = biosmap
        /\ change_point' = change_point \o ChangePoints(biosmap, round)
    BY <1>0, <1>1 DEF RecordEntry
  <2>2. PICK new : new = change_point'
    OBVIOUS
  <2>3. PointsOf(change_point, biosmap, round - 1)
    BY <2>1 DEF PointsExact, Loops
  <2>4. PointsOf(new, biosmap, round)
    BY <1>0, <2>1, <2>2, <2>3, PointsAppended
  <2>5. round' - 1 = round
    BY <1>0, <2>1
  <2>6. PointsOf(change_point, biosmap, round - 1)'
    BY <2>1, <2>2, <2>4, <2>5
  <2> QED
    BY <2>1, <2>6 DEF PointsExact
<1>2. CASE SortPoint
  <2>1. /\ stage = "sort" /\ stage' = "sort" /\ biosmap' = biosmap
        /\ round \in DOMAIN change_point /\ round - 1 \in DOMAIN change_point
        /\ \/ change_point' = change_point
           \/ change_point' = [change_point EXCEPT ![round - 1] = change_point[round],
                                                   ![round] = change_point[round - 1]]
    <3>1. stage = "sort" /\ round >= 2 /\ round <= Len(change_point)
      BY <1>2 DEF IInv, SortedSoFar, SortPoint
    <3>2. round \in DOMAIN change_point /\ round - 1 \in DOMAIN change_point
      BY <1>0, <3>1
    <3> QED
      BY <1>2, <3>2 DEF SortPoint
  <2>2. PICK new : new = change_point'
    OBVIOUS
  <2>3. PointsOf(change_point, biosmap, Len(biosmap))
    BY <2>1 DEF PointsExact, Loops
  <2>4. PointsOf(new, biosmap, Len(biosmap))
    BY <2>1, <2>2, <2>3, PointsSwapped
  <2> QED
    BY <2>1, <2>2, <2>4 DEF PointsExact, PointsOf, Starts, Ends, End
<1>3. ASSUME UNCHANGED <<biosmap, change_point>>, stage \in {"sort", "sweep"},
             stage' \in {"sort", "sweep"}
      PROVE  PointsExact'
  BY <1>3 DEF PointsExact, PointsOf, Starts, Ends, End, Loops
<1>4. CASE InitBiosmap \/ EndSweep \/ CopyRound \/ EndCopy
  BY <1>4 DEF PointsExact, Loops, InitBiosmap, EndSweep, CopyRound, EndCopy
<1>5. CASE EndPass \/ SweepPoint
  <2>1. /\ stage \in {"sort", "sweep"} /\ UNCHANGED <<biosmap, change_point>>
        /\ stage' \in {"sort", "sweep"}
    BY <1>5 DEF EndPass, SweepPoint
  <2> QED
    BY <1>3, <2>1
<1>6. CASE CheckMap
  <2>1. /\ change_point' = <<>> /\ round' = 1 /\ biosmap' = biosmap
        /\ stage' \in Loops => stage' = "record"
    BY <1>6 DEF CheckMap, IInv, Untouched, Loops, locals
  <2>2. \A i \in DOMAIN biosmap : ~(i <= 0)
    BY <1>0
  <2> QED
    BY <2>1, <2>2 DEF PointsExact, PointsOf
<1>7. CASE StartSort
  <2>1. /\ stage = "record" /\ stage' = "sort" /\ round > Len(biosmap)
        /\ UNCHANGED <<biosmap, change_point>>
    BY <1>7 DEF StartSort, locals
  <2>2. \A i \in DOMAIN biosmap : i <= Len(biosmap) /\ i <= round - 1
    BY <1>0, <2>1
  <2>3. PointsOf(change_point, biosmap, round - 1)
    BY <2>1 DEF PointsExact, Loops
  <2>4. PointsOf(change_point, biosmap, Len(biosmap))
    BY <2>2, <2>3 DEF PointsOf
  <2> QED
    BY <2>1, <2>4 DEF PointsExact, PointsOf, Starts, Ends, End
<1>8. CASE UNCHANGED vars
  BY <1>8 DEF PointsExact, PointsOf, Starts, Ends, End, vars, locals
<1> QED
  BY <1>1, <1>2, <1>4, <1>5, <1>6, <1>7, <1>8 DEF Next

-----------------------------------------------------------------------------
(* The list holds the entries that are open.                               *)

\* Sorted points of a map in which entries meet in pairs.
Sweepable(points, map) ==
    /\ map \in Seq(Entry)
    /\ points \in Seq([addr : Nat, entry : Nat \ {0}])
    /\ PointsOf(points, map, Len(map))
    /\ MeetsInPairs(map)
    /\ \A k, l \in DOMAIN points :
          k <= l =>
              /\ points[k].addr <= points[l].addr
              /\ Starts(map, points[l]) /\ points[k].addr = points[l].addr
                    => Starts(map, points[k])

\* A point and its entry.
LEMMA PointFacts ==
    ASSUME NEW map, NEW points, Sweepable(points, map), NEW k \in DOMAIN points
    PROVE  /\ k \in Nat /\ points[k].addr \in Nat /\ points[k].entry \in DOMAIN map
           /\ map[points[k].entry].addr < End(map[points[k].entry])
           /\ \/ points[k].addr = map[points[k].entry].addr /\ Starts(map, points[k])
                    /\ ~Ends(map, points[k])
              \/ points[k].addr = End(map[points[k].entry]) /\ Ends(map, points[k])
                    /\ ~Starts(map, points[k])
<1> DEFINE i == points[k].entry
<1>1. /\ map \in Seq(Entry) /\ points \in Seq([addr : Nat, entry : Nat \ {0}])
      /\ i \in DOMAIN map /\ map[i].size # 0
      /\ Starts(map, points[k]) \/ Ends(map, points[k])
  BY DEF Sweepable, PointsOf
<1>2. k \in Nat /\ points[k].addr \in Nat
  BY <1>1, PointTypes
<1>3. /\ map[i].addr \in Nat /\ map[i].size \in Nat /\ End(map[i]) = map[i].addr + map[i].size
  BY <1>1, EntryTypes DEF End
<1>4. map[i].addr < End(map[i])
  BY <1>1, <1>3
<1>5. Starts(map, points[k]) <=> points[k].addr = map[i].addr
  BY DEF Starts
<1>6. Ends(map, points[k]) <=> points[k].addr = End(map[i])
  BY DEF Ends
<1>7. End(map[i]) # map[i].addr
  BY <1>3, <1>4
<1> QED
  BY <1>1, <1>2, <1>4, <1>5, <1>6, <1>7

\* Both ends of an entry that is not empty.
LEMMA PointsThere ==
    ASSUME NEW map, NEW points, Sweepable(points, map),
           NEW i \in DOMAIN map, map[i].size # 0
    PROVE  \E k, l \in DOMAIN points :
              /\ points[k].entry = i /\ Starts(map, points[k]) /\ points[k].addr = map[i].addr
              /\ points[l].entry = i /\ Ends(map, points[l]) /\ points[l].addr = End(map[i])
<1>1. map \in Seq(Entry) /\ PointsOf(points, map, Len(map)) /\ i <= Len(map)
  BY DEF Sweepable
<1>2. PICK k \in DOMAIN points : points[k].entry = i /\ Starts(map, points[k])
  BY <1>1 DEF PointsOf
<1>3. PICK l \in DOMAIN points : points[l].entry = i /\ Ends(map, points[l])
  BY <1>1 DEF PointsOf
<1> QED
  BY <1>2, <1>3 DEF Starts, Ends

\* An entry that is open meets the next point.
LEMMA OpenMeets ==
    ASSUME NEW map, NEW points, Sweepable(points, map), NEW n \in DOMAIN points,
           NEW i \in DOMAIN map, Open(points, map, n - 1, i)
    PROVE  map[i].size # 0 /\ map[i].addr <= points[n].addr /\ points[n].addr <= End(map[i])
<1>1. PICK k \in DOMAIN points : k <= n - 1 /\ points[k].entry = i /\ Starts(map, points[k])
  BY DEF Open
<1>2. k \in Nat /\ n \in Nat /\ k <= n
  BY <1>1, PointFacts
<1>3. map[i].size # 0 /\ map[i].addr <= points[n].addr
  <2>1. map[i].size # 0
    BY <1>1 DEF Sweepable, PointsOf
  <2>2. points[k].addr = map[i].addr
    BY <1>1 DEF Starts
  <2> QED
    BY <1>2, <2>1, <2>2 DEF Sweepable
<1>4. points[n].addr <= End(map[i])
  <2>1. PICK l \in DOMAIN points : /\ points[l].entry = i /\ Ends(map, points[l])
                                   /\ points[l].addr = End(map[i])
    BY <1>3, PointsThere
  <2>2. ~(l <= n - 1) /\ l \in Nat
    BY <2>1, PointFacts DEF Open
  <2>3. n <= l
    BY <1>2, <2>2
  <2> QED
    BY <2>1, <2>3 DEF Sweepable
<1> QED
  BY <1>3, <1>4

\* The entry of the next point, if it is a start, is not yet open; if it is an end, it is.
LEMMA NextOpen ==
    ASSUME NEW map, NEW points, Sweepable(points, map), NEW n \in DOMAIN points,
           NEW e, e = points[n].entry
    PROVE  /\ Starts(map, points[n]) => ~Open(points, map, n - 1, e) /\ Open(points, map, n, e)
           /\ ~Starts(map, points[n]) => Open(points, map, n - 1, e) /\ ~Open(points, map, n, e)
           /\ \A i \in DOMAIN map : i # e =>
                 (Open(points, map, n - 1, i) <=> Open(points, map, n, i))
<1>1. /\ points \in Seq([addr : Nat, entry : Nat \ {0}])
      /\ \A k, l \in DOMAIN points : points[k] = points[l] => k = l
      /\ \A k, l \in DOMAIN points : k <= l => points[k].addr <= points[l].addr
  BY DEF Sweepable, PointsOf
<1>2. /\ n \in Nat /\ e \in DOMAIN map /\ map[e].addr < End(map[e])
      /\ map[e].addr \in Nat /\ End(map[e]) \in Nat
  BY PointFacts, EntryTypes DEF Sweepable
<1>3. \A k, l \in DOMAIN points :
        points[k].entry = points[l].entry /\ points[k].addr = points[l].addr => k = l
  <2> DEFINE Point == [addr : Nat, entry : Nat \ {0}]
  <2>1. \A k \in DOMAIN points : points[k] \in Point
    <3>1. points \in Seq(Point)
      BY <1>1
    <3> HIDE DEF Point
    <3> QED
      BY <3>1
  <2>2. \A k \in DOMAIN points :
          points[k] = [addr |-> points[k].addr, entry |-> points[k].entry]
    BY <2>1
  <2> HIDE DEF Point
  <2>3. TAKE k, l \in DOMAIN points
  <2>4. HAVE points[k].entry = points[l].entry /\ points[k].addr = points[l].addr
  <2>5. points[k] = points[l]
    BY <2>2, <2>4, Zenon
  <2> QED
    BY <1>1, <2>5
<1>4. \A k \in DOMAIN points :
        /\ k \in Nat /\ points[k].addr \in Nat
        /\ points[k].entry = e /\ Starts(map, points[k]) => points[k].addr = map[e].addr
        /\ points[k].entry = e /\ Ends(map, points[k]) => points[k].addr = End(map[e])
  BY PointFacts DEF Starts, Ends
<1>5. ASSUME Starts(map, points[n])
      PROVE  ~Open(points, map, n - 1, e) /\ Open(points, map, n, e)
  <2>1. \A k \in DOMAIN points : k <= n - 1 => ~(points[k].entry = e /\ Starts(map, points[k]))
    BY <1>2, <1>3, <1>4, <1>5
  <2>2. \A k \in DOMAIN points : k <= n => ~(points[k].entry = e /\ Ends(map, points[k]))
    <3>1. TAKE k \in DOMAIN points
    <3>2. HAVE k <= n
    <3>3. points[k].addr <= points[n].addr /\ points[n].addr = map[e].addr
      BY <1>1, <1>4, <1>5, <3>2
    <3> QED
      BY <1>2, <1>4, <3>3
  <2>3. n <= n
    BY <1>2
  <2> QED
    BY <1>5, <2>1, <2>2, <2>3 DEF Open
<1>6. ASSUME ~Starts(map, points[n])
      PROVE  Open(points, map, n - 1, e) /\ ~Open(points, map, n, e)
  <2>1. Ends(map, points[n]) /\ points[n].addr = End(map[e])
    BY <1>6, PointFacts
  <2>2. PICK k \in DOMAIN points : /\ points[k].entry = e /\ Starts(map, points[k])
                                   /\ points[k].addr = map[e].addr
    <3>1. map[e].size # 0
      BY <1>2 DEF Sweepable, PointsOf
    <3> QED
      BY <1>2, <3>1, PointsThere
  <2>3. k <= n - 1
    <3>1. ~(n <= k)
      <4>1. ~(points[n].addr <= points[k].addr)
        BY <1>2, <2>1, <2>2
      <4> QED
        BY <1>1, <4>1
    <3> QED
      BY <1>2, <1>4, <3>1
  <2>4. \A l \in DOMAIN points : l <= n - 1 => ~(points[l].entry = e /\ Ends(map, points[l]))
    BY <1>2, <1>3, <1>4, <2>1
  <2>5. n <= n
    BY <1>2
  <2> QED
    BY <2>1, <2>2, <2>3, <2>4, <2>5 DEF Open
<1>7. \A i \in DOMAIN map : i # e => (Open(points, map, n - 1, i) <=> Open(points, map, n, i))
  <2>1. \A k \in DOMAIN points : k <= n <=> k <= n - 1 \/ k = n
    BY <1>2, <1>4
  <2> QED
    BY <2>1 DEF Open
<1> QED
  BY <1>5, <1>6, <1>7

LEMMA SeqOfOne ==
    ASSUME NEW S, NEW s \in [1 .. 1 -> S]
    PROVE  s \in Seq(S) /\ Len(s) <= 1
<1>1. ASSUME NEW n \in Nat, NEW f \in [1 .. n -> S] PROVE f \in Seq(S) /\ Len(f) = n
  BY <1>1
<1>2. s \in Seq(S) /\ Len(s) = 1
  BY <1>1
<1> QED
  BY <1>2

\* The round of the loop that handles point n keeps the list right.
LEMMA ListSwept ==
    ASSUME NEW map, NEW points, Sweepable(points, map), NEW n \in DOMAIN points,
           NEW list, ListOf(list, points, map, n - 1),
           NEW e, e = points[n].entry,
           NEW new, Starts(map, points[n]) => new = Append(list, e),
           ~Starts(map, points[n]) => new = RemoveEntry(list, e)
    PROVE  /\ ListOf(new, points, map, n)
           /\ Starts(map, points[n]) =>
                 \A i \in DOMAIN map : In(new, i) <=> In(list, i) \/ i = e
           /\ ~Starts(map, points[n]) =>
                 \A i \in DOMAIN map : In(new, i) <=> In(list, i) /\ i # e
<1>1. /\ list \in Seq(Nat \ {0}) /\ Len(list) <= 2
      /\ \A a, b \in DOMAIN list : list[a] = list[b] => a = b
      /\ \A a \in DOMAIN list : list[a] \in DOMAIN map
      /\ \A i \in DOMAIN map : In(list, i) <=> Open(points, map, n - 1, i)
  BY DEF ListOf
<1>2. e \in DOMAIN map /\ map \in Seq(Entry) /\ e \in Nat \ {0}
  <2>1. e \in DOMAIN map /\ map \in Seq(Entry)
    BY PointFacts DEF Sweepable
  <2> QED
    BY <2>1
<1>3. Len(list) \in Nat /\ DOMAIN list = 1 .. Len(list)
  BY <1>1
<1>4. CASE Starts(map, points[n])
  <2>1. new = Append(list, e)
    BY <1>4
  <2>2. ~In(list, e)
    BY <1>1, <1>2, <1>4, NextOpen
  <2>3. Len(list) <= 1
    <3>1. SUFFICES ASSUME Len(list) = 2 PROVE FALSE
      BY <1>1, <1>3
    <3> DEFINE x == points[n].addr
               I == {i \in DOMAIN map : map[i].size # 0 /\ map[i].addr <= x
                                             /\ x <= map[i].addr + map[i].size}
    <3>2. x \in Corners(map)
      <4>1. x = map[e].addr
        BY <1>4 DEF Starts
      <4> QED
        BY <1>2, <4>1 DEF Corners
    <3>3. \A i \in DOMAIN map : In(list, i) => i \in I
      BY <1>1, OpenMeets DEF End
    <3>4. e \in I
      <4>1. map[e].size # 0
        BY DEF Sweepable, PointsOf
      <4>2. map[e].addr \in Nat /\ map[e].size \in Nat /\ x = map[e].addr
        BY <1>2, <1>4, EntryTypes DEF Starts
      <4> QED
        BY <1>2, <4>1, <4>2
    <3>5. /\ 1 \in DOMAIN list /\ 2 \in DOMAIN list /\ list[1] # list[2]
      BY <1>1, <1>3, <3>1
    <3>6. list[1] \in I /\ list[2] \in I /\ list[1] # e /\ list[2] # e
      BY <1>1, <2>2, <3>3, <3>5 DEF In
    <3>7. MeetsInPairs(map)
      BY DEF Sweepable
    <3>8. I = {i \in DOMAIN map : map[i].size # 0 /\ map[i].addr <= x
                                            /\ x <= map[i].addr + map[i].size}
      OBVIOUS
    <3> HIDE DEF x, I
    <3>9. \A a, b, c \in I : a = b \/ a = c \/ b = c
      <4>1. TAKE a, b, c \in I
      <4> QED
        BY <1>2, <3>2, <3>7, <3>8, NoThird
    <3> QED
      BY <3>4, <3>5, <3>6, <3>9
  <2>4. /\ new \in Seq(Nat \ {0}) /\ Len(new) <= 2
        /\ DOMAIN new = DOMAIN list \cup {Len(list) + 1}
        /\ \A a \in DOMAIN list : new[a] = list[a]
        /\ new[Len(list) + 1] = e
    BY <1>1, <1>2, <1>3, <2>1, <2>3
  <2>5. \A i : In(new, i) <=> In(list, i) \/ i = e
    BY <2>4 DEF In
  <2>6. \A a, b \in DOMAIN new : new[a] = new[b] => a = b
    BY <1>1, <2>2, <2>4 DEF In
  <2>7. \A a \in DOMAIN new : new[a] \in DOMAIN map
    BY <1>1, <1>2, <2>4
  <2>8. \A i \in DOMAIN map : In(new, i) <=> Open(points, map, n, i)
    BY <1>1, <1>4, <2>5, NextOpen
  <2> QED
    BY <1>4, <2>4, <2>5, <2>6, <2>7, <2>8 DEF ListOf
<1>5. CASE ~Starts(map, points[n])
  <2>1. new = RemoveEntry(list, e)
    BY <1>5
  <2>2. In(list, e)
    BY <1>1, <1>2, <1>5, NextOpen
  <2>3. Len(list) = 1 \/ Len(list) = 2
    BY <1>1, <1>3, <2>2 DEF In
  <2>4. /\ new \in Seq(Nat \ {0}) /\ Len(new) <= 1
        /\ \A i : In(new, i) <=> In(list, i) /\ i # e
    <3>1. CASE Len(list) = 1
      <4>1. DOMAIN list = {1} /\ list[1] = e
        BY <1>3, <2>2, <3>1 DEF In
      <4>2. new = <<>>
        <5>1. Len(list) \div 2 = 0
          BY <3>1
        <5>2. 1 .. 0 = {}
          OBVIOUS
        <5> QED
          BY <2>1, <5>1, <5>2 DEF RemoveEntry
      <4>3. Len(new) = 0 /\ DOMAIN new = {} /\ new \in Seq(Nat \ {0})
        <5>1. \A S : <<>> \in Seq(S)
          OBVIOUS
        <5>2. Len(<<>>) = 0 /\ DOMAIN <<>> = {}
          OBVIOUS
        <5> QED
          BY <4>2, <5>1, <5>2, Zenon
      <4> QED
        BY <4>1, <4>3 DEF In
    <3>2. CASE Len(list) = 2
      <4>1. DOMAIN list = {1, 2} /\ list[1] # list[2] /\ (list[1] = e \/ list[2] = e)
        BY <1>1, <1>3, <2>2, <3>2 DEF In
      <4>2. PICK d : d \in {list[1], list[2]} /\ d # e
        BY <4>1
      <4>3. Len(list) \div 2 = 1
        BY <3>2
      <4>4. 1 .. 1 = {1} /\ 2 + 1 - 1 = 2
        OBVIOUS
      <4>5. new = [i \in 1 .. 1 |-> IF list[i] = e THEN list[2 + 1 - i] ELSE list[i]]
        BY <2>1, <3>2, <4>3 DEF RemoveEntry
      <4>6. DOMAIN new = {1} /\ new[1] = d
        BY <4>1, <4>2, <4>4, <4>5
      <4>7. d \in Nat \ {0}
        BY <1>1, <4>1, <4>2
      <4>8. new \in [1 .. 1 -> Nat \ {0}]
        BY <4>4, <4>5, <4>6, <4>7
      <4>9. new \in Seq(Nat \ {0}) /\ Len(new) <= 1
        BY <4>8, SeqOfOne
      <4>11. \A i : In(new, i) <=> i = d
        BY <4>6 DEF In
      <4>12. \A i : In(list, i) <=> i = e \/ i = d
        BY <4>1, <4>2 DEF In
      <4>13. \A i : In(new, i) <=> In(list, i) /\ i # e
        BY <4>2, <4>11, <4>12
      <4> QED
        BY <4>9, <4>13
    <3> QED
      BY <2>3, <3>1, <3>2
  <2>5. \A a, b \in DOMAIN new : new[a] = new[b] => a = b
    <3>1. \A a, b \in DOMAIN new : a = b
      BY <2>4
    <3> QED
      BY <3>1
  <2>6. \A a \in DOMAIN new : new[a] \in DOMAIN map
    <3>1. \A i : In(list, i) => i \in DOMAIN map
      BY <1>1 DEF In
    <3> QED
      BY <2>4, <3>1 DEF In
  <2>7. \A i \in DOMAIN map : In(new, i) <=> Open(points, map, n, i)
    BY <1>1, <1>5, <2>4, NextOpen
  <2>8. Len(new) <= 2
    BY <2>4
  <2> QED
    BY <1>5, <2>4, <2>5, <2>6, <2>7, <2>8 DEF ListOf
<1> QED
  BY <1>4, <1>5

-----------------------------------------------------------------------------
(* The table so far gives every byte its type.                             *)

\* What IInv says of the table and of the entry that is open.
Building(table, open, points, n) ==
    /\ table \in Seq(Entry) /\ Ordered(table)
    /\ open.type \in Nat /\ open.addr \in Nat /\ open.addr <= At(points, n)
    /\ Below(table, IF open.type = 0 THEN At(points, n) ELSE open.addr)

\* What the round of the loop that handles point p does.
SweepRound(p, map, table, open, list, newTable, newOpen, newList) ==
    /\ newList = IF Starts(map, p) THEN Append(list, p.entry) ELSE RemoveEntry(list, p.entry)
    /\ IF TypeOf(map, newList) = open.type THEN newTable = table /\ newOpen = open
       ELSE /\ newTable = Closed(table, open.type, open.addr, p.addr)
            /\ newOpen.type = TypeOf(map, newList)
            /\ newOpen.type # 0 => newOpen.addr = p.addr

\* Up to the next point the bytes are of the type of the list.
LEMMA TypeBetween ==
    ASSUME NEW map, NEW points, Sweepable(points, map), NEW n \in 0 .. Len(points),
           NEW list, ListOf(list, points, map, n),
           NEW x \in Nat, At(points, n) <= x, n < Len(points) => x < points[n + 1].addr
    PROVE  TypeAt(map, x) = TypeOf(map, list)
<1>1. /\ map \in Seq(Entry) /\ DOMAIN points = 1 .. Len(points) /\ Len(points) \in Nat
      /\ \A k, l \in DOMAIN points : k <= l => points[k].addr <= points[l].addr
  BY DEF Sweepable
<1>2. \A k \in DOMAIN points : k \in Nat /\ points[k].addr \in Nat
  BY PointFacts
<1>3. \A k \in DOMAIN points : k <= n => points[k].addr <= x
  <2>1. TAKE k \in DOMAIN points
  <2>2. HAVE k <= n
  <2>3. n \in DOMAIN points /\ n # 0
    BY <1>1, <2>2
  <2>4. points[k].addr <= points[n].addr /\ points[n].addr <= x
    BY <1>1, <2>2, <2>3 DEF At
  <2> QED
    BY <1>2, <2>3, <2>4
<1>4. \A k \in DOMAIN points : n < k => x < points[k].addr
  <2>1. TAKE k \in DOMAIN points
  <2>2. HAVE n < k
  <2>3. n < Len(points) /\ n + 1 \in DOMAIN points /\ n + 1 <= k
    BY <1>1, <2>2
  <2>4. x < points[n + 1].addr /\ points[n + 1].addr <= points[k].addr
    BY <1>1, <2>3
  <2> QED
    BY <1>2, <2>3, <2>4
<1>5. ASSUME NEW i \in DOMAIN map PROVE Open(points, map, n, i) <=> Covers(map[i], x)
  <2>1. map[i].addr \in Nat /\ map[i].size \in Nat /\ End(map[i]) = map[i].addr + map[i].size
    BY <1>1, EntryTypes DEF End
  <2>2. CASE map[i].size = 0
    <3>1. \A k \in DOMAIN points : points[k].entry # i
      BY <2>2 DEF Sweepable, PointsOf
    <3> QED
      BY <2>1, <2>2, <3>1 DEF Open, Covers
  <2>3. CASE map[i].size # 0
    <3>1. PICK k, l \in DOMAIN points :
            /\ points[k].entry = i /\ Starts(map, points[k]) /\ points[k].addr = map[i].addr
            /\ points[l].entry = i /\ Ends(map, points[l]) /\ points[l].addr = End(map[i])
      BY <2>3, PointsThere
    <3>2. ASSUME Open(points, map, n, i) PROVE Covers(map[i], x)
      <4>1. PICK m \in DOMAIN points : m <= n /\ points[m].entry = i /\ Starts(map, points[m])
        BY <3>2 DEF Open
      <4>2. map[i].addr <= x
        BY <1>3, <4>1 DEF Starts
      <4>3. ~(l <= n)
        BY <3>1, <3>2 DEF Open
      <4>4. n < l
        BY <1>2, <4>3
      <4>5. x < End(map[i])
        BY <1>4, <3>1, <4>4
      <4> QED
        BY <2>1, <4>2, <4>5 DEF Covers
    <3>3. ASSUME Covers(map[i], x) PROVE Open(points, map, n, i)
      <4>1. map[i].addr <= x /\ x < End(map[i])
        BY <2>1, <3>3 DEF Covers
      <4>2. k <= n
        <5>1. ~(n < k)
          BY <1>2, <1>4, <2>1, <3>1, <4>1
        <5> QED
          BY <1>2, <5>1
      <4>3. \A m \in DOMAIN points : m <= n => ~(points[m].entry = i /\ Ends(map, points[m]))
        BY <1>2, <1>3, <2>1, <4>1 DEF Ends
      <4> QED
        BY <3>1, <4>2, <4>3 DEF Open
    <3> QED
      BY <3>2, <3>3
  <2> QED
    BY <2>2, <2>3
<1>6. \A i \in DOMAIN map : In(list, i) <=> Covers(map[i], x)
  BY <1>5 DEF ListOf
<1>7. \A a \in DOMAIN list : list[a] \in DOMAIN map
  BY DEF ListOf
<1> QED
  BY <1>6, <1>7, TypeOfOver

\* The order of neighbouring points.
LEMMA AtNext ==
    ASSUME NEW map, NEW points, Sweepable(points, map), NEW n \in DOMAIN points
    PROVE  /\ n \in Nat \ {0} /\ n - 1 \in 0 .. Len(points)
           /\ At(points, n - 1) \in Nat /\ points[n].addr \in Nat
           /\ At(points, n) = points[n].addr
           /\ At(points, n - 1) <= points[n].addr
<1>1. /\ points \in Seq([addr : Nat, entry : Nat \ {0}])
      /\ \A k, l \in DOMAIN points : k <= l => points[k].addr <= points[l].addr
  BY DEF Sweepable
<1>2. DOMAIN points = 1 .. Len(points) /\ Len(points) \in Nat
  BY <1>1
<1>3. n \in Nat \ {0} /\ n - 1 \in 0 .. Len(points) /\ (n # 1 => n - 1 \in DOMAIN points)
  BY <1>2
<1>4. points[n].addr \in Nat
  BY PointFacts
<1>5. CASE n = 1
  BY <1>3, <1>4, <1>5 DEF At
<1>6. CASE n # 1
  <2>1. points[n - 1].addr \in Nat /\ points[n - 1].addr <= points[n].addr
    <3>1. PICK m \in DOMAIN points : m = n - 1 /\ m <= n
      BY <1>3, <1>6
    <3>2. points[m].addr \in Nat
      BY PointFacts
    <3> QED
      BY <1>1, <3>1, <3>2
  <2> QED
    BY <1>3, <1>4, <1>6, <2>1 DEF At
<1> QED
  BY <1>5, <1>6

\* Closing the entry that is open changes the type of no byte before its end.
LEMMA ClosedTypes ==
    ASSUME NEW table \in Seq(Entry), NEW open, NEW end \in Nat,
           open.type \in Nat, open.addr \in Nat, open.addr <= end,
           NEW new, new = Closed(table, open.type, open.addr, end), new \in Seq(Entry),
           Ordered(new), NEW x \in Nat, x < end
    PROVE  TypeAt(new, x) = SoFar(table, open, x)
<1>1. CASE open.type = 0
  BY <1>1 DEF Closed, SoFar
<1>2. CASE open.type # 0 /\ open.addr = end
  BY <1>2 DEF Closed, SoFar
<1>3. CASE open.type # 0 /\ open.addr # end
  <2>1. PICK a \in Nat, z \in Nat, t \in Nat \ {0} :
          a = open.addr /\ z = end - open.addr /\ t = open.type /\ a + z = end
    BY <1>3
  <2>2. PICK e : e = [addr |-> a, size |-> z, type |-> t]
    OBVIOUS
  <2>3. e \in Entry /\ e.addr = a /\ e.size = z /\ e.type = t
    BY <2>2 DEF Entry
  <2>4. new = Append(table, e)
    BY <1>3, <2>1, <2>2 DEF Closed
  <2>5. Len(table) + 1 \in DOMAIN new /\ new[Len(table) + 1] = e
    BY <2>3, <2>4
  <2>6. CASE a <= x
    <3>1. Covers(e, x)
      BY <2>1, <2>3, <2>6 DEF Covers
    <3>2. TypeAt(new, x) = e.type
      BY <2>5, <3>1, OneThere
    <3> QED
      BY <1>3, <2>1, <2>3, <2>6, <3>2 DEF SoFar
  <2>7. CASE ~(a <= x)
    <3>1. ~Covers(e, x)
      BY <2>3, <2>7 DEF Covers
    <3>2. TypeAt(new, x) = TypeAt(table, x)
      BY <2>3, <2>4, <3>1, TypeKept
    <3> QED
      BY <2>1, <2>7, <3>2 DEF SoFar
  <2> QED
    BY <2>6, <2>7
<1> QED
  BY <1>1, <1>2, <1>3

LEMMA TypesSwept ==
    ASSUME NEW map, NEW points, Sweepable(points, map), NEW n \in DOMAIN points,
           NEW table, NEW open, NEW list,
           Building(table, open, points, n - 1),
           Swept(table, open, list, points, map, n - 1),
           NEW newTable, NEW newOpen, NEW newList,
           SweepRound(points[n], map, table, open, list, newTable, newOpen, newList),
           newTable \in Seq(Entry), Ordered(newTable)
    PROVE  SweptTypes(newTable, newOpen, points, map, n)
<1> DEFINE a == points[n].addr
           r == At(points, n - 1)
<1>1. /\ n - 1 \in 0 .. Len(points) /\ n \in Nat \ {0}
      /\ r \in Nat /\ a \in Nat /\ At(points, n) = a /\ r <= a
  BY AtNext
<1>2. /\ table \in Seq(Entry) /\ Ordered(table)
      /\ open.type \in Nat /\ open.addr \in Nat /\ open.addr <= r
      /\ Below(table, IF open.type = 0 THEN r ELSE open.addr)
  BY DEF Building
<1>3. /\ ListOf(list, points, map, n - 1) /\ open.type = TypeOf(map, list)
      /\ \A x \in Nat : x < r => SoFar(table, open, x) = TypeAt(map, x)
  BY DEF Swept, SweptTypes
<1>4. SUFFICES ASSUME NEW x \in Nat, x < a
               PROVE  SoFar(newTable, newOpen, x) = TypeAt(map, x)
  BY <1>1 DEF SweptTypes
<1>5. SoFar(table, open, x) = TypeAt(map, x)
  <2>1. CASE x < r
    BY <1>3, <2>1
  <2>2. CASE ~(x < r)
    <3>1. r <= x
      BY <1>1, <2>2
    <3>2. n - 1 < Len(points) => x < points[(n - 1) + 1].addr
      <4>1. (n - 1) + 1 = n
        BY <1>1
      <4> QED
        BY <1>4, <4>1
    <3>3. TypeAt(map, x) = open.type
      <4>1. TypeAt(map, x) = TypeOf(map, list)
        BY <1>1, <1>3, <3>1, <3>2, TypeBetween
      <4> QED
        BY <1>3, <4>1
    <3>4. CASE open.type # 0
      BY <1>1, <1>2, <3>1, <3>3, <3>4 DEF SoFar
    <3>5. CASE open.type = 0
      <4>1. TypeAt(table, x) = 0
        BY <1>1, <1>2, <3>1, <3>5, NothingThere
      <4> QED
        BY <3>3, <3>5, <4>1 DEF SoFar
    <3> QED
      BY <3>4, <3>5
  <2> QED
    BY <2>1, <2>2
<1>6. CASE TypeOf(map, newList) = open.type
  BY <1>5, <1>6 DEF SweepRound
<1>7. CASE TypeOf(map, newList) # open.type
  <2>1. newTable = Closed(table, open.type, open.addr, a)
    BY <1>7 DEF SweepRound
  <2>2. TypeAt(newTable, x) = SoFar(table, open, x)
    <3>1. open.addr <= a
      BY <1>1, <1>2
    <3> HIDE DEF a
    <3>2. a \in Nat /\ x < a
      BY <1>1, <1>4 DEF a
    <3> QED
      BY <1>2, <2>1, <3>1, <3>2, ClosedTypes
  <2>3. newOpen.type # 0 => newOpen.addr = a
    BY <1>7 DEF SweepRound
  <2>4. SoFar(newTable, newOpen, x) = TypeAt(newTable, x)
    BY <1>1, <1>4, <2>3 DEF SoFar
  <2> QED
    BY <1>5, <2>2, <2>4
<1> QED
  BY <1>6, <1>7

-----------------------------------------------------------------------------
(* Entries that touch differ in type.                                      *)

\* A start can only raise the type, to that of its entry, and an end can only lower it.
LEMMA TypeSwept ==
    ASSUME NEW map, NEW points, Sweepable(points, map), NEW n \in DOMAIN points,
           NEW list, ListOf(list, points, map, n - 1),
           NEW e, e = points[n].entry,
           NEW new, Starts(map, points[n]) => new = Append(list, e),
           ~Starts(map, points[n]) => new = RemoveEntry(list, e)
    PROVE  /\ TypeOf(map, new) \in Nat
           /\ Starts(map, points[n]) =>
                 /\ TypeOf(map, list) <= TypeOf(map, new)
                 /\ TypeOf(map, new) # TypeOf(map, list) => TypeOf(map, new) = map[e].type
           /\ ~Starts(map, points[n]) => TypeOf(map, new) <= TypeOf(map, list)
<1>1. /\ ListOf(new, points, map, n)
      /\ Starts(map, points[n]) => \A i \in DOMAIN map : In(new, i) <=> In(list, i) \/ i = e
      /\ ~Starts(map, points[n]) => \A i \in DOMAIN map : In(new, i) <=> In(list, i) /\ i # e
  BY ListSwept
<1>2. PICK old : old = TypeOf(map, list)
  OBVIOUS
<1>3. PICK type : type = TypeOf(map, new)
  OBVIOUS
<1>4. map \in Seq(Entry) /\ e \in DOMAIN map
  BY PointFacts DEF Sweepable
<1>5. /\ old \in Nat
      /\ \A i \in DOMAIN map : In(list, i) => map[i].type <= old
      /\ old # 0 => \E i \in DOMAIN map : In(list, i) /\ map[i].type = old
  <2>1. list \in Seq(Nat \ {0}) /\ \A a \in DOMAIN list : list[a] \in DOMAIN map
    BY DEF ListOf
  <2> QED
    BY <1>2, <1>4, <2>1, TypeOfBounds
<1>6. /\ type \in Nat
      /\ \A i \in DOMAIN map : In(new, i) => map[i].type <= type
      /\ type # 0 => \E i \in DOMAIN map : In(new, i) /\ map[i].type = type
  <2>1. new \in Seq(Nat \ {0}) /\ \A a \in DOMAIN new : new[a] \in DOMAIN map
    BY <1>1 DEF ListOf
  <2> QED
    BY <1>3, <1>4, <2>1, TypeOfBounds
<1>7. ASSUME Starts(map, points[n]) PROVE old <= type /\ (type # old => type = map[e].type)
  <2>1. old <= type
    <3>1. CASE old = 0
      BY <1>6, <3>1
    <3>2. CASE old # 0
      BY <1>1, <1>5, <1>6, <1>7, <3>2
    <3> QED
      BY <3>1, <3>2
  <2>2. ASSUME type # old PROVE type = map[e].type
    <3>1. type # 0
      BY <1>5, <1>6, <2>1, <2>2
    <3>2. PICK i \in DOMAIN map : In(new, i) /\ map[i].type = type
      BY <1>6, <3>1
    <3>3. ~In(list, i)
      BY <1>5, <1>6, <2>1, <2>2, <3>2
    <3> QED
      BY <1>1, <1>7, <3>2, <3>3
  <2> QED
    BY <2>1, <2>2
<1>8. ASSUME ~Starts(map, points[n]) PROVE type <= old
  <2>1. CASE type = 0
    BY <1>5, <2>1
  <2>2. CASE type # 0
    BY <1>1, <1>5, <1>6, <1>8, <2>2
  <2> QED
    BY <2>1, <2>2
<1> QED
  BY <1>2, <1>3, <1>6, <1>7, <1>8

\* Behind an end no entry starts at its address.
LEMMA EndsLast ==
    ASSUME NEW map, NEW points, Sweepable(points, map), NEW n \in DOMAIN points,
           ~Starts(map, points[n]), NEW x \in Nat, x <= points[n].addr
    PROVE  NoStartTo(x, points, map, n)
<1>1. SUFFICES ASSUME NEW k \in DOMAIN points, n < k, Starts(map, points[k])
               PROVE  x < points[k].addr
  BY DEF NoStartTo
<1>2. k \in Nat /\ n \in Nat /\ points[k].addr \in Nat /\ points[n].addr \in Nat
  BY PointFacts
<1>3. points[n].addr <= points[k].addr /\ points[n].addr # points[k].addr
  <2>1. n <= k
    BY <1>1, <1>2
  <2> QED
    BY <1>1, <2>1 DEF Sweepable
<1> QED
  BY <1>2, <1>3

LEMMA StartsLater ==
    ASSUME NEW map, NEW points, Sweepable(points, map), NEW n \in DOMAIN points,
           NEW x, NoStartTo(x, points, map, n - 1)
    PROVE  NoStartTo(x, points, map, n) /\ (Starts(map, points[n]) => x < points[n].addr)
<1>1. \A k \in DOMAIN points : k \in Nat
  BY PointFacts
<1>2. n - 1 < n /\ \A k \in DOMAIN points : n < k => n - 1 < k
  BY <1>1
<1> QED
  BY <1>2 DEF NoStartTo

LEMMA MergeSwept ==
    ASSUME NEW map, NEW points, Sweepable(points, map), NEW n \in DOMAIN points,
           NEW table, NEW open, NEW list,
           Building(table, open, points, n - 1),
           Swept(table, open, list, points, map, n - 1),
           NEW newTable, NEW newOpen, NEW newList,
           SweepRound(points[n], map, table, open, list, newTable, newOpen, newList)
    PROVE  NothingToMerge(newTable, newOpen, newList, points, map, n)
<1>1. PICK p : p = points[n]
  OBVIOUS
<1>2. PICK e : e = p.entry
  OBVIOUS
<1>3. PICK a : a = p.addr
  OBVIOUS
<1>4. PICK r : r = At(points, n - 1)
  OBVIOUS
<1>5. PICK type : type = TypeOf(map, newList)
  OBVIOUS
<1>6. r \in Nat /\ a \in Nat /\ r <= a /\ At(points, n) = a
  BY <1>1, <1>3, <1>4, AtNext
<1>7. /\ table \in Seq(Entry)
      /\ open.type \in Nat /\ open.addr \in Nat /\ open.addr <= r
      /\ Below(table, IF open.type = 0 THEN r ELSE open.addr)
  BY <1>4 DEF Building
<1>8. /\ ListOf(list, points, map, n - 1) /\ open.type = TypeOf(map, list)
      /\ Differ(table)
      /\ \A k \in DOMAIN table : k = Len(table) => Apart(table[k], open, list, points, map, n - 1)
  BY DEF Swept, NothingToMerge
<1>9. /\ Starts(map, points[n]) => newList = Append(list, e)
      /\ ~Starts(map, points[n]) => newList = RemoveEntry(list, e)
      /\ type = open.type => newTable = table /\ newOpen = open
      /\ type # open.type => /\ newTable = Closed(table, open.type, open.addr, a)
                             /\ newOpen.type = type
                             /\ type # 0 => newOpen.addr = a
  BY <1>1, <1>2, <1>3, <1>5 DEF SweepRound
<1>10. /\ Starts(map, p) => \A i \in DOMAIN map : In(newList, i) <=> In(list, i) \/ i = e
       /\ ~Starts(map, p) => \A i \in DOMAIN map : In(newList, i) <=> In(list, i) /\ i # e
  BY <1>1, <1>2, <1>8, <1>9, ListSwept
<1>11. /\ type \in Nat
       /\ Starts(map, p) => open.type <= type /\ (type # open.type => type = map[e].type)
       /\ ~Starts(map, p) => type <= open.type
  BY <1>1, <1>2, <1>5, <1>8, <1>9, TypeSwept
<1>12. \A i \in DOMAIN map : In(newList, i) => map[i].type <= type
  <2>1. ListOf(newList, points, map, n)
    BY <1>1, <1>2, <1>8, <1>9, ListSwept
  <2>2. map \in Seq(Entry) /\ newList \in Seq(Nat \ {0})
        /\ \A k \in DOMAIN newList : newList[k] \in DOMAIN map
    BY <2>1 DEF ListOf, Sweepable
  <2> QED
    BY <1>5, <2>2, TypeOfBounds
<1>13. /\ e \in DOMAIN map
       /\ Starts(map, p) => map[e].addr = a
       /\ ~Starts(map, p) => map[e].addr # a
  <2>1. e \in DOMAIN map
    BY <1>1, <1>2, PointFacts
  <2> QED
    BY <1>1, <1>2, <1>3, <2>1 DEF Starts
<1>14. \A x \in Nat : ~Starts(map, p) /\ x <= a => NoStartTo(x, points, map, n)
  BY <1>1, <1>3, EndsLast
<1>15. \A x : NoStartTo(x, points, map, n - 1) =>
                 NoStartTo(x, points, map, n) /\ (Starts(map, p) => x < a)
  BY <1>1, <1>3, StartsLater
<1>16. \A k \in DOMAIN table : End(table[k]) \in Nat
  BY <1>7, EntryTypes
\* The type stays.
<1>17. CASE type = open.type
  <2>1. newTable = table /\ newOpen = open
    BY <1>9, <1>17
  <2>2. ASSUME NEW f, Apart(f, open, list, points, map, n - 1)
        PROVE  Apart(f, open, newList, points, map, n)
    <3>1. open.type = 0 => NoStartTo(End(f), points, map, n)
      BY <1>15, <2>2 DEF Apart
    <3>2. ASSUME open.type # 0, End(f) = open.addr, open.addr = a
          PROVE  Rises(f.type, open, newList, map) \/ Falls(f.type, open, points, map, n)
      <4>1. open.addr = r
        BY <1>6, <1>7, <3>2
      <4>2. \/ Rises(f.type, open, list, map)
            \/ Falls(f.type, open, points, map, n - 1)
        BY <1>4, <2>2, <3>2, <4>1 DEF Apart
      <4>3. \A i \in DOMAIN map : In(list, i) /\ map[i].addr = a => In(newList, i)
        BY <1>10, <1>13
      <4>4. Rises(f.type, open, list, map) => Rises(f.type, open, newList, map)
        BY <3>2, <4>3 DEF Rises
      <4>5. Falls(f.type, open, points, map, n - 1) => Falls(f.type, open, points, map, n)
        BY <1>15 DEF Falls
      <4> QED
        BY <4>2, <4>4, <4>5
    <3> QED
      BY <1>6, <2>2, <3>1, <3>2 DEF Apart
  <2> QED
    BY <1>8, <2>1, <2>2 DEF NothingToMerge
\* No entry is open.
<1>18. CASE type # open.type /\ open.type = 0
  <2>1. newTable = table /\ newOpen.type = type /\ type # 0 /\ newOpen.addr = a /\ Starts(map, p)
    BY <1>9, <1>11, <1>18 DEF Closed
  <2>2. ASSUME NEW k \in DOMAIN table, k = Len(table)
        PROVE  Apart(table[k], newOpen, newList, points, map, n)
    <3>1. End(table[k]) < a
      BY <1>8, <1>15, <1>18, <2>1, <2>2 DEF Apart
    <3>2. End(table[k]) # a
      BY <1>6, <1>16, <3>1
    <3> QED
      BY <2>1, <3>2 DEF Apart
  <2> QED
    BY <1>8, <2>1, <2>2 DEF NothingToMerge
\* The entry that is open is empty.
<1>19. CASE type # open.type /\ open.type # 0 /\ open.addr = a
  <2>1. newTable = table /\ newOpen.type = type /\ (type # 0 => newOpen.addr = a)
    BY <1>9, <1>19 DEF Closed
  <2>2. r = a
    BY <1>6, <1>7, <1>19
  <2>3. ASSUME NEW k \in DOMAIN table, k = Len(table)
        PROVE  Apart(table[k], newOpen, newList, points, map, n)
    <3> DEFINE f == table[k]
    <3>1. f.type \in Nat /\ End(f) \in Nat /\ End(f) <= a
      BY <1>7, <1>19, EntryTypes DEF Below
    <3>2. type = 0 => NoStartTo(End(f), points, map, n)
      BY <1>7, <1>11, <1>14, <1>19, <3>1
    <3>3. ASSUME type # 0, End(f) = a
          PROVE  /\ f.type # type
                 /\ Rises(f.type, newOpen, newList, map) \/ Falls(f.type, newOpen, points, map, n)
      <4>1. Rises(f.type, open, list, map) \/ Falls(f.type, open, points, map, n - 1)
        BY <1>4, <1>8, <1>19, <2>2, <2>3, <3>3 DEF Apart
      <4>2. CASE Starts(map, p)
        <5>1. ~Falls(f.type, open, points, map, n - 1)
          BY <1>6, <1>15, <1>19, <4>2 DEF Falls
        <5>2. f.type < open.type /\ open.type <= type /\ type = map[e].type
          BY <1>11, <1>19, <4>1, <4>2, <5>1 DEF Rises
        <5>3. f.type < type
          BY <1>7, <1>11, <3>1, <5>2
        <5>4. In(newList, e)
          BY <1>10, <1>13, <4>2
        <5>5. Rises(f.type, newOpen, newList, map)
          BY <1>13, <2>1, <3>3, <4>2, <5>2, <5>3, <5>4 DEF Rises
        <5> QED
          BY <1>11, <3>1, <5>3, <5>5
      <4>3. CASE ~Starts(map, p)
        <5>1. type < open.type
          BY <1>7, <1>11, <1>19, <4>3
        <5>2. ~Rises(f.type, open, list, map)
          <6>1. SUFFICES ASSUME NEW i \in DOMAIN map, In(list, i), map[i].addr = a,
                                map[i].type = open.type
                         PROVE  FALSE
            BY <1>19 DEF Rises
          <6>2. In(newList, i)
            BY <1>10, <1>13, <4>3, <6>1
          <6>3. open.type <= type
            BY <1>12, <6>1, <6>2
          <6> QED
            BY <1>7, <1>11, <5>1, <6>3
        <5>3. open.type < f.type
          BY <4>1, <5>2 DEF Falls
        <5>4. type < f.type
          BY <1>7, <1>11, <3>1, <5>1, <5>3
        <5>5. NoStartTo(a, points, map, n)
          BY <1>6, <1>14, <4>3
        <5>6. Falls(f.type, newOpen, points, map, n)
          BY <2>1, <3>3, <5>4, <5>5 DEF Falls
        <5> QED
          BY <1>11, <3>1, <5>4, <5>6
      <4> QED
        BY <4>2, <4>3
    <3> HIDE DEF f
    <3>4. Apart(f, newOpen, newList, points, map, n)
      BY <2>1, <3>2, <3>3 DEF Apart
    <3> QED
      BY <3>4 DEF f
  <2> QED
    BY <1>8, <2>1, <2>3 DEF NothingToMerge
\* The entry that is open is closed.
<1>20. CASE type # open.type /\ open.type # 0 /\ open.addr # a
  <2>1. PICK b \in Nat, z \in Nat, t \in Nat \ {0} :
          b = open.addr /\ z = a - open.addr /\ t = open.type /\ b + z = a
    BY <1>6, <1>7, <1>20
  <2>2. PICK f : f = [addr |-> b, size |-> z, type |-> t]
    OBVIOUS
  <2>3. f \in Entry /\ f.addr = b /\ f.type = t /\ End(f) = a
    BY <2>1, <2>2 DEF Entry, End
  <2>4. newTable = Append(table, f) /\ newOpen.type = type /\ (type # 0 => newOpen.addr = a)
    BY <1>9, <1>20, <2>1, <2>2 DEF Closed
  <2>5. PICK m \in Nat :
          /\ m = Len(table) /\ DOMAIN table = 1 .. m
          /\ Len(newTable) = m + 1 /\ DOMAIN newTable = 1 .. m + 1
          /\ newTable[m + 1] = f /\ \A k \in 1 .. m : newTable[k] = table[k]
    BY <1>7, <2>3, <2>4
  <2>6. Differ(newTable)
    <3>1. SUFFICES ASSUME NEW i \in 1 .. m + 1, NEW j \in 1 .. m + 1, j = i + 1,
                          End(newTable[i]) = newTable[j].addr
                   PROVE  newTable[i].type # newTable[j].type
      BY <2>5 DEF Differ
    <3>2. i \in 1 .. m /\ newTable[i] = table[i]
      BY <2>5, <3>1
    <3>3. CASE j = m + 1
      <4>1. i = m /\ Apart(table[i], open, list, points, map, n - 1)
        BY <1>8, <2>5, <3>1, <3>2, <3>3
      <4>2. End(table[i]) = open.addr
        BY <2>1, <2>3, <2>5, <3>1, <3>2, <3>3
      <4> QED
        BY <1>20, <2>1, <2>3, <2>5, <3>2, <3>3, <4>1, <4>2 DEF Apart
    <3>4. CASE j # m + 1
      <4>1. j \in 1 .. m /\ newTable[j] = table[j]
        BY <2>5, <3>1, <3>4
      <4> QED
        BY <1>8, <2>5, <3>1, <3>2, <4>1 DEF Differ
    <3> QED
      BY <3>3, <3>4
  <2>7. Apart(f, newOpen, newList, points, map, n)
    <3>1. type = 0 => NoStartTo(End(f), points, map, n)
      BY <1>6, <1>7, <1>11, <1>14, <1>20, <2>3
    <3>2. ASSUME type # 0
          PROVE  Rises(f.type, newOpen, newList, map) \/ Falls(f.type, newOpen, points, map, n)
      <4>1. CASE Starts(map, p)
        <5>1. t < type /\ type = map[e].type
          BY <1>7, <1>11, <1>20, <2>1, <4>1
        <5>2. In(newList, e)
          BY <1>10, <1>13, <4>1
        <5> QED
          BY <1>13, <2>3, <2>4, <3>2, <4>1, <5>1, <5>2 DEF Rises
      <4>2. CASE ~Starts(map, p)
        <5>1. type < t
          BY <1>7, <1>11, <1>20, <2>1, <4>2
        <5>2. NoStartTo(a, points, map, n)
          BY <1>6, <1>14, <4>2
        <5> QED
          BY <2>3, <2>4, <3>2, <5>1, <5>2 DEF Falls
      <4> QED
        BY <4>1, <4>2
    <3> QED
      BY <1>20, <2>1, <2>3, <2>4, <3>1, <3>2 DEF Apart
  <2> QED
    BY <2>5, <2>6, <2>7 DEF NothingToMerge
<1> QED
  BY <1>17, <1>18, <1>19, <1>20

-----------------------------------------------------------------------------
(* Maps in which entries meet in pairs.                                    *)

\* Before the first point nothing is open.
LEMMA NothingSwept ==
    ASSUME NEW map, NEW points, Sweepable(points, map),
           NEW list, list = <<>>, NEW table, table = <<>>, NEW open, open.type = 0
    PROVE  Swept(table, open, list, points, map, 0)
<1>1. \A k \in DOMAIN points : ~(k <= 0)
  BY DEF Sweepable
<1>2. \A i \in DOMAIN map : ~Open(points, map, 0, i)
  BY <1>1 DEF Open
<1>3. list \in Seq(Nat \ {0}) /\ Len(list) <= 2 /\ DOMAIN list = {}
  <2>1. \A S : <<>> \in Seq(S)
    OBVIOUS
  <2>2. Len(<<>>) <= 2 /\ DOMAIN <<>> = {}
    OBVIOUS
  <2> QED
    BY <2>1, <2>2, Zenon
<1>4. ListOf(list, points, map, 0)
  BY <1>2, <1>3 DEF ListOf, In
<1>5. TypeOf(map, list) = 0
  <2>1. map \in Seq(Entry)
    BY DEF Sweepable
  <2>2. \A a \in DOMAIN list : list[a] \in DOMAIN map
    BY <1>3
  <2>3. TypeOf(map, list) # 0 => \E i \in DOMAIN map : In(list, i)
    BY <1>3, <2>1, <2>2, TypeOfBounds
  <2> QED
    BY <1>3, <2>3 DEF In
<1>6. SweptTypes(table, open, points, map, 0)
  BY DEF SweptTypes, At
<1>7. NothingToMerge(table, open, list, points, map, 0)
  BY DEF NothingToMerge, Differ
<1> QED
  BY <1>4, <1>5, <1>6, <1>7 DEF Swept

\* The last round: a table that is not full has all bytes' types.
LEMMA AllSwept ==
    ASSUME NEW map, NEW points, Sweepable(points, map), NEW n \in 0 .. Len(points),
           NEW table, NEW open, NEW list,
           Building(table, open, points, n), Swept(table, open, list, points, map, n),
           Len(table) <= E820MAX, n < Len(points) => Full(table),
           NEW x \in Nat, Tells(table, x)
    PROVE  TypeAt(table, x) = TypeAt(map, x)
<1>1. PICK r : r = At(points, n)
  OBVIOUS
<1>2. /\ table \in Seq(Entry)
      /\ open.type \in Nat /\ open.addr \in Nat /\ open.addr <= r
      /\ Below(table, IF open.type = 0 THEN r ELSE open.addr)
  BY <1>1 DEF Building
<1>3. /\ ListOf(list, points, map, n) /\ open.type = TypeOf(map, list)
      /\ x < r => SoFar(table, open, x) = TypeAt(map, x)
  BY <1>1 DEF Swept, SweptTypes
<1>4. /\ r \in Nat /\ Len(points) \in Nat /\ n \in Nat
      /\ DOMAIN points = 1 .. Len(points)
  <2>1. Len(points) \in Nat /\ DOMAIN points = 1 .. Len(points)
    BY DEF Sweepable
  <2>2. n # 0 => n \in DOMAIN points
    BY <2>1
  <2>3. n # 0 => points[n].addr \in Nat
    BY <2>2, PointFacts
  <2> QED
    BY <1>1, <2>1, <2>3 DEF At
<1>5. CASE Len(table) < E820MAX
  <2>1. n = Len(points)
    <3>1. ~Full(table)
      BY <1>2, <1>5, MapAssumption DEF Full, Parameters
    <3>2. ~(n < Len(points)) /\ n <= Len(points)
      BY <3>1
    <3>3. \A a, b \in Nat : a <= b /\ ~(a < b) => a = b
      OBVIOUS
    <3> QED
      BY <1>4, <3>2, <3>3, Zenon
  <2>2. \A i \in DOMAIN map : ~Open(points, map, n, i)
    <3>1. SUFFICES ASSUME NEW i \in DOMAIN map, Open(points, map, n, i) PROVE FALSE
      OBVIOUS
    <3>2. PICK k \in DOMAIN points : points[k].entry = i
      BY <3>1 DEF Open
    <3>3. map[i].size # 0
      BY <3>2 DEF Sweepable, PointsOf
    <3>4. PICK l \in DOMAIN points : points[l].entry = i /\ Ends(map, points[l])
      BY <3>3, PointsThere
    <3>5. l <= n
      BY <1>4, <2>1
    <3> QED
      BY <3>1, <3>4, <3>5 DEF Open
  <2>3. open.type = 0
    <3>1. /\ map \in Seq(Entry) /\ list \in Seq(Nat \ {0})
          /\ \A a \in DOMAIN list : list[a] \in DOMAIN map
      BY <1>3 DEF Sweepable, ListOf
    <3>2. TypeOf(map, list) # 0 => \E i \in DOMAIN map : In(list, i)
      BY <3>1, TypeOfBounds
    <3> QED
      BY <1>3, <2>2, <3>2 DEF ListOf
  <2>4. CASE x < r
    BY <1>3, <2>3, <2>4 DEF SoFar
  <2>5. CASE ~(x < r)
    <3>1. r <= x
      BY <1>4, <2>5
    <3>2. TypeAt(map, x) = TypeOf(map, list)
      <4>1. ~(n < Len(points))
        BY <1>4, <2>1
      <4> QED
        BY <1>1, <1>3, <3>1, <4>1, TypeBetween
    <3>3. TypeAt(table, x) = 0
      BY <1>2, <1>4, <2>3, <3>1, NothingThere
    <3> QED
      BY <1>3, <2>3, <3>2, <3>3
  <2> QED
    BY <2>4, <2>5
<1>6. CASE ~(Len(table) < E820MAX)
  <2>1. Len(table) \in DOMAIN table
    BY <1>2, <1>6, MapAssumption DEF Parameters
  <2>2. /\ x < End(table[Len(table)]) /\ End(table[Len(table)]) \in Nat
        /\ End(table[Len(table)]) <= IF open.type = 0 THEN r ELSE open.addr
    <3>1. x < End(table[Len(table)])
      BY <1>6 DEF Tells, End
    <3> QED
      BY <1>2, <2>1, <3>1, EntryTypes DEF Below
  <2>3. x < r /\ (open.type # 0 => ~(open.addr <= x))
    BY <1>2, <1>4, <2>2
  <2> QED
    BY <1>3, <2>3 DEF SoFar
<1> QED
  BY <1>5, <1>6

LEMMA InvSweepable ==
    IInv /\ PointsExact /\ Pairs /\ stage = "sweep" => Sweepable(change_point, biosmap)
<1> SUFFICES ASSUME IInv, PointsExact, Pairs, stage = "sweep"
             PROVE  Sweepable(change_point, biosmap)
  OBVIOUS
<1>1. /\ biosmap \in Seq(Entry) /\ change_point \in Seq([addr : Nat, entry : Nat \ {0}])
      /\ biosmap = LowWords(mmap)
  BY DEF IInv, TypeOK, Reported, Loops
<1>2. PointsOf(change_point, biosmap, Len(biosmap))
  BY DEF PointsExact, Loops
<1>3. \A p : IsStart(p) <=> Starts(biosmap, p)
  BY DEF IsStart, Starts
<1>4. ASSUME NEW k \in DOMAIN change_point, NEW l \in DOMAIN change_point, k <= l
      PROVE  /\ change_point[k].addr <= change_point[l].addr
             /\ Starts(biosmap, change_point[l]) /\ change_point[k].addr = change_point[l].addr
                   => Starts(biosmap, change_point[k])
  BY <1>3, <1>4, PointOrder
<1> QED
  BY <1>1, <1>2, <1>4 DEF Sweepable, Pairs

LEMMA InvBuilding ==
    ASSUME IInv, stage = "sweep"
    PROVE  /\ Building(new_bios, last, change_point, round - 1)
           /\ round - 1 \in 0 .. Len(change_point)
<1>1. /\ new_bios \in Seq(Entry) /\ round \in Nat \ {0}
      /\ change_point \in Seq([addr : Nat, entry : Nat \ {0}])
      /\ last.type \in Nat /\ last.addr \in Nat
  BY DEF IInv, TypeOK
<1>2. /\ round <= Len(change_point) + 1
      /\ last.addr <= Reached /\ Ordered(new_bios)
      /\ Below(new_bios, IF last.type = 0 THEN Reached ELSE last.addr)
  BY DEF IInv, SweptInOrder
<1>3. Reached = At(change_point, round - 1)
  BY <1>1 DEF Reached, At
<1>4. round - 1 \in 0 .. Len(change_point)
  BY <1>1, <1>2
<1> QED
  BY <1>1, <1>2, <1>3, <1>4 DEF Building

LEMMA InitPairs == Init => PairInv
BY DEF Init, PairInv, PointsExact, SweptPairs, PrecedenceOfPairs, PrecedenceKept, NoneToMerge,
       SanitizedMap, Loops

LEMMA SweepPairsStep == IInv /\ IInv' /\ PairInv /\ SweepPoint => SweptPairs'
<1> SUFFICES ASSUME IInv, IInv', PairInv, SweepPoint, Pairs PROVE SweptPairs'
  BY DEF SweptPairs, Pairs, SweepPoint
<1>1. /\ stage = "sweep" /\ round <= Len(change_point) /\ round' = round + 1
      /\ biosmap' = biosmap /\ change_point' = change_point
  BY DEF SweepPoint
<1>2. /\ Sweepable(change_point, biosmap)
      /\ Swept(new_bios, last, overlap_list, change_point, biosmap, round - 1)
      /\ Building(new_bios, last, change_point, round - 1)
  BY <1>1, InvSweepable, InvBuilding DEF PairInv, SweptPairs
<1>3. PICK table : table = new_bios'
  OBVIOUS
<1>4. PICK open : open = last'
  OBVIOUS
<1>5. PICK list : list = overlap_list'
  OBVIOUS
<1>6. round \in DOMAIN change_point /\ round' - 1 = round
  BY <1>1 DEF IInv, TypeOK
<1>7. SweepRound(change_point[round], biosmap, new_bios, last, overlap_list, table, open, list)
  BY <1>3, <1>4, <1>5 DEF SweepPoint, SweepRound, IsStart, Starts
<1>8. table \in Seq(Entry) /\ Ordered(table)
  <2>1. stage' = "sweep"
    BY DEF SweepPoint
  <2>2. new_bios' \in Seq(Entry)
    BY DEF IInv, TypeOK
  <2>3. Ordered(new_bios)'
    BY <2>1 DEF IInv, SweptInOrder
  <2> QED
    BY <1>3, <2>2, <2>3 DEF Ordered
<1>9. ListOf(list, change_point, biosmap, round)
  <2>1. PICK e : e = change_point[round].entry
    OBVIOUS
  <2>2. /\ Starts(biosmap, change_point[round]) => list = Append(overlap_list, e)
        /\ ~Starts(biosmap, change_point[round]) => list = RemoveEntry(overlap_list, e)
    BY <1>7, <2>1 DEF SweepRound
  <2>3. ListOf(overlap_list, change_point, biosmap, round - 1)
    BY <1>2 DEF Swept
  <2> QED
    BY <1>2, <1>6, <2>1, <2>2, <2>3, ListSwept
<1>10. open.type = TypeOf(biosmap, list)
  BY <1>2, <1>7 DEF SweepRound, Swept
<1>11. SweptTypes(table, open, change_point, biosmap, round)
  BY <1>2, <1>6, <1>7, <1>8, TypesSwept
<1>12. NothingToMerge(table, open, list, change_point, biosmap, round)
  BY <1>2, <1>6, <1>7, MergeSwept
<1>13. Swept(table, open, list, change_point, biosmap, round)
  BY <1>9, <1>10, <1>11, <1>12 DEF Swept
<1>14. Swept(new_bios, last, overlap_list, change_point, biosmap, round - 1)'
  BY <1>1, <1>3, <1>4, <1>5, <1>6, <1>13
<1> QED
  BY <1>14 DEF SweptPairs

LEMMA StartSweepStep == IInv /\ IInv' /\ PointsExact' /\ EndPass => SweptPairs'
<1> SUFFICES ASSUME IInv, IInv', PointsExact', EndPass, stage' = "sweep", Pairs'
             PROVE  Swept(new_bios, last, overlap_list, change_point, biosmap, round - 1)'
  BY DEF SweptPairs
<1>1. Sweepable(change_point, biosmap)'
  <2>1. (IInv /\ PointsExact /\ Pairs /\ stage = "sweep" => Sweepable(change_point, biosmap))'
    BY InvSweepable, PTL
  <2> QED
    BY <2>1
<1>2. /\ overlap_list' = <<>> /\ last'.type = 0 /\ new_bios' = <<>> /\ round' - 1 = 0
  BY DEF EndPass, IInv, Untouched, Copying
<1> QED
  BY <1>1, <1>2, NothingSwept

LEMMA EndSweepPairs == IInv /\ PairInv /\ EndSweep => PrecedenceOfPairs' /\ NoneToMerge'
<1> SUFFICES ASSUME IInv, PairInv, EndSweep, Pairs PROVE PrecedenceKept' /\ NoneToMerge'
  BY DEF PrecedenceOfPairs, NoneToMerge, Pairs, EndSweep
<1>1. /\ stage = "sweep" /\ biosmap' = new_bios /\ mmap' = mmap
      /\ round > Len(change_point) \/ Full(new_bios)
  BY DEF EndSweep
<1>2. /\ Sweepable(change_point, biosmap)
      /\ Swept(new_bios, last, overlap_list, change_point, biosmap, round - 1)
      /\ Building(new_bios, last, change_point, round - 1)
      /\ round - 1 \in 0 .. Len(change_point)
  BY <1>1, InvSweepable, InvBuilding DEF PairInv, SweptPairs
<1>3. /\ biosmap = LowWords(mmap) /\ Len(new_bios) <= E820MAX /\ biosmap \in Seq(Entry)
      /\ round \in Nat /\ Len(change_point) \in Nat /\ new_bios \in Seq(Entry)
  BY <1>1 DEF IInv, TypeOK, Reported, Loops, SweptInOrder
<1>4. round - 1 < Len(change_point) => Full(new_bios)
  BY <1>1, <1>3
<1>5. ASSUME NEW x \in Corners(LowWords(mmap)), Tells(new_bios, x)
      PROVE  TypeAt(new_bios, x) = TypeAt(LowWords(mmap), x)
  <2>1. x \in Nat
    <3>1. PICK i \in DOMAIN biosmap :
            x = biosmap[i].addr \/ x = biosmap[i].addr + biosmap[i].size
      BY <1>3, <1>5 DEF Corners
    <3>2. biosmap[i].addr \in Nat /\ biosmap[i].size \in Nat
      BY <1>3, EntryTypes
    <3> QED
      BY <3>1, <3>2
  <2> QED
    BY <1>2, <1>3, <1>4, <1>5, <2>1, AllSwept
<1>6. PrecedenceKept'
  BY <1>1, <1>5 DEF PrecedenceKept
<1>7. NoneToMerge'
  <2>1. Differ(new_bios)
    BY <1>2 DEF Swept, NothingToMerge
  <2>2. \A i \in 1 .. Len(new_bios) - 1 : i \in DOMAIN new_bios /\ i + 1 \in DOMAIN new_bios
    BY <1>3
  <2>3. \A i \in 1 .. Len(new_bios) - 1 :
          new_bios[i].addr + new_bios[i].size = new_bios[i + 1].addr
              => new_bios[i].type # new_bios[i + 1].type
    BY <2>1, <2>2 DEF Differ, End
  <2> QED
    BY <1>1, <2>3 DEF NoneToMerge
<1> QED
  BY <1>6, <1>7

\* A map that is refused stays as it is, and has fewer than two entries.
LEMMA CheckMapPairs == IInv /\ CheckMap => PrecedenceOfPairs' /\ NoneToMerge'
<1> SUFFICES ASSUME IInv, CheckMap PROVE PrecedenceOfPairs' /\ NoneToMerge'
  OBVIOUS
<1>1. /\ biosmap' = LowWords(mmap) /\ mmap' = mmap /\ biosmap \in Seq(Entry)
      /\ biosmap = LowWords(mmap) /\ mmap \in MemoryMaps
      /\ stage' = IF Refuses(biosmap) THEN "copy_e820_map" ELSE "record"
  BY DEF CheckMap, IInv, TypeOK, Reported
<1>2. PrecedenceKept'
  BY <1>1 DEF PrecedenceKept
<1>3. Refuses(biosmap) => Len(mmap) < 2
  <2>1. Len(LowWords(mmap)) = Len(mmap)
    BY <1>1, LowWordsFit
  <2>2. \A i \in DOMAIN biosmap : ~Wraps(biosmap[i])
    BY <1>1, NoneWraps DEF IInv, MapFits
  <2> QED
    BY <1>1, <2>1, <2>2 DEF Refuses
<1>4. NoneToMerge'
  <2>1. Len(mmap) \in Nat
    BY <1>1, LowWordsFit
  <2> QED
    BY <1>1, <1>3, <2>1 DEF NoneToMerge, SanitizedMap
<1> QED
  BY <1>2, <1>4 DEF PrecedenceOfPairs

LEMMA NextPairs == IInv /\ IInv' /\ PairInv /\ [Next]_vars => PairInv'
<1> SUFFICES ASSUME IInv, IInv', PairInv, [Next]_vars PROVE PairInv'
  OBVIOUS
<1>1. PointsExact'
  BY PointsKept DEF PairInv
<1>2. ASSUME SanitizedMap' => SanitizedMap /\ UNCHANGED <<mmap, biosmap>>
      PROVE  PrecedenceOfPairs' /\ NoneToMerge'
  <2>1. CASE ~SanitizedMap'
    BY <2>1 DEF PrecedenceOfPairs, PrecedenceKept, NoneToMerge
  <2>2. CASE SanitizedMap'
    BY <1>2, <2>2 DEF PairInv, PrecedenceOfPairs, PrecedenceKept, NoneToMerge
  <2> QED
    BY <2>1, <2>2
<1>3. CASE SweepPoint
  <2>1. ~SanitizedMap'
    BY <1>3 DEF SweepPoint, SanitizedMap
  <2> QED
    BY <1>1, <1>2, <1>3, <2>1, SweepPairsStep DEF PairInv
<1>4. CASE EndPass
  <2>1. ~SanitizedMap'
    BY <1>4 DEF EndPass, SanitizedMap
  <2> QED
    BY <1>1, <1>2, <1>4, <2>1, StartSweepStep DEF PairInv
<1>5. CASE EndSweep
  <2>1. stage' # "sweep"
    BY <1>5 DEF EndSweep
  <2> QED
    BY <1>1, <1>5, <2>1, EndSweepPairs DEF PairInv, SweptPairs
<1>6. CASE CheckMap
  <2>1. stage' # "sweep"
    BY <1>6 DEF CheckMap
  <2> QED
    BY <1>1, <1>6, <2>1, CheckMapPairs DEF PairInv, SweptPairs
<1>7. CASE InitBiosmap \/ RecordEntry \/ StartSort \/ SortPoint
  <2>1. stage' # "sweep" /\ ~SanitizedMap'
    BY <1>7 DEF InitBiosmap, RecordEntry, StartSort, SortPoint, SanitizedMap
  <2> QED
    BY <1>1, <1>2, <2>1 DEF PairInv, SweptPairs
<1>8. CASE CopyRound \/ EndCopy
  <2>1. stage' # "sweep" /\ SanitizedMap /\ UNCHANGED <<mmap, biosmap>>
    BY <1>8 DEF CopyRound, EndCopy, SanitizedMap
  <2> QED
    BY <1>1, <1>2, <2>1 DEF PairInv, SweptPairs
<1>9. CASE UNCHANGED vars
  <2>1. /\ UNCHANGED <<mmap, biosmap, stage, round, change_point>>
        /\ UNCHANGED <<overlap_list, last, new_bios>>
    BY <1>9 DEF vars, locals
  <2>2. SweptPairs'
    BY <2>1 DEF PairInv, SweptPairs, Pairs
  <2>3. SanitizedMap' => SanitizedMap
    BY <2>1 DEF SanitizedMap
  <2> QED
    BY <1>1, <1>2, <2>1, <2>2, <2>3 DEF PairInv
<1> QED
  BY <1>3, <1>4, <1>5, <1>6, <1>7, <1>8, <1>9 DEF Next

\* The second invariant holds throughout, for every map and every size of the tables.
THEOREM AlwaysPairInv == Spec => []PairInv
BY InitPairs, NextPairs, AlwaysIInv, PTL DEF Spec

\* In a map in which no more than two entries meet at an address, sanitize_e820_map gives
\* every byte the largest of its types, as far as new_bios has room.
THEOREM LargerTypeWins == Spec => []PrecedenceOfPairs
<1>1. PairInv => PrecedenceOfPairs
  BY DEF PairInv
<1> QED
  BY <1>1, AlwaysPairInv, PTL

\* What sanitize_e820_map makes of a map is in order and disjoint, and where entries meet in
\* pairs it is as short as it can be.
THEOREM SanitizedCanonical == Spec => []Canonical
<1>1. PairInv => NoneToMerge
  BY DEF PairInv
<1>2. IInv /\ PairInv => Canonical
  BY <1>1, InvOrder DEF Canonical
<1> QED
  BY <1>2, AlwaysIInv, AlwaysPairInv, PTL

-----------------------------------------------------------------------------
(* Room: no array is written past its end.                                 *)

\* The entries of the overlap list are different ones, each begun at a point swept so far.
Begun ==
    /\ \A a, b \in DOMAIN overlap_list : overlap_list[a] = overlap_list[b] => a = b
    /\ \A a \in DOMAIN overlap_list : \E k \in DOMAIN change_point :
          k < round /\ change_point[k].entry = overlap_list[a] /\ IsStart(change_point[k])

RoomInv ==
    /\ stage = "record" => round <= Len(biosmap) + 1 /\ Len(change_point) <= 2 * (round - 1)
    /\ Len(change_point) <= 2 * E820MAX
    /\ stage = "sweep" => Begun
    /\ Len(overlap_list) <= E820MAX
    /\ Len(new_bios) <= E820MAX

\* A list of different numbers up to n has no more than n of them.
LEMMA DifferentFew ==
    ASSUME NEW n \in Nat, NEW list \in Seq(1 .. n),
           \A a, b \in DOMAIN list : list[a] = list[b] => a = b
    PROVE  Len(list) <= n
<1>1. PICK m \in Nat : m = Len(list) /\ DOMAIN list = 1 .. m
  OBVIOUS
<1>2. list \in Injection(1 .. m, 1 .. n)
  BY <1>1 DEF Injection, IsInjective
<1>3. IsFiniteSet(1 .. n) /\ Cardinality(1 .. n) = n /\ Cardinality(1 .. m) = m
  <2>1. ASSUME NEW k \in Nat PROVE IsFiniteSet(1 .. k) /\ Cardinality(1 .. k) = k
    <3>1. /\ IsFiniteSet(1 .. k)
          /\ Cardinality(1 .. k) = IF 1 > k THEN 0 ELSE k - 1 + 1
      BY FS_Interval
    <3> QED
      BY <3>1
  <2> QED
    BY <2>1
<1>4. Cardinality(1 .. m) <= Cardinality(1 .. n)
  BY <1>2, <1>3, FS_Injection
<1> QED
  BY <1>1, <1>3, <1>4

\* An entry has no points or two.
LEMMA TwoPoints ==
    ASSUME NEW map, NEW i
    PROVE  Len(ChangePoints(map, i)) \in Nat /\ Len(ChangePoints(map, i)) <= 2
<1>1. CASE map[i].size = 0
  BY <1>1 DEF ChangePoints
<1>2. CASE map[i].size # 0
  BY <1>2 DEF ChangePoints
<1> QED
  BY <1>1, <1>2

LEMMA RecordRoom == IInv /\ RoomInv /\ RecordEntry => RoomInv'
<1> SUFFICES ASSUME IInv, RoomInv, RecordEntry PROVE RoomInv'
  OBVIOUS
<1>1. /\ stage = "record" /\ stage' = "record" /\ round <= Len(biosmap)
      /\ change_point' = change_point \o ChangePoints(biosmap, round) /\ round' = round + 1
      /\ biosmap' = biosmap /\ overlap_list' = overlap_list /\ new_bios' = new_bios
  BY DEF RecordEntry
<1>2. /\ change_point \in Seq([addr : Nat, entry : Nat \ {0}]) /\ round \in Nat \ {0}
      /\ change_point' \in Seq([addr : Nat, entry : Nat \ {0}])
      /\ Len(biosmap) \in Nat /\ Len(biosmap) <= E820MAX /\ E820MAX \in Nat
  <2>1. IInv'
    BY NextIInv DEF Next
  <2> QED
    BY <1>1, <2>1, MapAssumption DEF IInv, TypeOK, MapFits, Parameters
<1>3. PICK new : new = ChangePoints(biosmap, round)
  OBVIOUS
<1>4. new \in Seq([addr : Nat, entry : Nat \ {0}]) /\ Len(new) \in Nat /\ Len(new) <= 2
  <2>1. biosmap[round].addr \in Nat /\ biosmap[round].size \in Nat
    BY <1>1, <1>2, EntryTypes DEF IInv, TypeOK
  <2>2. new \in Seq([addr : Nat, entry : Nat \ {0}])
    <3>1. CASE biosmap[round].size = 0
      BY <1>3, <3>1 DEF ChangePoints
    <3>2. CASE biosmap[round].size # 0
      <4>1. PICK p, q \in [addr : Nat, entry : Nat \ {0}] :
              /\ p = [addr |-> biosmap[round].addr, entry |-> round]
              /\ q = [addr |-> biosmap[round].addr + biosmap[round].size, entry |-> round]
        <5>1. \A x \in Nat, y \in Nat \ {0} :
                [addr |-> x, entry |-> y] \in [addr : Nat, entry : Nat \ {0}]
          OBVIOUS
        <5>2. biosmap[round].addr + biosmap[round].size \in Nat /\ round \in Nat \ {0}
          BY <1>2, <2>1
        <5> QED
          BY <2>1, <5>1, <5>2, Zenon
      <4>2. new = <<p, q>>
        BY <1>3, <3>2, <4>1 DEF ChangePoints
      <4> QED
        BY <4>2
    <3> QED
      BY <3>1, <3>2
  <2> QED
    BY <1>3, <2>2, TwoPoints
<1>5. Len(change_point') = Len(change_point) + Len(new)
  BY <1>1, <1>2, <1>3, <1>4
<1>6. Len(change_point) <= 2 * (round - 1) /\ Len(change_point) \in Nat
  BY <1>1, <1>2 DEF RoomInv
<1>7. Len(change_point') <= 2 * (round' - 1)
  BY <1>1, <1>2, <1>4, <1>5, <1>6
<1>8. Len(change_point') <= 2 * E820MAX /\ round' <= Len(biosmap) + 1
  BY <1>1, <1>2, <1>4, <1>5, <1>6
<1> QED
  BY <1>1, <1>7, <1>8 DEF RoomInv

\* The list that a point starts or ends an entry of.
LEMMA SweepBegun == IInv /\ PointsExact /\ RoomInv /\ SweepPoint => Begun'
<1> SUFFICES ASSUME IInv, PointsExact, RoomInv, SweepPoint PROVE Begun'
  OBVIOUS
<1>1. /\ stage = "sweep" /\ round <= Len(change_point) /\ round' = round + 1
      /\ biosmap' = biosmap /\ change_point' = change_point /\ Begun
      /\ overlap_list' = IF IsStart(change_point[round])
                         THEN Append(overlap_list, change_point[round].entry)
                         ELSE RemoveEntry(overlap_list, change_point[round].entry)
  BY DEF SweepPoint, RoomInv
<1>2. /\ change_point \in Seq([addr : Nat, entry : Nat \ {0}]) /\ round \in Nat \ {0}
      /\ overlap_list \in Seq(Nat \ {0})
  BY DEF IInv, TypeOK
<1>3. PICK L \in Nat : L = Len(overlap_list) /\ DOMAIN overlap_list = 1 .. L
  BY <1>2
<1>4. PICK e : e = change_point[round].entry
  OBVIOUS
<1>5. PICK new : new = overlap_list'
  OBVIOUS
<1>6. round \in DOMAIN change_point /\ \A k \in DOMAIN change_point : k \in Nat
  BY <1>1, <1>2
<1>7. \A p : IsStart(p)' <=> IsStart(p)
  BY <1>1 DEF IsStart
<1>8. SUFFICES /\ \A a, b \in DOMAIN new : new[a] = new[b] => a = b
               /\ \A a \in DOMAIN new : \E k \in DOMAIN change_point :
                     k <= round /\ change_point[k].entry = new[a] /\ IsStart(change_point[k])
  <2>1. \A k \in DOMAIN change_point : k <= round => k < round'
    BY <1>1, <1>2, <1>6
  <2> QED
    BY <1>1, <1>5, <1>7, <2>1 DEF Begun
<1>9. \A a \in DOMAIN overlap_list : \E k \in DOMAIN change_point :
         k <= round /\ change_point[k].entry = overlap_list[a] /\ IsStart(change_point[k])
  BY <1>1, <1>2, <1>6 DEF Begun
<1>10. CASE IsStart(change_point[round])
  <2>1. new = Append(overlap_list, e)
    BY <1>1, <1>4, <1>5, <1>10
  <2>2. /\ DOMAIN new = 1 .. (L + 1) /\ new[L + 1] = e
        /\ \A a \in 1 .. L : new[a] = overlap_list[a]
    BY <1>2, <1>3, <2>1
  <2>3. ASSUME NEW a \in 1 .. L PROVE overlap_list[a] # e
    <3>1. SUFFICES ASSUME overlap_list[a] = e PROVE FALSE
      OBVIOUS
    <3>2. PICK k \in DOMAIN change_point :
            k < round /\ change_point[k].entry = e /\ IsStart(change_point[k])
      BY <1>1, <1>3, <3>1 DEF Begun
    <3>3. change_point[k].addr = change_point[round].addr
      BY <1>4, <1>10, <3>2 DEF IsStart
    <3>4. change_point[k] = change_point[round]
      <4>1. \A p, q \in [addr : Nat, entry : Nat \ {0}] :
              p.addr = q.addr /\ p.entry = q.entry => p = q
        OBVIOUS
      <4>2. /\ change_point[k] \in [addr : Nat, entry : Nat \ {0}]
            /\ change_point[round] \in [addr : Nat, entry : Nat \ {0}]
        <5>1. \A S : change_point \in Seq(S) => \A j \in DOMAIN change_point : change_point[j] \in S
          OBVIOUS
        <5> QED
          BY <1>2, <1>6, <5>1, Zenon
      <4> QED
        BY <1>4, <3>2, <3>3, <4>1, <4>2, Zenon
    <3>5. k = round
      BY <1>1, <1>6, <3>4 DEF PointsExact, PointsOf, Loops
    <3> QED
      BY <1>2, <1>6, <3>2, <3>5
  <2>4. \A a, b \in DOMAIN new : new[a] = new[b] => a = b
    <3>1. \A a, b \in 1 .. L : overlap_list[a] = overlap_list[b] => a = b
      BY <1>1, <1>3 DEF Begun
    <3>2. \A a \in DOMAIN new : a \in 1 .. L \/ a = L + 1
      BY <1>3, <2>2
    <3> QED
      BY <2>2, <2>3, <3>1, <3>2
  <2>5. ASSUME NEW a \in DOMAIN new
        PROVE  \E k \in DOMAIN change_point :
                  k <= round /\ change_point[k].entry = new[a] /\ IsStart(change_point[k])
    <3>1. CASE a \in 1 .. L
      BY <1>3, <1>9, <2>2, <3>1
    <3>2. CASE a = L + 1
      BY <1>2, <1>4, <1>6, <1>10, <2>2, <3>2
    <3> QED
      BY <1>3, <2>2, <3>1, <3>2
  <2> QED
    BY <2>4, <2>5
<1>11. CASE ~IsStart(change_point[round])
  <2>1. new = RemoveEntry(overlap_list, e)
    BY <1>1, <1>4, <1>5, <1>11
  <2>2. PICK h \in Nat : h = L \div 2 /\ h + h <= L
    BY <1>3
  <2>3. /\ DOMAIN new = 1 .. h
        /\ \A a \in 1 .. h : new[a] = overlap_list[a] \/ new[a] = overlap_list[L + 1 - a]
    BY <1>3, <2>1, <2>2 DEF RemoveEntry
  <2>4. \A a \in 1 .. h : a \in 1 .. L /\ L + 1 - a \in 1 .. L
    BY <1>3, <2>2
  <2>5. ASSUME NEW a \in 1 .. h, NEW b \in 1 .. h, new[a] = new[b] PROVE a = b
    <3>1. PICK c \in 1 .. L : new[a] = overlap_list[c] /\ (c = a \/ c = L + 1 - a)
      BY <2>3, <2>4
    <3>2. PICK d \in 1 .. L : new[b] = overlap_list[d] /\ (d = b \/ d = L + 1 - b)
      BY <2>3, <2>4
    <3>3. c = d
      BY <1>1, <1>3, <2>5, <3>1, <3>2 DEF Begun
    <3> QED
      BY <1>3, <2>2, <3>1, <3>2, <3>3
  <2>6. ASSUME NEW a \in 1 .. h
        PROVE  \E k \in DOMAIN change_point :
                  k <= round /\ change_point[k].entry = new[a] /\ IsStart(change_point[k])
    <3>1. PICK c \in 1 .. L : new[a] = overlap_list[c]
      BY <2>3, <2>4
    <3> QED
      BY <1>3, <1>9, <3>1
  <2> QED
    BY <2>3, <2>5, <2>6
<1> QED
  BY <1>10, <1>11

LEMMA SweepRoom == IInv /\ PointsExact /\ RoomInv /\ SweepPoint => RoomInv'
<1> SUFFICES ASSUME IInv, PointsExact, RoomInv, SweepPoint PROVE RoomInv'
  OBVIOUS
<1>1. /\ stage = "sweep" /\ stage' = "sweep" /\ change_point' = change_point
      /\ biosmap' = biosmap /\ Begun'
  BY SweepBegun DEF SweepPoint
<1>2. IInv'
  BY NextIInv DEF Next
<1>3. /\ E820MAX \in Nat /\ biosmap \in Seq(Entry) /\ Len(biosmap) <= E820MAX
      /\ overlap_list' \in Seq(Nat \ {0}) /\ Len(new_bios') <= E820MAX
      /\ \A i \in DOMAIN overlap_list' : overlap_list'[i] \in DOMAIN biosmap
  BY <1>1, <1>2, MapAssumption DEF IInv, TypeOK, MapFits, SweptInOrder, Parameters
<1>4. PICK n \in Nat : n = Len(biosmap) /\ DOMAIN biosmap = 1 .. n
  BY <1>3
<1>5. PICK list : list = overlap_list'
  OBVIOUS
<1>6. list \in Seq(1 .. n)
  BY <1>3, <1>4, <1>5
<1>7. \A a, b \in DOMAIN list : list[a] = list[b] => a = b
  BY <1>1, <1>5 DEF Begun
<1>8. Len(list) <= n
  BY <1>6, <1>7, DifferentFew
<1>9. Len(overlap_list') <= E820MAX
  BY <1>3, <1>4, <1>5, <1>6, <1>8
<1> QED
  BY <1>1, <1>3, <1>9 DEF RoomInv

LEMMA NextRoom == IInv /\ PairInv /\ RoomInv /\ [Next]_vars => RoomInv'
<1> SUFFICES ASSUME IInv, PairInv, RoomInv, [Next]_vars PROVE RoomInv'
  OBVIOUS
<1>1. CASE RecordEntry
  BY <1>1, RecordRoom
<1>2. CASE SweepPoint
  BY <1>2, SweepRoom DEF PairInv
<1>3. ASSUME stage' \notin {"record", "sweep"},
             UNCHANGED <<change_point, overlap_list, new_bios>>
      PROVE  RoomInv'
  BY <1>3 DEF RoomInv
<1>4. CASE InitBiosmap \/ StartSort \/ EndSweep \/ CopyRound \/ EndCopy
  BY <1>3, <1>4 DEF InitBiosmap, StartSort, EndSweep, CopyRound, EndCopy, locals
<1>5. CASE CheckMap
  <2>1. /\ round' = 1 /\ change_point' = <<>> /\ overlap_list' = <<>> /\ new_bios' = <<>>
        /\ stage' # "sweep" /\ Len(biosmap') \in Nat
    BY <1>5 DEF CheckMap, IInv, Untouched, TypeOK, Copying, locals
  <2> QED
    BY <2>1, MapAssumption DEF RoomInv, Parameters
<1>6. CASE SortPoint
  <2>1. Len(change_point') = Len(change_point)
    BY <1>6 DEF SortPoint, IInv, TypeOK
  <2> QED
    BY <1>6, <2>1 DEF SortPoint, RoomInv
<1>7. CASE EndPass
  <2>1. overlap_list' = <<>> /\ Begun'
    BY <1>7 DEF EndPass, IInv, Untouched, Copying, Begun
  <2>2. UNCHANGED <<change_point, overlap_list, new_bios>> /\ stage' # "record"
    BY <1>7 DEF EndPass
  <2> QED
    BY <2>1, <2>2 DEF RoomInv
<1>8. CASE UNCHANGED vars
  <2>1. UNCHANGED <<stage, round, biosmap, change_point, overlap_list, new_bios>>
    BY <1>8 DEF vars, locals
  <2>2. Begun => Begun'
    BY <2>1 DEF Begun, IsStart
  <2> QED
    BY <2>1, <2>2 DEF RoomInv
<1> QED
  BY <1>1, <1>2, <1>4, <1>5, <1>6, <1>7, <1>8 DEF Next

LEMMA InitRoom == Init => RoomInv
<1> SUFFICES ASSUME Init PROVE RoomInv
  OBVIOUS
<1>1. /\ stage = "init_biosmap" /\ change_point = <<>> /\ overlap_list = <<>>
      /\ new_bios = <<>> /\ E820MAX \in Nat
  BY MapAssumption DEF Init, Parameters
<1> QED
  BY <1>1 DEF RoomInv

\* What the invariants say of the tables.
LEMMA InvFits == IInv /\ RoomInv => TablesFit
<1> SUFFICES ASSUME IInv, RoomInv PROVE TablesFit
  OBVIOUS
<1>1. E820MAX \in Nat \ {0} /\ mmap \in MemoryMaps /\ Len(mmap) \in Nat
  BY MapAssumption, LowWordsFit DEF IInv, TypeOK, Parameters
<1>2. Len(biosmap) > E820MAX <=> stage # "init_biosmap" /\ Len(mmap) > E820MAX
  <2>1. CASE stage = "init_biosmap"
    <3>1. biosmap = <<>>
      BY <2>1 DEF IInv, Untouched
    <3> QED
      BY <1>1, <2>1, <3>1
  <2>2. CASE stage = "overrun"
    <3>1. biosmap = LowWords(mmap) /\ Len(mmap) > E820MAX
      BY <2>2 DEF IInv, Reported
    <3>2. Len(biosmap) = Len(mmap)
      BY <1>1, <3>1, LowWordsFit
    <3> QED
      BY <2>2, <3>1, <3>2
  <2>3. CASE stage \notin {"init_biosmap", "overrun"}
    <3>1. ~(Len(mmap) > E820MAX) /\ Len(biosmap) <= E820MAX /\ Len(biosmap) \in Nat
      BY <2>3 DEF IInv, Reported, MapFits, TypeOK
    <3> QED
      BY <1>1, <3>1
  <2> QED
    BY <2>1, <2>2, <2>3
<1>3. Len(e820) <= E820MAX
  <2>1. CASE stage \in Copying
    BY <2>1 DEF IInv, CopiedInOrder
  <2>2. CASE stage \notin Copying
    <3>1. e820 = <<>>
      BY <2>2 DEF IInv, Untouched
    <3> QED
      BY <1>1, <3>1
  <2> QED
    BY <2>1, <2>2
<1> QED
  BY <1>2, <1>3 DEF TablesFit, RoomInv

\* The one array that is ever written past its end is biosmap, and that exactly when the
\* boot loader reports more than E820MAX entries: sanitize_e820_map's two points for each
\* entry, its overlap list and new_bios, and the entries add_memory_region makes of biosmap's
\* fit whatever the map.
THEOREM TablesStayInBounds == Spec => []TablesFit
<1>1. Spec => []RoomInv
  BY InitRoom, NextRoom, AlwaysIInv, AlwaysPairInv, PTL DEF Spec
<1> QED
  BY <1>1, InvFits, AlwaysIInv, PTL

-----------------------------------------------------------------------------
(* Gaps between the entries of RAM.                                        *)

\* No entry is empty.
Solid(map) == \A k \in DOMAIN map : map[k].size # 0

IsRam(e) == e.type = E820_RAM

\* A byte that is not RAM lies between any two entries of RAM.
Gapped(map) ==
    \A i, j \in DOMAIN map :
        i < j /\ IsRam(map[i]) /\ IsRam(map[j]) => End(map[i]) < map[j].addr

\* The same for the entries of a table and those from the n-th of a map on.
GapBefore(table, map, n) ==
    \A k \in DOMAIN table, j \in DOMAIN map :
        n <= j /\ IsRam(table[k]) /\ IsRam(map[j]) => End(table[k]) < map[j].addr

\* As far as biosmap goes, every byte, and not only every corner, keeps the largest of
\* its types.
PrecedenceEverywhere ==
    \A x \in Nat : Tells(biosmap, x) => TypeAt(biosmap, x) = TypeAt(LowWords(mmap), x)

GapInv ==
    /\ stage = "sweep" => Solid(new_bios)
    /\ stage \in Copying /\ Pairs =>
          /\ Gapped(biosmap) /\ Gapped(e820) /\ GapBefore(e820, biosmap, round)
          /\ PrecedenceEverywhere
    /\ stage \in Copying /\ Len(biosmap) < 2 => e820 = <<>>

LEMMA SolidGapped ==
    ASSUME NEW map \in Seq(Entry), Ordered(map), Differ(map), Solid(map)
    PROVE  Gapped(map)
<1> SUFFICES ASSUME NEW i \in DOMAIN map, NEW j \in DOMAIN map, i < j,
                    IsRam(map[i]), IsRam(map[j])
             PROVE  End(map[i]) < map[j].addr
  BY DEF Gapped
<1>1. /\ i \in Nat /\ j \in Nat /\ End(map[i]) \in Nat /\ map[j].addr \in Nat
      /\ End(map[i]) <= map[j].addr
  BY EntryTypes DEF Ordered
<1>2. CASE j = i + 1
  <2>1. End(map[i]) # map[j].addr
    BY <1>2 DEF Differ, IsRam
  <2> QED
    BY <1>1, <2>1
<1>3. CASE j # i + 1
  <2>1. PICK m \in DOMAIN map : i < m /\ m < j
    <3>1. i + 1 \in DOMAIN map /\ i < i + 1 /\ i + 1 < j
      BY <1>1, <1>3
    <3> QED
      BY <3>1
  <2>2. End(map[i]) <= map[m].addr /\ End(map[m]) <= map[j].addr
    BY <2>1 DEF Ordered
  <2>3. map[m].addr \in Nat /\ map[m].size \in Nat /\ map[m].size # 0
    BY EntryTypes DEF Solid
  <2>4. map[m].addr < End(map[m]) /\ End(map[m]) \in Nat
    BY <2>3 DEF End
  <2> QED
    BY <1>1, <2>2, <2>3, <2>4
<1> QED
  BY <1>2, <1>3

\* The RAM of a table ends before address x.
RamBelow(table, x) == \A k \in DOMAIN table : IsRam(table[k]) => End(table[k]) < x

\* An entry of a type can start at address x without touching RAM if it is RAM.
Clear(table, type, x) == type = E820_RAM => RamBelow(table, x)

\* The RAM of a table is that of another one and, perhaps, of an entry that ends at `end'.
RamAdded(new, table, added, end) ==
    \A k \in DOMAIN new :
        IsRam(new[k]) => \/ k \in DOMAIN table /\ new[k] = table[k]
                         \/ added /\ End(new[k]) = end

\* Regions and entries behind a gap.
LEMMA RegionGapped ==
    ASSUME NEW table \in Seq(Entry), Gapped(table),
           NEW start \in Nat, NEW size \in Nat, NEW type \in Nat \ {0},
           Clear(table, type, start),
           NEW new, new = AddMemoryRegion(table, start, size, type)
    PROVE  /\ new \in Seq(Entry) /\ Gapped(new)
           /\ RamAdded(new, table, type = E820_RAM, start + size)
<1>1. CASE Len(table) = E820MAX
  <2>1. new = table
    BY <1>1 DEF AddMemoryRegion
  <2> QED
    BY <2>1 DEF RamAdded
<1>2. CASE Len(table) # E820MAX
  <2>1. PICK e : e = [addr |-> start, size |-> size, type |-> type]
    OBVIOUS
  <2>2. /\ e \in Entry /\ End(e) = start + size /\ e.addr = start
        /\ new = Append(table, e) /\ (IsRam(e) <=> type = E820_RAM)
    BY <1>2, <2>1 DEF Entry, End, AddMemoryRegion, IsRam
  <2>3. PICK n \in Nat : n = Len(table) + 1
    OBVIOUS
  <2>4. /\ new \in Seq(Entry) /\ new[n] = e
        /\ \A k \in DOMAIN table : new[k] = table[k] /\ k \in Nat /\ k < n
        /\ DOMAIN new = DOMAIN table \cup {n}
    BY <2>2, <2>3
  <2>5. Gapped(new)
    <3> SUFFICES ASSUME NEW i \in DOMAIN new, NEW j \in DOMAIN new, i < j,
                        IsRam(new[i]), IsRam(new[j])
                 PROVE  End(new[i]) < new[j].addr
      BY DEF Gapped
    <3>1. i \in DOMAIN table /\ new[i] = table[i]
      BY <2>4
    <3>2. CASE j = n
      BY <2>2, <2>4, <3>1, <3>2 DEF Clear, RamBelow
    <3>3. CASE j \in DOMAIN table
      BY <2>4, <3>1, <3>3 DEF Gapped
    <3> QED
      BY <2>4, <3>2, <3>3
  <2> QED
    BY <2>2, <2>4, <2>5 DEF RamAdded
<1> QED
  BY <1>1, <1>2

LEMMA EntryGapped ==
    ASSUME NEW table \in Seq(Entry), Gapped(table), NEW e \in Entry,
           IsRam(e) => RamBelow(table, e.addr),
           NEW new, new = CopyEntry(table, e)
    PROVE  /\ Gapped(new)
           /\ \A k \in DOMAIN new :
                 IsRam(new[k]) =>
                    \/ k \in DOMAIN table /\ new[k] = table[k]
                    \/ IsRam(e) /\ End(new[k]) \in Nat /\ End(new[k]) <= End(e)
<1>1. HOLE_START \in Nat /\ HOLE_END \in Nat /\ HOLE_START < HOLE_END
  BY MapAssumption DEF Parameters
<1>2. PICK a \in Nat, z \in Nat, t \in Nat \ {0} : a = e.addr /\ z = e.size /\ t = e.type
  BY DEF Entry
<1>3. End(e) = a + z /\ (IsRam(e) <=> t = E820_RAM)
  BY <1>2 DEF End, IsRam
<1>4. CASE ~(t = E820_RAM /\ a < HOLE_END /\ a + z > HOLE_START)
  <2>1. new = AddMemoryRegion(table, a, z, t)
    BY <1>2, <1>4 DEF CopyEntry
  <2>2. Clear(table, t, a)
    BY <1>2, <1>3 DEF Clear
  <2>3. Gapped(new) /\ RamAdded(new, table, t = E820_RAM, a + z)
    BY <2>1, <2>2, RegionGapped
  <2> QED
    BY <1>2, <1>3, <2>3 DEF RamAdded
<1>5. CASE t = E820_RAM /\ a < HOLE_END /\ a + z > HOLE_START
  <2>1. PICK below :
          /\ a < HOLE_START => below = AddMemoryRegion(table, a, HOLE_START - a, t)
          /\ ~(a < HOLE_START) => below = table
          /\ a + z <= HOLE_END => new = below
          /\ ~(a + z <= HOLE_END) =>
                new = AddMemoryRegion(below, HOLE_END, (a + z) - HOLE_END, t)
    <3>1. e.type = E820_RAM /\ e.addr < HOLE_END /\ e.addr + e.size > HOLE_START
      BY <1>2, <1>5
    <3> DEFINE low == IF e.addr < HOLE_START
                      THEN AddMemoryRegion(table, e.addr, HOLE_START - e.addr, e.type)
                      ELSE table
    <3>2. new = IF ~(/\ e.type = E820_RAM /\ e.addr < HOLE_END
                     /\ e.addr + e.size > HOLE_START)
                THEN AddMemoryRegion(table, e.addr, e.size, e.type)
                ELSE IF e.addr + e.size <= HOLE_END THEN low
                ELSE AddMemoryRegion(low, HOLE_END, (e.addr + e.size) - HOLE_END, e.type)
      BY DEF CopyEntry
    <3>3. new = IF e.addr + e.size <= HOLE_END THEN low
                ELSE AddMemoryRegion(low, HOLE_END, (e.addr + e.size) - HOLE_END, e.type)
      <4> HIDE DEF low
      <4> QED
        BY <3>1, <3>2
    <3>4. low = IF a < HOLE_START THEN AddMemoryRegion(table, a, HOLE_START - a, t) ELSE table
      BY <1>2, Zenon
    <3> HIDE DEF low
    <3>5. new = IF a + z <= HOLE_END THEN low
                ELSE AddMemoryRegion(low, HOLE_END, (a + z) - HOLE_END, t)
      BY <1>2, <3>3, Zenon
    <3> QED
      BY <3>4, <3>5, Zenon
  <2>2. \A k \in DOMAIN table : IsRam(table[k]) => End(table[k]) < a /\ End(table[k]) \in Nat
    BY <1>2, <1>3, <1>5, EntryTypes DEF RamBelow
  <2>3. /\ below \in Seq(Entry) /\ Gapped(below)
        /\ \A k \in DOMAIN below :
              IsRam(below[k]) =>
                 \/ k \in DOMAIN table /\ below[k] = table[k]
                 \/ a < HOLE_START /\ End(below[k]) = HOLE_START
    <3>1. CASE a < HOLE_START
      <4>1. PICK size \in Nat : size = HOLE_START - a
        BY <1>1, <3>1
      <4>2. below = AddMemoryRegion(table, a, size, t)
        BY <2>1, <3>1, <4>1
      <4>3. Clear(table, t, a)
        BY <2>2 DEF Clear, RamBelow
      <4>4. /\ below \in Seq(Entry) /\ Gapped(below)
            /\ RamAdded(below, table, t = E820_RAM, a + size)
        BY <1>2, <4>2, <4>3, RegionGapped
      <4>5. a + size = HOLE_START
        BY <1>1, <4>1
      <4> QED
        BY <3>1, <4>4, <4>5 DEF RamAdded
    <3>2. CASE ~(a < HOLE_START)
      BY <2>1, <3>2
    <3> QED
      BY <3>1, <3>2
  <2>4. CASE a + z <= HOLE_END
    <3>1. new = below
      BY <2>1, <2>4
    <3> QED
      BY <1>1, <1>3, <1>5, <2>3, <3>1
  <2>5. CASE ~(a + z <= HOLE_END)
    <3>1. PICK size \in Nat : size = (a + z) - HOLE_END
      BY <1>1, <2>5
    <3>2. new = AddMemoryRegion(below, HOLE_END, size, t)
      BY <2>1, <2>5, <3>1
    <3>3. HOLE_END + size = a + z
      BY <1>1, <3>1
    <3>4. Clear(below, t, HOLE_END)
      BY <1>1, <1>5, <2>2, <2>3 DEF Clear, RamBelow
    <3>5. Gapped(new) /\ RamAdded(new, below, t = E820_RAM, HOLE_END + size)
      BY <1>1, <2>3, <3>2, <3>4, RegionGapped
    <3> QED
      BY <1>1, <1>3, <1>5, <2>3, <3>3, <3>5 DEF RamAdded
  <2> QED
    BY <2>4, <2>5
<1> QED
  BY <1>4, <1>5

\* An entry that is closed is not empty.
LEMMA SweepSolid == IInv /\ GapInv /\ SweepPoint => Solid(new_bios')
<1> SUFFICES ASSUME IInv, GapInv, SweepPoint PROVE Solid(new_bios')
  OBVIOUS
<1>1. stage = "sweep" /\ round <= Len(change_point)
  BY DEF SweepPoint
<1>2. /\ Building(new_bios, last, change_point, round - 1)
      /\ change_point \in Seq([addr : Nat, entry : Nat \ {0}]) /\ round \in DOMAIN change_point
  BY <1>1, InvBuilding DEF IInv, TypeOK
<1>3. new_bios \in Seq(Entry) /\ Solid(new_bios) /\ last.type \in Nat /\ last.addr \in Nat
  BY <1>1, <1>2 DEF GapInv, Building
<1>4. PICK a \in Nat : a = change_point[round].addr
  <2>1. \A S, s : s \in Seq(S) => \A k \in DOMAIN s : s[k] \in S
    OBVIOUS
  <2>2. change_point[round] \in [addr : Nat, entry : Nat \ {0}]
    BY <1>2, <2>1, Zenon
  <2> QED
    BY <2>2
<1>5. PICK new : new = new_bios'
  OBVIOUS
<1>6. new = new_bios \/ new = Closed(new_bios, last.type, last.addr, a)
  BY <1>4, <1>5 DEF SweepPoint
<1>7. CASE new = new_bios
  BY <1>3, <1>5, <1>7
<1>8. CASE new # new_bios
  <2>1. PICK e : e = [addr |-> last.addr, size |-> a - last.addr, type |-> last.type]
    OBVIOUS
  <2>2. new = Append(new_bios, e) /\ last.addr # a
    BY <1>6, <1>8, <2>1 DEF Closed
  <2>3. e.size # 0
    BY <1>3, <1>4, <2>1, <2>2
  <2>4. \A k \in DOMAIN new : (k \in DOMAIN new_bios /\ new[k] = new_bios[k]) \/ new[k] = e
    BY <1>3, <2>2
  <2> QED
    BY <1>3, <1>5, <2>3, <2>4 DEF Solid
<1> QED
  BY <1>7, <1>8

\* The end of the sweep: the new table has a gap between any two entries of RAM, and keeps
\* the type of every byte.
LEMMA EndSweepGaps == IInv /\ PairInv /\ GapInv /\ EndSweep => GapInv'
<1> SUFFICES ASSUME IInv, PairInv, GapInv, EndSweep PROVE GapInv'
  OBVIOUS
<1>1. /\ stage = "sweep" /\ biosmap' = new_bios /\ mmap' = mmap /\ e820' = e820
      /\ stage' = "copy_e820_map"
      /\ round > Len(change_point) \/ Full(new_bios)
  BY DEF EndSweep
<1>2. e820 = <<>>
  BY <1>1 DEF IInv, Untouched, Copying
<1>3. ASSUME Pairs
      PROVE  Gapped(new_bios) /\ \A x \in Nat :
                Tells(new_bios, x) => TypeAt(new_bios, x) = TypeAt(LowWords(mmap), x)
  <2>1. /\ Sweepable(change_point, biosmap)
        /\ Swept(new_bios, last, overlap_list, change_point, biosmap, round - 1)
        /\ Building(new_bios, last, change_point, round - 1)
        /\ round - 1 \in 0 .. Len(change_point)
    BY <1>1, <1>3, InvSweepable, InvBuilding DEF PairInv, SweptPairs
  <2>2. /\ biosmap = LowWords(mmap) /\ Len(new_bios) <= E820MAX
        /\ round \in Nat /\ Len(change_point) \in Nat
    BY <1>1 DEF IInv, TypeOK, Reported, Loops, SweptInOrder
  <2>3. round - 1 < Len(change_point) => Full(new_bios)
    BY <1>1, <2>2
  <2>4. \A x \in Nat :
          Tells(new_bios, x) => TypeAt(new_bios, x) = TypeAt(LowWords(mmap), x)
    BY <2>1, <2>2, <2>3, AllSwept
  <2>5. Gapped(new_bios)
    <3>1. new_bios \in Seq(Entry) /\ Ordered(new_bios)
      BY <2>1 DEF Building
    <3>2. Differ(new_bios) /\ Solid(new_bios)
      BY <1>1, <2>1 DEF Swept, NothingToMerge, GapInv
    <3> QED
      BY <3>1, <3>2, SolidGapped
  <2> QED
    BY <2>4, <2>5
<1>4. \A map, n : Gapped(<<>>) /\ GapBefore(<<>>, map, n)
  BY DEF Gapped, GapBefore
<1>5. Pairs' => Pairs
  BY <1>1 DEF Pairs
<1>6. stage' \in Copying /\ Pairs' =>
          /\ Gapped(biosmap)' /\ Gapped(e820)' /\ GapBefore(e820, biosmap, round)'
          /\ PrecedenceEverywhere'
  <2> SUFFICES ASSUME Pairs
               PROVE  /\ Gapped(biosmap)' /\ Gapped(e820)' /\ GapBefore(e820, biosmap, round)'
                      /\ PrecedenceEverywhere'
    BY <1>5
  <2>1. Gapped(biosmap)'
    BY <1>1, <1>3 DEF Gapped
  <2>2. e820' = <<>>
    BY <1>1, <1>2
  <2>3. Gapped(e820)' /\ GapBefore(e820, biosmap, round)'
    BY <2>2 DEF Gapped, GapBefore
  <2>4. PrecedenceEverywhere'
    BY <1>1, <1>3 DEF PrecedenceEverywhere, Tells
  <2> QED
    BY <2>1, <2>3, <2>4
<1> QED
  BY <1>1, <1>2, <1>6 DEF GapInv

LEMMA CheckMapGaps == IInv /\ CheckMap => GapInv'
<1> SUFFICES ASSUME IInv, CheckMap PROVE GapInv'
  OBVIOUS
<1>1. /\ biosmap' = biosmap /\ mmap' = mmap /\ e820' = e820 /\ biosmap \in Seq(Entry)
      /\ biosmap = LowWords(mmap) /\ stage = "sanitize_e820_map"
      /\ stage' = IF Refuses(biosmap) THEN "copy_e820_map" ELSE "record"
  BY DEF CheckMap, IInv, TypeOK, Reported
<1>2. e820' = <<>>
  BY <1>1 DEF IInv, Untouched, Copying
<1>3. CASE ~Refuses(biosmap)
  BY <1>1, <1>3 DEF GapInv, Copying
<1>4. CASE Refuses(biosmap)
  <2>1. \A i \in DOMAIN biosmap : ~Wraps(biosmap[i])
    BY <1>1, NoneWraps DEF IInv, MapFits
  <2>2. Len(biosmap) < 2 /\ Len(biosmap) \in Nat
    BY <1>1, <1>4, <2>1 DEF Refuses
  <2>3. \A i, j \in DOMAIN biosmap : ~(i < j)
    BY <1>1, <2>2
  <2>4. Gapped(biosmap)'
    BY <1>1, <2>3 DEF Gapped
  <2>5. Gapped(e820)' /\ GapBefore(e820, biosmap, round)'
    BY <1>2 DEF Gapped, GapBefore
  <2>6. PrecedenceEverywhere'
    BY <1>1 DEF PrecedenceEverywhere
  <2>7. stage' # "sweep"
    BY <1>1, <1>4
  <2> QED
    BY <1>2, <2>4, <2>5, <2>6, <2>7 DEF GapInv
<1> QED
  BY <1>3, <1>4

LEMMA CopyRoundGaps == IInv /\ GapInv /\ CopyRound => GapInv'
<1> SUFFICES ASSUME IInv, GapInv, CopyRound PROVE GapInv'
  OBVIOUS
<1>1. /\ stage = "copy_e820_map" /\ stage' = stage /\ biosmap' = biosmap /\ mmap' = mmap
      /\ Len(biosmap) >= 2 /\ round <= Len(biosmap) /\ round' = round + 1
      /\ e820' = CopyEntry(e820, biosmap[round])
  BY DEF CopyRound, Copies
<1>2. /\ biosmap \in Seq(Entry) /\ e820 \in Seq(Entry) /\ round \in Nat \ {0}
      /\ round \in DOMAIN biosmap /\ Len(biosmap) \in Nat
  BY <1>1 DEF IInv, TypeOK
<1>3. ~(Len(biosmap') < 2) /\ stage' # "sweep"
  BY <1>1, <1>2
<1>4. PICK new : new = e820'
  OBVIOUS
<1>5. ASSUME Pairs PROVE Gapped(new) /\ GapBefore(new, biosmap, round + 1)
  <2>1. Gapped(biosmap) /\ Gapped(e820) /\ GapBefore(e820, biosmap, round)
    BY <1>1, <1>5 DEF GapInv, Copying
  <2>2. PICK e \in Entry : e = biosmap[round]
    BY <1>2
  <2>3. new = CopyEntry(e820, e)
    BY <1>1, <1>4, <2>2
  <2>4. IsRam(e) => RamBelow(e820, e.addr)
    BY <1>2, <2>1, <2>2 DEF GapBefore, RamBelow
  <2>5. /\ Gapped(new)
        /\ \A k \in DOMAIN new :
              IsRam(new[k]) =>
                 \/ k \in DOMAIN e820 /\ new[k] = e820[k]
                 \/ IsRam(e) /\ End(new[k]) \in Nat /\ End(new[k]) <= End(e)
    BY <1>2, <2>1, <2>3, <2>4, EntryGapped
  <2>6. ASSUME NEW k \in DOMAIN new, NEW j \in DOMAIN biosmap, round + 1 <= j,
               IsRam(new[k]), IsRam(biosmap[j])
        PROVE  End(new[k]) < biosmap[j].addr
    <3>1. j \in Nat /\ round < j /\ round <= j
      BY <1>2, <2>6
    <3>2. CASE k \in DOMAIN e820 /\ new[k] = e820[k]
      BY <2>1, <2>6, <3>1, <3>2 DEF GapBefore
    <3>3. CASE IsRam(e) /\ End(new[k]) \in Nat /\ End(new[k]) <= End(e)
      <4>1. End(e) < biosmap[j].addr
        BY <1>2, <2>1, <2>2, <2>6, <3>1, <3>3 DEF Gapped
      <4>2. biosmap[j].addr \in Nat /\ End(e) \in Nat
        BY <1>2, <2>2, EntryTypes
      <4> QED
        BY <3>3, <4>1, <4>2
    <3> QED
      BY <2>5, <2>6, <3>2, <3>3
  <2> QED
    BY <2>5, <2>6 DEF GapBefore
<1>6. stage' \in Copying /\ Pairs' =>
          /\ Gapped(biosmap)' /\ Gapped(e820)' /\ GapBefore(e820, biosmap, round)'
          /\ PrecedenceEverywhere'
  <2> SUFFICES ASSUME Pairs
               PROVE  /\ Gapped(biosmap)' /\ Gapped(e820)' /\ GapBefore(e820, biosmap, round)'
                      /\ PrecedenceEverywhere'
    BY <1>1 DEF Pairs
  <2>1. Gapped(biosmap) /\ PrecedenceEverywhere
    BY <1>1 DEF GapInv, Copying
  <2>2. Gapped(biosmap)' /\ PrecedenceEverywhere'
    BY <1>1, <2>1 DEF Gapped, PrecedenceEverywhere, Tells
  <2>3. Gapped(e820)'
    BY <1>4, <1>5 DEF Gapped
  <2>4. GapBefore(e820, biosmap, round)'
    BY <1>1, <1>4, <1>5 DEF GapBefore
  <2> QED
    BY <2>2, <2>3, <2>4
<1> QED
  BY <1>3, <1>6 DEF GapInv

LEMMA NextGaps == IInv /\ PairInv /\ GapInv /\ [Next]_vars => GapInv'
<1> SUFFICES ASSUME IInv, PairInv, GapInv, [Next]_vars PROVE GapInv'
  OBVIOUS
<1>1. CASE InitBiosmap \/ RecordEntry \/ StartSort \/ SortPoint
  <2>1. stage' # "sweep" /\ stage' \notin Copying
    BY <1>1 DEF InitBiosmap, RecordEntry, StartSort, SortPoint, Copying
  <2> QED
    BY <2>1 DEF GapInv
<1>2. CASE CheckMap
  BY <1>2, CheckMapGaps
<1>3. CASE EndPass
  <2>1. stage' \notin Copying /\ new_bios' = <<>>
    BY <1>3 DEF EndPass, IInv, Untouched, Copying
  <2>2. Solid(new_bios)'
    BY <2>1 DEF Solid
  <2> QED
    BY <2>1, <2>2 DEF GapInv
<1>4. CASE SweepPoint
  <2>1. stage' \notin Copying
    BY <1>4 DEF SweepPoint, Copying
  <2> QED
    BY <1>4, <2>1, SweepSolid DEF GapInv, Solid
<1>5. CASE EndSweep
  BY <1>5, EndSweepGaps
<1>6. CASE CopyRound
  BY <1>6, CopyRoundGaps
<1>7. CASE EndCopy \/ UNCHANGED vars
  <2>1. /\ UNCHANGED <<mmap, biosmap, e820, round, new_bios>>
        /\ stage' \in Copying => stage \in Copying
        /\ stage' = "sweep" => stage = "sweep"
    BY <1>7 DEF EndCopy, vars, locals, Copying
  <2>2. Pairs' => Pairs
    BY <2>1 DEF Pairs
  <2> QED
    BY <2>1, <2>2 DEF GapInv, Gapped, GapBefore, Solid, PrecedenceEverywhere, Tells
<1> QED
  BY <1>1, <1>2, <1>3, <1>4, <1>5, <1>6, <1>7 DEF Next

LEMMA InitGaps == Init => GapInv
BY DEF Init, GapInv, Copying

LEMMA AlwaysGaps == Spec => []GapInv
BY InitGaps, NextGaps, AlwaysIInv, AlwaysPairInv, PTL DEF Spec

-----------------------------------------------------------------------------
(* What the RAM of e820 is, byte by byte.                                  *)

\* Where no entry begins or ends the type stays.
LEMMA TypeFollows ==
    ASSUME NEW map \in Seq(Entry), NEW x \in Nat, x + 1 \notin Corners(map)
    PROVE  TypeAt(map, x + 1) = TypeAt(map, x)
<1>1. ASSUME NEW i \in DOMAIN map PROVE Covers(map[i], x + 1) <=> Covers(map[i], x)
  <2>1. map[i].addr \in Nat /\ map[i].size \in Nat
    BY EntryTypes
  <2>2. x + 1 # map[i].addr /\ x + 1 # map[i].addr + map[i].size
    BY DEF Corners
  <2> QED
    BY <2>1, <2>2 DEF Covers
<1>2. {j \in DOMAIN map : Covers(map[j], x + 1)} = {j \in DOMAIN map : Covers(map[j], x)}
  BY <1>1
<1> QED
  BY <1>2 DEF TypeAt

\* The types of a range are those of its first byte and of the corners within it.
LEMMA CornersSuffice ==
    ASSUME NEW map \in Seq(Entry), NEW a \in Nat, NEW n \in Nat, NEW t, TypeAt(map, a) = t,
           \A c \in Corners(map) : a < c /\ c < a + n => TypeAt(map, c) = t,
           NEW x \in Nat, a <= x, x < a + n
    PROVE  TypeAt(map, x) = t
<1> SUFFICES ASSUME TypeAt(map, x) # t PROVE FALSE
  OBVIOUS
<1> DEFINE Bad == {y \in Nat : a <= y /\ y < a + n /\ TypeAt(map, y) # t}
<1>1. Bad \in SUBSET Nat /\ x \in Bad
  OBVIOUS
<1>2. PICK y \in Bad : \A z \in Bad : y <= z
  <2> HIDE DEF Bad
  <2> QED
    BY <1>1, LeastElement
<1>3. y \in Nat /\ a < y /\ y < a + n /\ TypeAt(map, y) # t
  BY <1>2
<1>4. PICK z \in Nat : y = z + 1
  <2>1. y - 1 \in Nat /\ y = (y - 1) + 1
    BY <1>3
  <2> QED
    BY <2>1
<1>5. y \notin Corners(map)
  BY <1>3
<1>6. TypeAt(map, y) = TypeAt(map, z)
  BY <1>4, <1>5, TypeFollows
<1>7. z \in Bad /\ ~(y <= z)
  BY <1>3, <1>4, <1>6
<1> QED
  BY <1>2, <1>7

\* A table tells the type of every byte before the end of one of its entries.
LEMMA TellsTo ==
    ASSUME NEW map \in Seq(Entry), Ordered(map), NEW i \in DOMAIN map,
           NEW x \in Nat, x < End(map[i])
    PROVE  Tells(map, x)
<1>1. /\ Len(map) \in DOMAIN map /\ i \in Nat /\ i <= Len(map) /\ Len(map) \in Nat
  OBVIOUS
<1>2. PICK n \in DOMAIN map : n = Len(map)
  BY <1>1
<1>3. /\ End(map[i]) \in Nat /\ End(map[n]) \in Nat
      /\ map[n].addr \in Nat /\ map[n].size \in Nat
  BY EntryTypes
<1>4. End(map[i]) <= End(map[n])
  <2>1. CASE i = n
    BY <1>3, <2>1
  <2>2. CASE i # n
    <3>1. End(map[i]) <= map[n].addr
      BY <1>1, <1>2, <2>2 DEF Ordered
    <3>2. map[n].addr <= End(map[n])
      BY <1>3 DEF End
    <3> QED
      BY <1>3, <3>1, <3>2
  <2> QED
    BY <2>1, <2>2
<1>5. x < map[n].addr + map[n].size
  BY <1>3, <1>4 DEF End
<1> QED
  BY <1>2, <1>5 DEF Tells

RamThroughout(map, a, n) == \A x \in Nat : a <= x /\ x < a + n => RamIn(map, x)

\* A range of RAM lies in one entry of a table with gaps.
LEMMA RunOfRam ==
    ASSUME NEW map \in Seq(Entry), Ordered(map), Gapped(map),
           NEW a \in Nat, NEW n \in Nat \ {0},
           RamThroughout(map, a, n)
    PROVE  \E i \in DOMAIN map : IsRam(map[i]) /\ map[i].addr <= a /\ a + n <= End(map[i])
<1>1. PICK i \in DOMAIN map : RamOver(map[i], a)
  <2>1. a <= a /\ a < a + n
    OBVIOUS
  <2> QED
    BY <2>1 DEF RamThroughout, RamIn
<1>2. /\ IsRam(map[i]) /\ map[i].addr <= a /\ a < End(map[i])
      /\ map[i].addr \in Nat /\ End(map[i]) \in Nat /\ i \in Nat
  BY <1>1, EntryTypes DEF RamOver, Covers, IsRam, End
<1>3. ASSUME End(map[i]) < a + n PROVE FALSE
  <2>1. PICK j \in DOMAIN map : RamOver(map[j], End(map[i]))
    BY <1>2, <1>3 DEF RamThroughout, RamIn
  <2>2. /\ IsRam(map[j]) /\ map[j].addr <= End(map[i]) /\ End(map[i]) < End(map[j])
        /\ map[j].addr \in Nat /\ End(map[j]) \in Nat /\ j \in Nat
    BY <2>1, EntryTypes DEF RamOver, Covers, IsRam, End
  <2>3. CASE i < j
    <3>1. End(map[i]) < map[j].addr
      BY <1>2, <2>2, <2>3 DEF Gapped
    <3> QED
      BY <1>2, <2>2, <3>1
  <2>4. CASE j < i
    <3>1. End(map[j]) <= map[i].addr
      BY <2>4 DEF Ordered
    <3> QED
      BY <1>2, <2>2, <3>1
  <2>5. i # j
    BY <1>2, <2>2
  <2> QED
    BY <1>2, <2>2, <2>3, <2>4, <2>5
<1> QED
  BY <1>2, <1>3

\* Up to a byte that is RAM, e820 is RAM where the boot loader's largest type is and the
\* hole is not.
LEMMA RamMatches ==
    ASSUME IInv, GapInv, Pairs, stage = "done", NEW x \in Nat, NEW y \in Nat, x <= y,
           RamIn(e820, y)
    PROVE  RamIn(e820, x) <=> TypeAt(LowWords(mmap), x) = E820_RAM /\ ~InHole(x)
<1>1. /\ biosmap \in Seq(Entry) /\ e820 \in Seq(Entry) /\ Ordered(biosmap) /\ Ordered(e820)
      /\ stage \in Copying /\ Len(biosmap) \in Nat
  BY DEF IInv, TypeOK, CopiedInOrder, Copying
<1>2. PICK i \in DOMAIN e820 : RamOver(e820[i], y)
  BY DEF RamIn
<1>3. /\ Tells(e820, x) /\ Tells(e820, y)
  <2>1. y < End(e820[i]) /\ End(e820[i]) \in Nat
    BY <1>1, <1>2, EntryTypes DEF RamOver, Covers, End
  <2>2. x < End(e820[i])
    BY <2>1
  <2> QED
    BY <1>1, <2>1, <2>2, TellsTo
<1>4. Len(biosmap) >= 2
  <2>1. e820 # <<>>
    BY <1>2
  <2> QED
    BY <1>1, <2>1 DEF GapInv
<1>5. round = Len(biosmap) + 1 /\ PrecedenceEverywhere
  BY <1>1, <1>4 DEF IInv, CopiedInOrder, GapInv
<1>6. \A z \in Nat : Tells(e820, z) => (RamIn(e820, z) <=> ~InHole(z) /\ RamIn(biosmap, z))
  <2>1. \A j \in DOMAIN biosmap : j <= round - 1
    BY <1>1, <1>5
  <2> QED
    BY <1>1, <2>1 DEF IInv, CopiedExactly, CopiedRam, RamIn
<1>7. Tells(biosmap, x)
  <2>1. PICK j \in DOMAIN biosmap : RamOver(biosmap[j], y)
    BY <1>3, <1>6 DEF RamIn
  <2>2. y < End(biosmap[j]) /\ End(biosmap[j]) \in Nat
    BY <1>1, <2>1, EntryTypes DEF RamOver, Covers, End
  <2>3. x < End(biosmap[j])
    BY <2>2
  <2> QED
    BY <1>1, <2>3, TellsTo
<1>8. RamIn(biosmap, x) <=> TypeAt(LowWords(mmap), x) = E820_RAM
  <2>1. TypeAt(biosmap, x) = E820_RAM <=> RamIn(biosmap, x)
    BY <1>1, TypeIsRam
  <2>2. TypeAt(biosmap, x) = TypeAt(LowWords(mmap), x)
    BY <1>5, <1>7 DEF PrecedenceEverywhere
  <2> QED
    BY <2>1, <2>2
<1> QED
  BY <1>3, <1>6, <1>8
=============================================================================
