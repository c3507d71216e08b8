-------------------------- MODULE VirtualMemoryProofs --------------------------
(***************************************************************************)
(* Proofs about VirtualMemory, for any pools, lists and page tables.       *)
(*                                                                         *)
(* The first part is about the lists of one pool: a list keeps its used    *)
(* entries in front and its regions apart, and what an operation does to   *)
(* the pages that its regions hold.                                        *)
(***************************************************************************)
EXTENDS VirtualMemory, WellFoundedInduction, FiniteSetTheorems, TLAPS

-----------------------------------------------------------------------------
(* One list                                                                *)

List == [Slot -> Region]

Held(l)   == UNION {Pages(l[i]) : i \in Slot}
Apart(l)  == \A i, j \in Slot : i # j => Pages(l[i]) \cap Pages(l[j]) = {}
Packed(l) == \A i, j \in Slot : i < j => (l[i].length = 0 => l[j].length = 0)

LEMMA FirstOf ==
    ASSUME NEW S, S \subseteq Nat, S # {}
    PROVE  First(S) \in S /\ \A j \in S : First(S) <= j
<1>1. \E x \in S : \A y \in S : ~ (<<y, x>> \in OpToRel(<, Nat))
    BY NatLessThanWellFounded, WFMin
<1>2. ASSUME NEW x \in Nat, NEW y \in Nat, y < x PROVE <<y, x>> \in OpToRel(<, Nat)
    BY <1>2 DEF OpToRel
<1>3. PICK x \in S : \A y \in S : ~ (<<y, x>> \in OpToRel(<, Nat))
    BY <1>1
<1>4. ASSUME NEW y \in S PROVE ~(y < x)
    BY <1>2, <1>3, Zenon
<1>5. \A y \in S : x <= y
    BY <1>4
<1> QED BY <1>5 DEF First

LEMMA PagesOf ==
    ASSUME NEW r \in Region
    PROVE  /\ r.start \in Nat /\ r.length \in Nat /\ Pages(r) \subseteq Nat
           /\ \A p \in Nat : p \in Pages(r) <=> r.start <= p /\ p < r.start + r.length
           /\ Pages(r) = {} <=> r.length = 0
           /\ r.length > 0 => r.start \in Pages(r)
    BY DEF Region, Pages

LEMMA SlotIs == Slots \in Nat /\ Slots >= 3 /\ Slot = 1 .. Slots /\ Unused \in Region
    BY VMPoolAssumption DEF Slot, Unused, Region

LEMMA UnusedIsEmpty == Pages(Unused) = {} /\ Unused.length = 0 /\ Unused.start = 0
    BY DEF Unused, Pages

LEMMA ShiftFacts ==
    ASSUME NEW l \in List, NEW k \in Slot
    PROVE  /\ ShiftUp(l, k) \in List
           /\ \A i \in Slot : i < k => ShiftUp(l, k)[i] = l[i]
           /\ \A i \in Slot : i >= k /\ i < Slots => ShiftUp(l, k)[i] = l[i + 1]
           /\ ShiftUp(l, k)[Slots] = Unused
           /\ \A i \in Slot : i < Slots => i + 1 \in Slot
    BY SlotIs DEF ShiftUp, List

LEMMA HeldIs ==
    ASSUME NEW l
    PROVE  \A p : p \in Held(l) <=> \E i \in Slot : p \in Pages(l[i])
    BY DEF Held

(* A region leaves a list and the entries behind it move up.               *)
LEMMA ShiftRegions ==
    ASSUME NEW l \in List, NEW k \in Slot, Apart(l)
    PROVE  /\ Apart(ShiftUp(l, k))
           /\ Held(ShiftUp(l, k)) = Held(l) \ Pages(l[k])
<1> DEFINE m == ShiftUp(l, k)
           From(i) == IF i < k THEN i ELSE i + 1
<1> HIDE DEF m
<1>1. /\ Slots \in Nat /\ Slot = 1 .. Slots /\ k \in 1 .. Slots
      /\ \A i \in Slot : i < k => m[i] = l[i]
      /\ \A i \in Slot : i >= k /\ i < Slots => m[i] = l[i + 1]
      /\ m[Slots] = Unused
    BY SlotIs, ShiftFacts DEF m
<1>2. ASSUME NEW i \in Slot, NEW p \in Pages(m[i])
      PROVE  From(i) \in Slot /\ From(i) # k /\ p \in Pages(l[From(i)])
    <2>1. CASE i < k
        BY <1>1, <1>2, <2>1
    <2>2. CASE i >= k /\ i < Slots
        BY <1>1, <1>2, <2>2
    <2>3. CASE i = Slots /\ i >= k
        BY <1>1, <1>2, <2>3, UnusedIsEmpty
    <2> QED BY <1>1, <2>1, <2>2, <2>3
<1>3. ASSUME NEW j \in Slot, j # k, NEW p \in Pages(l[j])
      PROVE  \E i \in Slot : p \in Pages(m[i])
    <2>1. CASE j < k
        BY <1>1, <1>3, <2>1
    <2>2. CASE j > k
        <3>1. j - 1 \in Slot /\ j - 1 >= k /\ j - 1 < Slots /\ (j - 1) + 1 = j
            BY <1>1, <2>2
        <3>2. m[j - 1] = l[j]
            BY <1>1, <3>1
        <3> QED BY <1>3, <3>1, <3>2
    <2> QED BY <1>1, <1>3, <2>1, <2>2
<1>4. ASSUME NEW i \in Slot, NEW j \in Slot, i # j, NEW p \in Pages(m[i]), p \in Pages(m[j])
      PROVE  FALSE
    <2>1. /\ From(i) \in Slot /\ p \in Pages(l[From(i)])
          /\ From(j) \in Slot /\ p \in Pages(l[From(j)])
        BY <1>2, <1>4
    <2>2. From(i) # From(j)
        BY <1>1, <1>4
    <2> QED BY <2>1, <2>2 DEF Apart
<1>5. Apart(m)
    BY <1>4 DEF Apart
<1>6. ASSUME NEW p \in Held(m) PROVE p \in Held(l) \ Pages(l[k])
    <2>1. PICK i \in Slot : p \in Pages(m[i])
        BY <1>6, HeldIs
    <2>2. From(i) \in Slot /\ From(i) # k /\ p \in Pages(l[From(i)])
        BY <1>2, <2>1
    <2> QED BY <2>2, HeldIs DEF Apart
<1>7. ASSUME NEW p \in Held(l) \ Pages(l[k]) PROVE p \in Held(m)
    <2>1. PICK j \in Slot : p \in Pages(l[j])
        BY <1>7, HeldIs
    <2> QED BY <1>3, <1>7, <2>1, HeldIs
<1>8. Held(m) = Held(l) \ Pages(l[k])
    BY <1>6, <1>7
<1> QED BY <1>5, <1>8 DEF m

LEMMA ShiftPacked ==
    ASSUME NEW l \in List, NEW k \in Slot, Packed(l)
    PROVE  Packed(ShiftUp(l, k))
<1> DEFINE m == ShiftUp(l, k)
<1> HIDE DEF m
<1>1. /\ Slots \in Nat /\ Slot = 1 .. Slots /\ k \in 1 .. Slots
      /\ \A i \in Slot : i < k => m[i] = l[i]
      /\ \A i \in Slot : i >= k /\ i < Slots => m[i] = l[i + 1]
      /\ m[Slots] = Unused
    BY SlotIs, ShiftFacts DEF m
<1> SUFFICES ASSUME NEW i \in Slot, NEW j \in Slot, i < j, m[i].length = 0
             PROVE  m[j].length = 0
    BY DEF Packed, m
<1>2. CASE j = Slots
    BY <1>1, <1>2, UnusedIsEmpty
<1>3. CASE j < k
    BY <1>1, <1>3 DEF Packed
<1>4. CASE j >= k /\ j < Slots
    <2>1. j + 1 \in Slot /\ m[j] = l[j + 1]
        BY <1>1, <1>4
    <2>2. \E h \in Slot : h < j + 1 /\ m[i] = l[h]
        <3>1. CASE i < k
            BY <1>1, <1>4, <3>1
        <3>2. CASE i >= k
            <4>1. i < Slots /\ i + 1 \in Slot /\ i + 1 < j + 1
                BY <1>1, <1>4
            <4> QED BY <1>1, <3>2, <4>1
        <3> QED BY <1>1, <3>1, <3>2
    <2> QED BY <2>1, <2>2 DEF Packed
<1> QED BY <1>1, <1>2, <1>3, <1>4

(* A region joins a list at the first unused entry.                        *)
LEMMA AddFacts ==
    ASSUME NEW l \in List, NEW r \in Region, Vacant(l) # {}
    PROVE  LET v == First(Vacant(l))
           IN /\ v \in Slot /\ l[v].length = 0
              /\ \A i \in Slot : i < v => l[i].length # 0
              /\ AddTo(l, r) \in List /\ AddTo(l, r)[v] = r
              /\ \A i \in Slot : i # v => AddTo(l, r)[i] = l[i]
<1> DEFINE v == First(Vacant(l))
<1>1. Vacant(l) \subseteq Nat /\ Vacant(l) \subseteq Slot
    BY SlotIs DEF Vacant
<1>2. v \in Vacant(l) /\ \A j \in Vacant(l) : v <= j
    BY <1>1, FirstOf
<1> HIDE DEF v
<1>3. v \in Slot /\ l[v].length = 0 /\ v < Slots
    BY <1>2, SlotIs DEF Vacant
<1>4. ASSUME NEW i \in Slot, i < v PROVE l[i].length # 0
    <2>1. i \in 1 .. (Slots - 1) /\ ~(v <= i)
        BY <1>3, <1>4, SlotIs
    <2> QED BY <1>2, <2>1 DEF Vacant
<1>5. AddTo(l, r) = [l EXCEPT ![v] = r]
    BY DEF AddTo, v
<1>6. /\ AddTo(l, r) \in List /\ AddTo(l, r)[v] = r
      /\ \A i \in Slot : i # v => AddTo(l, r)[i] = l[i]
    BY <1>3, <1>5 DEF List
<1> QED BY <1>3, <1>4, <1>6 DEF v

LEMMA AddRegions ==
    ASSUME NEW l \in List, NEW r \in Region, Vacant(l) # {}, Apart(l),
           Pages(r) \cap Held(l) = {}
    PROVE  /\ Apart(AddTo(l, r))
           /\ Held(AddTo(l, r)) = Held(l) \cup Pages(r)
<1> DEFINE m == AddTo(l, r)
           v == First(Vacant(l))
<1>1. /\ v \in Slot /\ l[v].length = 0 /\ m[v] = r
      /\ \A i \in Slot : i # v => m[i] = l[i]
    BY AddFacts
<1>2. Pages(l[v]) = {}
    <2>1. l[v] \in Region
        BY <1>1 DEF List
    <2> QED BY <1>1, <2>1, PagesOf
<1> HIDE DEF m, v
<1>3. \A i \in Slot : Pages(l[i]) \cap Pages(r) = {}
    BY HeldIs
<1>4. Apart(m)
    BY <1>1, <1>3 DEF Apart
<1>5. \A p : p \in Held(m) <=> p \in Held(l) \/ p \in Pages(r)
    BY <1>1, <1>2, HeldIs
<1> QED BY <1>4, <1>5 DEF m

LEMMA AddPacked ==
    ASSUME NEW l \in List, NEW r \in Region, Vacant(l) # {}, Packed(l), r.length > 0
    PROVE  Packed(AddTo(l, r))
<1> DEFINE m == AddTo(l, r)
           v == First(Vacant(l))
<1>1. /\ v \in Slot /\ l[v].length = 0 /\ m[v] = r
      /\ \A i \in Slot : i < v => l[i].length # 0
      /\ \A i \in Slot : i # v => m[i] = l[i]
      /\ Slot = 1 .. Slots
    BY AddFacts, SlotIs
<1>2. r.length # 0
    BY DEF Region
<1> HIDE DEF m, v
<1> SUFFICES ASSUME NEW i \in Slot, NEW j \in Slot, i < j, m[i].length = 0
             PROVE  m[j].length = 0
    BY DEF Packed, m
<1>3. i # v /\ l[i].length = 0 /\ i > v
    BY <1>1, <1>2, SlotIs
<1>4. j # v /\ j > i
    BY <1>1, <1>3, SlotIs
<1> QED BY <1>1, <1>3, <1>4 DEF Packed

(* The first pages of a region are cut off.                                *)
LEMMA CarveFacts ==
    ASSUME NEW l \in List, NEW k \in Slot, NEW n \in Nat \ {0}, l[k].length >= n, Apart(l)
    PROVE  LET r == [start |-> l[k].start, length |-> n]
           IN /\ Carve(l, k, n) \in List /\ r \in Region /\ Pages(r) \subseteq Pages(l[k])
              /\ Apart(Carve(l, k, n))
              /\ Held(Carve(l, k, n)) = Held(l) \ Pages(r)
              /\ Packed(l) => Packed(Carve(l, k, n))
<1> DEFINE r == [start |-> l[k].start, length |-> n]
           m == Carve(l, k, n)
<1>1. l[k] \in Region /\ l[k].start \in Nat /\ l[k].length \in Nat
    BY DEF List, Region
<1>2. r \in Region /\ r.start = l[k].start /\ r.length = n
    BY <1>1 DEF Region
<1>3. Pages(r) \subseteq Pages(l[k])
    BY <1>1, <1>2 DEF Pages
<1>4. CASE l[k].length > n
    <2> DEFINE s == [start |-> l[k].start + n, length |-> l[k].length - n]
    <2>1. m = [l EXCEPT ![k] = s]
        BY <1>4 DEF Carve
    <2>2. s \in Region /\ s.length # 0 /\ s.length > 0
        BY <1>1, <1>4 DEF Region
    <2>3. Pages(s) = Pages(l[k]) \ Pages(r)
        BY <1>1, <1>2, <1>4 DEF Pages
    <2>4. m \in List /\ m[k] = s /\ \A i \in Slot : i # k => m[i] = l[i]
        BY <2>1, <2>2 DEF List
    <2> HIDE DEF m, s, r
    <2>5. Apart(m)
        BY <2>3, <2>4 DEF Apart
    <2>6. \A p : p \in Held(m) <=> p \in Held(l) /\ p \notin Pages(r)
        BY <1>3, <2>3, <2>4, HeldIs DEF Apart
    <2>7. Packed(l) => Packed(m)
        <3>1. l[k].length # 0
            BY <1>1, <1>4
        <3> QED BY <2>2, <2>4, <3>1 DEF Packed
    <2> QED BY <1>2, <1>3, <2>4, <2>5, <2>6, <2>7 DEF m, r
<1>5. CASE ~(l[k].length > n)
    <2>1. m = ShiftUp(l, k)
        BY <1>5 DEF Carve
    <2>2. Pages(r) = Pages(l[k])
        BY <1>1, <1>2, <1>5 DEF Pages
    <2> QED BY <1>2, <1>3, <2>1, <2>2, ShiftFacts, ShiftRegions, ShiftPacked
<1> QED BY <1>4, <1>5

-----------------------------------------------------------------------------
(* The lists of the pools                                                  *)

(* A size within one page of the end of the address space, or 0, is        *)
(* rounded up to no page at all: allocate then returns a region that it    *)
(* does not enter.                                                         *)
NoEmptyRequest == \A size \in Request : SizeInPages(size) # 0

Divided(q) ==
    /\ Apart(allocList[q]) /\ Apart(freeList[q])
    /\ Held(allocList[q]) \cap Held(freeList[q]) = {}
    /\ Held(allocList[q]) \cup Held(freeList[q]) = PoolPages(q)

(* The two list pages stay where the constructor entered them, and an      *)
(* unused entry has no start that a release could look for.                *)
Kept(q) ==
    /\ allocList[q][1] = [start |-> BasePage[q], length |-> 1]
    /\ allocList[q][2] = [start |-> BasePage[q] + 1, length |-> 1]
    /\ \A i \in Slot : allocList[q][i].length = 0 => allocList[q][i].start = 0

RegionAt(q, i) == <<q, allocList[q][i].start, allocList[q][i].length>>

Holds(q, i) == allocList[q][i].length > 0

GivenInv ==
    \A g : g \in given <=>
        \E q \in Pool : Constructed(q) /\ \E i \in 3 .. Slots : Holds(q, i) /\ g = RegionAt(q, i)

ListsInv ==
    /\ allocList \in [Pool -> List] /\ freeList \in [Pool -> List]
    /\ \A q \in Pool : Packed(allocList[q]) /\ Packed(freeList[q])
    /\ \A q \in Pool : Constructed(q) => Divided(q) /\ Kept(q)
    /\ GivenInv

(* What the thread is at fits the lists.                                   *)
DoingInv ==
    \/ doing = Idle
    \/ \E p \in GivenPages : doing = Touching(p)
    \/ \E q \in Pool : \E p \in Metadata(q) : doing = Building(q, p) /\ ~Constructed(q)
    \/ \E q \in Pool : \E i \in 3 .. Slots : \E p \in Nat :
           /\ doing = Releasing(q, i, p)
           /\ Constructed(q) /\ Holds(q, i)
           /\ allocList[q][i].start <= p
           /\ p <= allocList[q][i].start + allocList[q][i].length

PoolInv == ListsInv /\ DoingInv

LEMMA PoolFacts ==
    ASSUME NEW q \in Pool
    PROVE  /\ BasePage[q] \in Nat \ {0} /\ NPages[q] \in Nat /\ NPages[q] >= 2
           /\ Metadata(q) = {BasePage[q], BasePage[q] + 1}
           /\ Metadata(q) \subseteq PoolPages(q)
           /\ PoolPages(q) \subseteq Nat \ {0}
    BY VMPoolAssumption DEF Metadata, PoolPages

LEMMA WholePages == ASSUME NEW size \in Request PROVE SizeInPages(size) \in Nat
<1>1. size \in Nat /\ PageSize \in Nat \ {0} /\ Word \in Nat \ {0}
    BY VMPoolAssumption
<1>2. size \div PageSize \in Nat
    BY <1>1
<1>3. ((size \div PageSize + 1) * PageSize) % Word \in Nat
    BY <1>1, <1>2
<1>4. (((size \div PageSize + 1) * PageSize) % Word) \div PageSize \in Nat
    BY <1>1, <1>3
<1> QED BY <1>2, <1>4 DEF SizeInPages

(* The lists of the other pools are left alone.                            *)
LEMMA OtherPool ==
    ASSUME ListsInv, NEW q \in Pool, NEW p \in Pool, p # q,
           allocList'[p] = allocList[p], freeList'[p] = freeList[p]
    PROVE  /\ Packed(allocList[p])' /\ Packed(freeList[p])'
           /\ Constructed(p)' <=> Constructed(p)
           /\ Constructed(p) => Divided(p)' /\ Kept(p)'
           /\ \A i : RegionAt(p, i)' = RegionAt(p, i) /\ (Holds(p, i)' <=> Holds(p, i))
<1>1. Constructed(p)' <=> Constructed(p)
    BY DEF Constructed
<1>2. Packed(allocList[p])' /\ Packed(freeList[p])'
    BY DEF ListsInv, Packed
<1>3. Divided(p) => Divided(p)'
    <2>1. Divided(p)' <=>
              /\ Apart(allocList'[p]) /\ Apart(freeList'[p])
              /\ Held(allocList'[p]) \cap Held(freeList'[p]) = {}
              /\ Held(allocList'[p]) \cup Held(freeList'[p]) = PoolPages(p)
        BY DEF Divided, Apart, Held, Pages, PoolPages
    <2> QED BY <2>1 DEF Divided
<1>4. Kept(p) => Kept(p)'
    BY DEF Kept
<1> QED BY <1>1, <1>2, <1>3, <1>4 DEF RegionAt, Holds, ListsInv

(* VMPool::VMPool.                                                         *)
LEMMA BuiltLists ==
    ASSUME ListsInv, NEW q \in Pool, ~Constructed(q), InitLists(q)
    PROVE  /\ ListsInv' /\ Constructed(q)'
           /\ \A p \in Pool : p # q => allocList'[p] = allocList[p]
           /\ \A p \in Pool : Constructed(p) => Constructed(p)'
<1> DEFINE r1 == [start |-> BasePage[q], length |-> 1]
           r2 == [start |-> BasePage[q] + 1, length |-> 1]
           r3 == [start |-> BasePage[q] + 2, length |-> NPages[q] - 2]
           a  == [i \in Slot |-> IF i = 1 THEN r1 ELSE IF i = 2 THEN r2 ELSE Unused]
           f  == [i \in Slot |-> IF i = 1 THEN r3 ELSE Unused]
<1>1. /\ allocList' = [allocList EXCEPT ![q] = a]
      /\ freeList' = [freeList EXCEPT ![q] = f] /\ given' = given
    BY DEF InitLists
<1>2. /\ BasePage[q] \in Nat \ {0} /\ NPages[q] \in Nat /\ NPages[q] >= 2
      /\ r1 \in Region /\ r2 \in Region /\ r3 \in Region
    BY PoolFacts DEF Region
<1>3. 1 \in Slot /\ 2 \in Slot /\ Slot \subseteq Nat
    BY SlotIs
<1>4. a \in List /\ f \in List
    BY <1>2, SlotIs DEF List
<1>5. /\ allocList' \in [Pool -> List] /\ freeList' \in [Pool -> List]
      /\ allocList'[q] = a /\ freeList'[q] = f
      /\ \A p \in Pool : p # q => allocList'[p] = allocList[p] /\ freeList'[p] = freeList[p]
    BY <1>1, <1>4 DEF ListsInv
<1>6. /\ a[1] = r1 /\ a[2] = r2 /\ f[1] = r3
      /\ \A i \in Slot : (i # 1 /\ i # 2 => a[i] = Unused) /\ (i # 1 => f[i] = Unused)
    BY <1>3
<1>7. /\ Pages(r1) = {BasePage[q]} /\ Pages(r2) = {BasePage[q] + 1}
      /\ Pages(r3) = BasePage[q] + 2 .. BasePage[q] + NPages[q] - 1
    <2>1. \A b \in Nat : b .. (b + 1 - 1) = {b}
        OBVIOUS
    <2>2. (BasePage[q] + 2) + (NPages[q] - 2) - 1 = BasePage[q] + NPages[q] - 1
        BY <1>2
    <2> QED BY <1>2, <2>1, <2>2 DEF Pages
<1>8. r1.length = 1 /\ r2.length = 1 /\ r3.length = NPages[q] - 2
    OBVIOUS
<1> HIDE DEF a, f, r1, r2, r3
<1>9. Packed(a) /\ Packed(f)
    <2>1. \A j \in Slot : j > 2 => a[j].length = 0
        BY <1>3, <1>6, UnusedIsEmpty
    <2>2. \A j \in Slot : j > 1 => f[j].length = 0
        BY <1>3, <1>6, UnusedIsEmpty
    <2>3. a[1].length # 0 /\ a[2].length # 0
        BY <1>6, <1>8
    <2>4. \A i \in Slot : i = 1 \/ i = 2 \/ i > 2
        BY SlotIs
    <2>5. Packed(a)
        BY <1>3, <2>1, <2>3, <2>4 DEF Packed
    <2>6. Packed(f)
        <3>1. \A i, j \in Slot : i < j => j > 1
            BY SlotIs
        <3> QED BY <2>2, <3>1 DEF Packed
    <2> QED BY <2>5, <2>6
<1>10. Apart(a) /\ Apart(f)
    BY <1>2, <1>6, <1>7, UnusedIsEmpty DEF Apart
<1>11. /\ \A p : p \in Held(a) <=> p \in Pages(r1) \/ p \in Pages(r2)
       /\ \A p : p \in Held(f) <=> p \in Pages(r3)
    BY <1>3, <1>6, UnusedIsEmpty, HeldIs
<1>12. Held(a) \cap Held(f) = {} /\ Held(a) \cup Held(f) = PoolPages(q)
    BY <1>2, <1>7, <1>11 DEF PoolPages
<1>13. Divided(q)'
    <2>1. (Divided(q))' <=>
              /\ Apart(allocList'[q]) /\ Apart(freeList'[q])
              /\ Held(allocList'[q]) \cap Held(freeList'[q]) = {}
              /\ Held(allocList'[q]) \cup Held(freeList'[q]) = PoolPages(q)
        BY DEF Divided, Apart, Held, Pages, PoolPages
    <2> QED BY <1>5, <1>10, <1>12, <2>1
<1>14. Kept(q)' /\ Constructed(q)'
    BY <1>5, <1>6, <1>8, UnusedIsEmpty DEF Kept, Constructed, r1, r2
<1>15. \A i \in 3 .. Slots : ~Holds(q, i)'
    BY <1>5, <1>6, UnusedIsEmpty, SlotIs DEF Holds
<1>16. GivenInv'
    <2> SUFFICES ASSUME NEW g
                 PROVE  g \in given <=>
                            \E p \in Pool : Constructed(p)' /\ \E i \in 3 .. Slots :
                                Holds(p, i)' /\ g = RegionAt(p, i)'
        BY <1>1 DEF GivenInv, Constructed, Holds, RegionAt
    <2>1. g \in given <=>
              \E p \in Pool : Constructed(p) /\ \E i \in 3 .. Slots :
                  Holds(p, i) /\ g = RegionAt(p, i)
        BY DEF ListsInv, GivenInv
    <2>2. ASSUME NEW p \in Pool, p # q
          PROVE  /\ Constructed(p)' <=> Constructed(p)
                 /\ \A i : RegionAt(p, i)' = RegionAt(p, i) /\ (Holds(p, i)' <=> Holds(p, i))
        BY <1>5, <2>2, OtherPool
    <2> QED BY <1>15, <2>1, <2>2
<1>17. Packed(allocList[q])' /\ Packed(freeList[q])'
    BY <1>5, <1>9 DEF Packed
<1>18. ASSUME NEW p \in Pool
       PROVE  /\ Packed(allocList[p])' /\ Packed(freeList[p])'
              /\ Constructed(p)' => Divided(p)' /\ Kept(p)'
              /\ Constructed(p) => Constructed(p)'
    <2>1. CASE p = q
        BY <1>13, <1>14, <1>17, <2>1
    <2>2. CASE p # q
        BY <1>5, <2>2, OtherPool
    <2> QED BY <2>1, <2>2
<1>19. ListsInv'
    BY <1>5, <1>16, <1>18 DEF ListsInv
<1> QED BY <1>5, <1>14, <1>18, <1>19

(* What an operation on the lists of one pool has to show of them.         *)
LEMMA OnePool ==
    ASSUME ListsInv, NEW q \in Pool, NEW a \in List, NEW f \in List,
           allocList' = [allocList EXCEPT ![q] = a],
           freeList' = [freeList EXCEPT ![q] = f],
           Packed(a), Packed(f), Apart(a), Apart(f),
           Held(a) \cap Held(f) = {}, Held(a) \cup Held(f) = PoolPages(q),
           a[1] = [start |-> BasePage[q], length |-> 1],
           a[2] = [start |-> BasePage[q] + 1, length |-> 1],
           \A i \in Slot : a[i].length = 0 => a[i].start = 0
    PROVE  /\ allocList' \in [Pool -> List] /\ freeList' \in [Pool -> List]
           /\ \A p \in Pool : Packed(allocList[p])' /\ Packed(freeList[p])'
           /\ \A p \in Pool : Constructed(p)' => Divided(p)' /\ Kept(p)'
           /\ Constructed(q)'
           /\ allocList'[q] = a /\ freeList'[q] = f
           /\ \A p \in Pool : p # q =>
                /\ Constructed(p)' <=> Constructed(p)
                /\ \A i : RegionAt(p, i)' = RegionAt(p, i) /\ (Holds(p, i)' <=> Holds(p, i))
<1>1. /\ allocList' \in [Pool -> List] /\ freeList' \in [Pool -> List]
      /\ allocList'[q] = a /\ freeList'[q] = f
      /\ \A p \in Pool : p # q => allocList'[p] = allocList[p] /\ freeList'[p] = freeList[p]
    BY DEF ListsInv
<1>2. Divided(q)'
    <2>1. (Divided(q))' <=>
              /\ Apart(allocList'[q]) /\ Apart(freeList'[q])
              /\ Held(allocList'[q]) \cap Held(freeList'[q]) = {}
              /\ Held(allocList'[q]) \cup Held(freeList'[q]) = PoolPages(q)
        BY DEF Divided, Apart, Held, Pages, PoolPages
    <2> QED BY <1>1, <2>1
<1>3. Kept(q)'
    BY <1>1 DEF Kept
<1>4. Constructed(q)'
    BY <1>1 DEF Constructed
<1>5. Packed(allocList[q])' /\ Packed(freeList[q])'
    BY <1>1 DEF Packed
<1>6. ASSUME NEW p \in Pool, p # q
      PROVE  /\ Packed(allocList[p])' /\ Packed(freeList[p])'
             /\ Constructed(p)' <=> Constructed(p)
             /\ Constructed(p)' => Divided(p)' /\ Kept(p)'
             /\ \A i : RegionAt(p, i)' = RegionAt(p, i) /\ (Holds(p, i)' <=> Holds(p, i))
    BY <1>1, <1>6, OtherPool
<1>7. \A p \in Pool : Packed(allocList[p])' /\ Packed(freeList[p])'
    <2> TAKE p \in Pool
    <2> QED BY <1>5, <1>6
<1>8. \A p \in Pool : Constructed(p)' => Divided(p)' /\ Kept(p)'
    <2> TAKE p \in Pool
    <2> QED BY <1>2, <1>3, <1>6
<1> QED BY <1>1, <1>4, <1>6, <1>7, <1>8

(* VMPool::allocate.                                                       *)
LEMMA AllocatedLists ==
    ASSUME ListsInv, NEW q \in Pool, Constructed(q), NEW size \in Request,
           SizeInPages(size) # 0, Allocate(q, size)
    PROVE  /\ ListsInv'
           /\ \A p \in Pool : Constructed(p)' <=> Constructed(p)
           /\ \A p \in Pool : Held(allocList[p]) \subseteq Held(allocList'[p])
<1> DEFINE n == SizeInPages(size)
           k == First(Fitting(q, n))
           r == [start |-> freeList[q][k].start, length |-> n]
           a == AddTo(allocList[q], r)
           f == Carve(freeList[q], k, n)
           v == First(Vacant(allocList[q]))
<1>1. /\ allocList' = [allocList EXCEPT ![q] = a] /\ freeList' = [freeList EXCEPT ![q] = f]
      /\ given' = given \cup {<<q, r.start, n>>}
      /\ Fitting(q, n) # {} /\ Vacant(allocList[q]) # {}
    BY DEF Allocate, CanAllocate
<1>2. n \in Nat \ {0}
    BY WholePages
<1>3. k \in Slot /\ freeList[q][k].length >= n
    <2>1. Fitting(q, n) \subseteq Nat
        BY SlotIs DEF Fitting
    <2>2. k \in Fitting(q, n)
        BY <1>1, <2>1, FirstOf
    <2> HIDE DEF k, n
    <2> QED BY <2>2 DEF Fitting
<1>4. /\ allocList[q] \in List /\ freeList[q] \in List
      /\ Packed(allocList[q]) /\ Packed(freeList[q])
      /\ Divided(q) /\ Kept(q)
    BY DEF ListsInv
<1>5. /\ r.start = freeList[q][k].start /\ r.length = n
    OBVIOUS
<1> HIDE DEF k, n
<1>6. /\ f \in List /\ r \in Region /\ Pages(r) \subseteq Pages(freeList[q][k])
      /\ Apart(f) /\ Held(f) = Held(freeList[q]) \ Pages(r) /\ Packed(f)
    BY <1>2, <1>3, <1>4, CarveFacts DEF Divided
<1> HIDE DEF r, f
<1>7. Pages(r) \subseteq Held(freeList[q])
    BY <1>3, <1>6, HeldIs
<1>8. Pages(r) \cap Held(allocList[q]) = {}
    BY <1>4, <1>7 DEF Divided
<1>9. Apart(a) /\ Held(a) = Held(allocList[q]) \cup Pages(r)
    BY <1>1, <1>4, <1>6, <1>8, AddRegions DEF Divided
<1>10. Packed(a)
    <2>1. r.length > 0
        BY <1>2, <1>5
    <2> QED BY <1>1, <1>4, <1>6, <2>1, AddPacked
<1>11. /\ v \in Slot /\ allocList[q][v].length = 0
       /\ a \in List /\ a[v] = r
       /\ \A i \in Slot : i # v => a[i] = allocList[q][i]
    BY <1>1, <1>4, <1>6, AddFacts
<1> HIDE DEF a, v
<1>12. v \in 3 .. Slots
    <2>1. allocList[q][1].length = 1 /\ allocList[q][2].length = 1
        BY <1>4 DEF Kept
    <2>2. v # 1 /\ v # 2
        BY <1>11, <2>1
    <2> QED BY <1>11, <2>2, SlotIs
<1>13. Held(a) \cap Held(f) = {} /\ Held(a) \cup Held(f) = PoolPages(q)
    BY <1>4, <1>6, <1>7, <1>9 DEF Divided
<1>14. /\ a[1] = [start |-> BasePage[q], length |-> 1]
       /\ a[2] = [start |-> BasePage[q] + 1, length |-> 1]
    BY <1>4, <1>11, <1>12, SlotIs DEF Kept
<1>15. \A i \in Slot : a[i].length = 0 => a[i].start = 0
    <2>1. a[v].length # 0
        BY <1>2, <1>5, <1>11
    <2> QED BY <1>4, <1>11, <2>1 DEF Kept
<1>16. /\ allocList' \in [Pool -> List] /\ freeList' \in [Pool -> List]
       /\ \A p \in Pool : Packed(allocList[p])' /\ Packed(freeList[p])'
       /\ \A p \in Pool : Constructed(p)' => Divided(p)' /\ Kept(p)'
       /\ Constructed(q)'
       /\ allocList'[q] = a /\ freeList'[q] = f
       /\ \A p \in Pool : p # q =>
            /\ Constructed(p)' <=> Constructed(p)
            /\ \A i : RegionAt(p, i)' = RegionAt(p, i) /\ (Holds(p, i)' <=> Holds(p, i))
    BY <1>1, <1>6, <1>9, <1>10, <1>11, <1>13, <1>14, <1>15, OnePool
<1>17. GivenInv'
    <2> SUFFICES ASSUME NEW g
                 PROVE  g \in given' <=>
                            \E p \in Pool : Constructed(p)' /\ \E i \in 3 .. Slots :
                                Holds(p, i)' /\ g = RegionAt(p, i)'
        BY DEF GivenInv, Constructed, Holds, RegionAt
    <2>1. g \in given <=>
              \E p \in Pool : Constructed(p) /\ \E i \in 3 .. Slots :
                  Holds(p, i) /\ g = RegionAt(p, i)
        BY DEF ListsInv, GivenInv
    <2>0. PICK w \in 3 .. Slots : w = v
        BY <1>12
    <2>2. Holds(q, w)' /\ RegionAt(q, w)' = <<q, r.start, n>> /\ ~Holds(q, w)
        <3>1. allocList'[q][w] = r
            BY <1>11, <1>16, <2>0
        <3>2. allocList'[q][w].start = r.start /\ allocList'[q][w].length = n
            BY <1>5, <3>1
        <3>3. n > 0 /\ ~(allocList[q][w].length > 0)
            BY <1>2, <1>11, <2>0
        <3>4. Holds(q, w)' /\ ~Holds(q, w)
            BY <3>2, <3>3 DEF Holds
        <3>5. RegionAt(q, w)' = <<q, r.start, n>>
            BY <3>2, Zenon DEF RegionAt
        <3> QED BY <3>4, <3>5
    <2>3. ASSUME NEW i \in 3 .. Slots, i # w
          PROVE  RegionAt(q, i)' = RegionAt(q, i) /\ (Holds(q, i)' <=> Holds(q, i))
        <3>1. i \in Slot
            BY SlotIs
        <3>2. allocList'[q][i] = allocList[q][i]
            BY <1>11, <1>16, <2>0, <2>3, <3>1
        <3> QED BY <3>2 DEF Holds, RegionAt
    <2> DEFINE R == <<q, r.start, n>>
    <2>4. g \in given' <=> g \in given \/ g = R
        BY <1>1
    <2> HIDE DEF R
    <2>5. RegionAt(q, w)' = R
        BY <2>2 DEF R
    <2>6. ASSUME g \in given'
          PROVE  \E p \in Pool : Constructed(p)' /\ \E i \in 3 .. Slots :
                     Holds(p, i)' /\ g = RegionAt(p, i)'
        <3>1. CASE g = R
            BY <1>12, <1>16, <2>2, <2>5, <3>1
        <3>2. CASE g \in given
            <4>1. PICK p \in Pool : Constructed(p) /\ \E i \in 3 .. Slots :
                         Holds(p, i) /\ g = RegionAt(p, i)
                BY <2>1, <3>2
            <4>2. PICK i \in 3 .. Slots : Holds(p, i) /\ g = RegionAt(p, i)
                BY <4>1
            <4>3. CASE p # q
                BY <1>16, <4>1, <4>2, <4>3
            <4>4. CASE p = q
                BY <1>16, <2>2, <2>3, <4>2, <4>4
            <4> QED BY <4>3, <4>4
        <3> QED BY <2>4, <2>6, <3>1, <3>2
    <2>7. ASSUME NEW p \in Pool, Constructed(p)', NEW i \in 3 .. Slots,
                 Holds(p, i)', g = RegionAt(p, i)'
          PROVE  g \in given'
        <3>1. CASE p # q
            BY <1>16, <2>1, <2>4, <2>7, <3>1
        <3>2. CASE p = q
            BY <2>1, <2>3, <2>4, <2>5, <2>7, <3>2
        <3> QED BY <3>1, <3>2
    <2> QED BY <2>6, <2>7
<1>18. ListsInv'
    BY <1>16, <1>17 DEF ListsInv
<1>19. ASSUME NEW p \in Pool PROVE Held(allocList[p]) \subseteq Held(allocList'[p])
    <2>1. CASE p = q
        BY <1>9, <1>16, <2>1
    <2>2. CASE p # q
        <3>1. allocList'[p] = allocList[p]
            BY <1>1, <2>2 DEF ListsInv
        <3> QED BY <3>1
    <2> QED BY <2>1, <2>2
<1> QED BY <1>16, <1>18, <1>19

(* Two entries that hold a region start at different pages.                *)
LEMMA StartsDiffer ==
    ASSUME NEW l \in List, Apart(l), NEW i \in Slot, NEW j \in Slot, i # j,
           l[i].length > 0, l[j].length > 0
    PROVE  l[i].start # l[j].start
<1>1. l[i] \in Region /\ l[j] \in Region
    BY DEF List
<1>2. l[i].start \in Pages(l[i]) /\ l[j].start \in Pages(l[j])
    BY <1>1, PagesOf
<1> QED BY <1>2 DEF Apart

(* VMPool::release, when the pages are gone.                               *)
LEMMA ReleasedLists ==
    ASSUME ListsInv, NEW q \in Pool, Constructed(q), NEW i \in 3 .. Slots, Holds(q, i),
           RemoveEntry(q, i)
    PROVE  /\ ListsInv'
           /\ \A p \in Pool : Constructed(p)' <=> Constructed(p)
           /\ \A p \in Pool : p # q => allocList'[p] = allocList[p]
           /\ Held(allocList'[q]) = Held(allocList[q]) \ Pages(allocList[q][i])
<1> DEFINE l == allocList[q]
           r == allocList[q][i]
           a == ShiftUp(allocList[q], i)
           f == AddTo(freeList[q], r)
<1>1. /\ allocList' = [allocList EXCEPT ![q] = a] /\ freeList' = [freeList EXCEPT ![q] = f]
      /\ given' = given \ {RegionAt(q, i)} /\ Vacant(freeList[q]) # {}
    BY DEF RemoveEntry, CanRelease, RegionAt
<1>2. /\ l \in List /\ freeList[q] \in List /\ Packed(l) /\ Packed(freeList[q])
      /\ Divided(q) /\ Kept(q) /\ Apart(l) /\ Apart(freeList[q])
    BY DEF ListsInv, Divided
<1>3. /\ i \in Slot /\ Slots \in Nat /\ Slots >= 3 /\ Slot = 1 .. Slots
    BY SlotIs
<1>4. r \in Region /\ r.length > 0
    BY <1>2, <1>3 DEF List, Holds
<1>5. /\ Apart(a) /\ Held(a) = Held(l) \ Pages(r) /\ Packed(a) /\ a \in List
      /\ \A j \in Slot : j < i => a[j] = l[j]
      /\ \A j \in Slot : j >= i /\ j < Slots => a[j] = l[j + 1]
      /\ a[Slots] = Unused
    BY <1>2, <1>3, ShiftRegions, ShiftPacked, ShiftFacts
<1>6. Pages(r) \subseteq Held(l)
    BY <1>3, HeldIs
<1>7. Pages(r) \cap Held(freeList[q]) = {}
    BY <1>2, <1>6 DEF Divided
<1>8. Apart(f) /\ Held(f) = Held(freeList[q]) \cup Pages(r)
    BY <1>1, <1>2, <1>4, <1>7, AddRegions
<1>9. Packed(f) /\ f \in List
    BY <1>1, <1>2, <1>4, AddPacked, AddFacts
<1>10. Held(a) \cap Held(f) = {} /\ Held(a) \cup Held(f) = PoolPages(q)
    BY <1>2, <1>5, <1>6, <1>8 DEF Divided
<1>11. /\ a[1] = [start |-> BasePage[q], length |-> 1]
       /\ a[2] = [start |-> BasePage[q] + 1, length |-> 1]
    <2>1. 1 \in Slot /\ 2 \in Slot /\ 1 < i /\ 2 < i
        BY <1>3
    <2>2. a[1] = l[1] /\ a[2] = l[2]
        BY <1>5, <2>1
    <2> QED BY <1>2, <2>2 DEF Kept
<1>12. ASSUME NEW j \in Slot
       PROVE  \/ a[j] = Unused /\ j = Slots
              \/ j < i /\ a[j] = l[j]
              \/ j >= i /\ j + 1 \in Slot /\ a[j] = l[j + 1]
    BY <1>3, <1>5
<1>13. \A j \in Slot : a[j].length = 0 => a[j].start = 0
    <2> TAKE j \in Slot
    <2>1. CASE a[j] = Unused
        BY <2>1, UnusedIsEmpty
    <2>2. CASE \E h \in Slot : a[j] = l[h]
        BY <1>2, <2>2 DEF Kept
    <2> QED BY <1>12, <2>1, <2>2
<1> HIDE DEF a, f
<1>14. /\ allocList' \in [Pool -> List] /\ freeList' \in [Pool -> List]
       /\ \A p \in Pool : Packed(allocList[p])' /\ Packed(freeList[p])'
       /\ \A p \in Pool : Constructed(p)' => Divided(p)' /\ Kept(p)'
       /\ Constructed(q)'
       /\ allocList'[q] = a /\ freeList'[q] = f
       /\ \A p \in Pool : p # q =>
            /\ Constructed(p)' <=> Constructed(p)
            /\ \A j : RegionAt(p, j)' = RegionAt(p, j) /\ (Holds(p, j)' <=> Holds(p, j))
    BY <1>1, <1>5, <1>8, <1>9, <1>10, <1>11, <1>13, OnePool
<1>15. ASSUME NEW j \in 3 .. Slots, Holds(q, j)'
       PROVE  \E h \in 3 .. Slots : h # i /\ Holds(q, h) /\ RegionAt(q, j)' = RegionAt(q, h)
    <2>1. j \in Slot /\ a[j].length > 0
        BY <1>3, <1>14, <1>15 DEF Holds
    <2>2. CASE j < i /\ a[j] = l[j]
        <3>1. Holds(q, j) /\ RegionAt(q, j)' = RegionAt(q, j)
            BY <1>14, <2>1, <2>2 DEF Holds, RegionAt
        <3> QED BY <2>2, <3>1
    <2>3. CASE j >= i /\ j + 1 \in Slot /\ a[j] = l[j + 1]
        <3>1. Holds(q, j + 1) /\ RegionAt(q, j)' = RegionAt(q, j + 1)
            BY <1>14, <2>1, <2>3 DEF Holds, RegionAt
        <3>2. j + 1 \in 3 .. Slots /\ j + 1 # i
            BY <1>3, <2>3
        <3> QED BY <3>1, <3>2
    <2>4. a[j] # Unused
        BY <2>1, UnusedIsEmpty
    <2> QED BY <1>12, <2>1, <2>2, <2>3, <2>4
<1>16. ASSUME NEW h \in 3 .. Slots, h # i, Holds(q, h)
       PROVE  \E j \in 3 .. Slots : Holds(q, j)' /\ RegionAt(q, j)' = RegionAt(q, h)
    <2>1. CASE h < i
        <3>1. a[h] = l[h]
            BY <1>3, <1>5, <2>1
        <3>2. Holds(q, h)' /\ RegionAt(q, h)' = RegionAt(q, h)
            BY <1>14, <1>16, <3>1 DEF Holds, RegionAt
        <3> QED BY <3>2
    <2>2. CASE h > i
        <3>1. h - 1 \in 3 .. Slots /\ h - 1 \in Slot /\ h - 1 >= i /\ h - 1 < Slots /\ (h - 1) + 1 = h
            BY <1>3, <2>2
        <3>2. a[h - 1] = l[h]
            BY <1>5, <3>1
        <3>3. Holds(q, h - 1)' /\ RegionAt(q, h - 1)' = RegionAt(q, h)
            BY <1>14, <1>16, <3>2 DEF Holds, RegionAt
        <3> QED BY <3>1, <3>3
    <2> QED BY <1>16, <2>1, <2>2
<1>17. ASSUME NEW h \in 3 .. Slots, h # i, Holds(q, h) PROVE RegionAt(q, h) # RegionAt(q, i)
    <2>1. l[h].start # l[i].start
        BY <1>2, <1>3, <1>17, StartsDiffer DEF Holds
    <2> QED BY <2>1 DEF RegionAt
<1>18. ASSUME NEW p \in Pool, p # q, NEW h PROVE RegionAt(p, h) # RegionAt(q, i)
    BY <1>18 DEF RegionAt
<1>19. GivenInv'
    <2> SUFFICES ASSUME NEW g
                 PROVE  g \in given' <=>
                            \E p \in Pool : Constructed(p)' /\ \E j \in 3 .. Slots :
                                Holds(p, j)' /\ g = RegionAt(p, j)'
        BY DEF GivenInv, Constructed, Holds, RegionAt
    <2>1. g \in given <=>
              \E p \in Pool : Constructed(p) /\ \E j \in 3 .. Slots :
                  Holds(p, j) /\ g = RegionAt(p, j)
        BY DEF ListsInv, GivenInv
    <2>2. g \in given' <=> g \in given /\ g # RegionAt(q, i)
        BY <1>1
    <2>3. ASSUME g \in given'
          PROVE  \E p \in Pool : Constructed(p)' /\ \E j \in 3 .. Slots :
                     Holds(p, j)' /\ g = RegionAt(p, j)'
        <3>1. PICK p \in Pool : Constructed(p) /\ \E j \in 3 .. Slots :
                     Holds(p, j) /\ g = RegionAt(p, j)
            BY <2>1, <2>2, <2>3
        <3>2. PICK j \in 3 .. Slots : Holds(p, j) /\ g = RegionAt(p, j)
            BY <3>1
        <3>3. CASE p # q
            BY <1>14, <3>1, <3>2, <3>3
        <3>4. CASE p = q
            BY <1>14, <1>16, <2>2, <2>3, <3>2, <3>4
        <3> QED BY <3>3, <3>4
    <2>4. ASSUME NEW p \in Pool, Constructed(p)', NEW j \in 3 .. Slots,
                 Holds(p, j)', g = RegionAt(p, j)'
          PROVE  g \in given'
        <3>1. CASE p # q
            BY <1>14, <1>18, <2>1, <2>2, <2>4, <3>1
        <3>2. CASE p = q
            BY <1>15, <1>17, <2>1, <2>2, <2>4, <3>2
        <3> QED BY <3>1, <3>2
    <2> QED BY <2>3, <2>4
<1>20. ListsInv'
    BY <1>14, <1>19 DEF ListsInv
<1>21. \A p \in Pool : p # q => allocList'[p] = allocList[p]
    BY <1>1 DEF ListsInv
<1> QED BY <1>5, <1>14, <1>20, <1>21

-----------------------------------------------------------------------------
(* The steps                                                               *)

LEMMA ListsInvKept ==
    ASSUME ListsInv, UNCHANGED poolVars PROVE ListsInv' /\ GivenPages' = GivenPages
                                              /\ \A q : Constructed(q)' <=> Constructed(q)
<1>1. allocList' = allocList /\ freeList' = freeList /\ given' = given
    BY DEF poolVars
<1>2. GivenInv'
    BY <1>1 DEF ListsInv, GivenInv, Constructed, Holds, RegionAt
<1>3. ASSUME NEW p \in Pool
      PROVE  /\ Packed(allocList[p])' /\ Packed(freeList[p])'
             /\ Constructed(p)' <=> Constructed(p)
             /\ Constructed(p) => Divided(p)' /\ Kept(p)'
    <2>1. Packed(allocList[p])' /\ Packed(freeList[p])'
        BY <1>1 DEF ListsInv, Packed
    <2>2. Divided(p) => Divided(p)'
        BY <1>1 DEF Divided, Apart, Held, Pages
    <2> QED BY <1>1, <2>1, <2>2 DEF ListsInv, Constructed, Kept
<1> QED BY <1>1, <1>2, <1>3 DEF ListsInv, GivenPages, Constructed

LEMMA PoolInvKept ==
    ASSUME PoolInv, UNCHANGED <<poolVars, doing>> PROVE PoolInv'
<1>1. allocList' = allocList /\ given' = given /\ doing' = doing
    BY DEF poolVars
<1>2. ListsInv'
    BY ListsInvKept DEF PoolInv
<1>3. DoingInv'
    BY <1>1 DEF PoolInv, DoingInv, GivenPages, Constructed, Holds
<1> QED BY <1>2, <1>3 DEF PoolInv

(* operator delete finds the entry of the region that its caller returns.  *)
LEMMA DeletedEntry ==
    ASSUME ListsInv, NEW g \in given
    PROVE  \E q \in Pool : \E i \in 3 .. Slots :
               /\ g[1] = q /\ First(Matching(g[1], g[2])) = i /\ RegionAt(q, i) = g
               /\ Constructed(q) /\ Holds(q, i) /\ g[2] = allocList[q][i].start
               /\ allocList[q][i] \in Region
<1>1. PICK q \in Pool : Constructed(q) /\ \E i \in 3 .. Slots : Holds(q, i) /\ g = RegionAt(q, i)
    BY DEF ListsInv, GivenInv
<1>2. PICK i \in 3 .. Slots : Holds(q, i) /\ g = RegionAt(q, i)
    BY <1>1
<1> DEFINE l == allocList[q]
<1>3. /\ l \in List /\ Divided(q) /\ Kept(q) /\ Apart(l) /\ i \in Slot /\ l[i] \in Region
    BY <1>1, SlotIs DEF ListsInv, Divided, List
<1>4. l[i].start # 0
    <2>1. l[i].start \in Pages(l[i])
        BY <1>2, <1>3, PagesOf DEF Holds
    <2>2. l[i].start \in Held(l)
        BY <1>3, <2>1, HeldIs
    <2> QED BY <1>3, <2>2, PoolFacts DEF Divided
<1>5. g[1] = q /\ g[2] = l[i].start
    BY <1>2 DEF RegionAt
<1>6. ASSUME NEW j \in Slot, l[j].start = l[i].start PROVE j = i
    <2>1. l[j].length # 0
        BY <1>3, <1>4, <1>6 DEF Kept
    <2>2. l[j].length > 0
        BY <1>3, <2>1 DEF List, Region
    <2> QED BY <1>2, <1>3, <1>6, <2>2, StartsDiffer DEF Holds
<1>7. Matching(q, l[i].start) = {i}
    BY <1>3, <1>6 DEF Matching
<1>8. First({i}) = i
    <2>1. {i} \subseteq Nat /\ {i} # {}
        BY <1>3, SlotIs
    <2> QED BY <2>1, FirstOf
<1> QED BY <1>1, <1>2, <1>3, <1>5, <1>7, <1>8

LEMMA PoolInit == Init => PoolInv
<1> SUFFICES ASSUME Init PROVE PoolInv
    OBVIOUS
<1>1. /\ allocList = [q \in Pool |-> [i \in Slot |-> Unused]]
      /\ freeList = [q \in Pool |-> [i \in Slot |-> Unused]]
      /\ given = {} /\ doing = Idle
    BY DEF Init, EmptyLists
<1>2. [i \in Slot |-> Unused] \in List
    BY SlotIs DEF List
<1>3. /\ allocList \in [Pool -> List] /\ freeList \in [Pool -> List]
      /\ \A q \in Pool : allocList[q] = [i \in Slot |-> Unused] /\ freeList[q] = [i \in Slot |-> Unused]
    BY <1>1, <1>2
<1>4. Packed([i \in Slot |-> Unused])
    BY UnusedIsEmpty DEF Packed
<1>5. \A q \in Pool : ~Constructed(q)
    BY <1>3, UnusedIsEmpty, SlotIs DEF Constructed
<1>6. GivenInv
    BY <1>1, <1>5 DEF GivenInv
<1> QED BY <1>1, <1>3, <1>4, <1>5, <1>6 DEF PoolInv, ListsInv, DoingInv

LEMMA PoolStep ==
    ASSUME NoEmptyRequest, PoolInv, [Next]_vars PROVE PoolInv'
<1>1. ASSUME NEW q \in Pool, Construct(q) PROVE PoolInv'
    <2>1. ListsInv' /\ ~Constructed(q)'
        BY <1>1, ListsInvKept DEF Construct, PoolInv
    <2>2. doing' = Building(q, BasePage[q]) /\ BasePage[q] \in Metadata(q)
        BY <1>1, PoolFacts DEF Construct
    <2>3. DoingInv'
        BY <2>1, <2>2 DEF DoingInv
    <2> QED BY <2>1, <2>3 DEF PoolInv
<1>2. ASSUME NEW q \in Pool, NEW size \in Request, New(q, size) PROVE PoolInv'
    <2>1. CASE CanAllocate(q, SizeInPages(size))
        <3>1. Allocate(q, size) /\ doing' = Idle /\ Constructed(q)
            BY <1>2, <2>1 DEF New, Ready
        <3>2. ListsInv'
            BY <3>1, AllocatedLists DEF NoEmptyRequest, PoolInv
        <3> QED BY <3>1, <3>2 DEF PoolInv, DoingInv
    <2>2. CASE ~CanAllocate(q, SizeInPages(size))
        <3>1. UNCHANGED <<poolVars, doing>>
            BY <1>2, <2>2 DEF New, Stop
        <3> QED BY <3>1, PoolInvKept
    <2> QED BY <2>1, <2>2
<1>3. ASSUME NEW p \in Page, Touch(p) PROVE PoolInv'
    <2>1. ListsInv' /\ p \in GivenPages' /\ doing' = Touching(p)
        BY <1>3, ListsInvKept DEF Touch, PoolInv
    <2>2. DoingInv'
        BY <2>1 DEF DoingInv
    <2> QED BY <2>1, <2>2 DEF PoolInv
<1>4. ASSUME NEW g \in given, Delete(g) PROVE PoolInv'
    <2>1. PICK q \in Pool : \E i \in 3 .. Slots :
              /\ g[1] = q /\ First(Matching(g[1], g[2])) = i /\ RegionAt(q, i) = g
              /\ Constructed(q) /\ Holds(q, i) /\ g[2] = allocList[q][i].start
              /\ allocList[q][i] \in Region
        BY DeletedEntry DEF PoolInv
    <2>2. PICK i \in 3 .. Slots :
              /\ g[1] = q /\ First(Matching(g[1], g[2])) = i /\ RegionAt(q, i) = g
              /\ Constructed(q) /\ Holds(q, i) /\ g[2] = allocList[q][i].start
              /\ allocList[q][i] \in Region
        BY <2>1
    <2>3. ListsInv' /\ allocList' = allocList /\ doing' = Releasing(q, i, g[2])
        BY <1>4, <2>2, ListsInvKept DEF Delete, PoolInv, poolVars
    <2>4. g[2] \in Nat /\ g[2] <= allocList[q][i].start + allocList[q][i].length
        BY <2>2 DEF Region
    <2>5. DoingInv'
        <3>1. /\ Constructed(q)' /\ Holds(q, i)' /\ allocList'[q][i].start <= g[2]
              /\ g[2] <= allocList'[q][i].start + allocList'[q][i].length
            BY <2>2, <2>3, <2>4 DEF Constructed, Holds
        <3> QED BY <2>3, <2>4, <3>1 DEF DoingInv
    <2> QED BY <2>3, <2>5 DEF PoolInv
<1>5. ASSUME Fault PROVE PoolInv'
    <2>1. UNCHANGED <<poolVars, doing>>
        BY <1>5 DEF Fault, Stop
    <2> QED BY <2>1, PoolInvKept
<1>6. ASSUME TouchDone PROVE PoolInv'
    <2>1. ListsInv' /\ doing' = Idle
        BY <1>6, ListsInvKept DEF TouchDone, PoolInv
    <2> QED BY <2>1 DEF PoolInv, DoingInv
<1>7. ASSUME BuildStep PROVE PoolInv'
    <2>1. PICK q \in Pool : \E p \in Metadata(q) : doing = Building(q, p) /\ ~Constructed(q)
        BY <1>7 DEF PoolInv, DoingInv, BuildStep, Idle, Touching, Releasing
    <2>2. PICK p \in Metadata(q) : doing = Building(q, p) /\ ~Constructed(q)
        BY <2>1
    <2>3. doing.pool = q /\ doing.page = p
        BY <2>2 DEF Building
    <2>4. CASE p = BasePage[q]
        <3>1. UNCHANGED poolVars /\ doing' = Building(q, p + 1)
            BY <1>7, <2>2, <2>3, <2>4 DEF BuildStep, Building
        <3>2. p + 1 \in Metadata(q)
            BY <2>4, PoolFacts
        <3>3. ListsInv' /\ ~Constructed(q)'
            BY <2>2, <3>1, ListsInvKept DEF PoolInv
        <3>4. DoingInv'
            BY <3>1, <3>2, <3>3 DEF DoingInv
        <3> QED BY <3>3, <3>4 DEF PoolInv
    <2>5. CASE p # BasePage[q]
        <3>1. InitLists(q) /\ doing' = Idle
            BY <1>7, <2>3, <2>5 DEF BuildStep
        <3>2. ListsInv'
            BY <2>2, <3>1, BuiltLists DEF PoolInv
        <3> QED BY <3>1, <3>2 DEF PoolInv, DoingInv
    <2> QED BY <2>4, <2>5
<1>8. ASSUME ReleasePage PROVE PoolInv'
    <2>1. CASE UNCHANGED <<poolVars, doing>>
        BY <2>1, PoolInvKept
    <2>2. CASE ~UNCHANGED <<poolVars, doing>>
        <3>1. /\ doing.op = "release" /\ Covers(allocList[doing.pool][doing.slot], doing.page)
              /\ UNCHANGED poolVars /\ doing' = [doing EXCEPT !.page = @ + 1]
            BY <1>8, <2>2 DEF ReleasePage, ReleaseLoop, Stop
        <3>2. PICK q \in Pool : \E i \in 3 .. Slots : \E p \in Nat :
                   /\ doing = Releasing(q, i, p)
                   /\ Constructed(q) /\ Holds(q, i)
                   /\ allocList[q][i].start <= p
                   /\ p <= allocList[q][i].start + allocList[q][i].length
            BY <3>1 DEF PoolInv, DoingInv, Idle, Touching, Building
        <3>3. PICK i \in 3 .. Slots : \E p \in Nat :
                   /\ doing = Releasing(q, i, p)
                   /\ Constructed(q) /\ Holds(q, i)
                   /\ allocList[q][i].start <= p
                   /\ p <= allocList[q][i].start + allocList[q][i].length
            BY <3>2
        <3>4. PICK p \in Nat :
                   /\ doing = Releasing(q, i, p)
                   /\ Constructed(q) /\ Holds(q, i)
                   /\ allocList[q][i].start <= p
                   /\ p <= allocList[q][i].start + allocList[q][i].length
            BY <3>3
        <3>5. doing' = Releasing(q, i, p + 1) /\ Covers(allocList[q][i], p)
            BY <3>1, <3>4 DEF Releasing
        <3>6. allocList[q][i].start \in Nat /\ allocList[q][i].length \in Nat
            BY SlotIs DEF PoolInv, ListsInv, List, Region
        <3>7. ListsInv' /\ allocList' = allocList
            BY <3>1, ListsInvKept DEF PoolInv, poolVars
        <3>8. /\ Constructed(q)' /\ Holds(q, i)' /\ allocList'[q][i].start <= p + 1
              /\ p + 1 <= allocList'[q][i].start + allocList'[q][i].length
            BY <3>4, <3>5, <3>6, <3>7 DEF Constructed, Holds, Covers
        <3>9. DoingInv'
            BY <3>5, <3>8 DEF DoingInv
        <3> QED BY <3>7, <3>9 DEF PoolInv
    <2> QED BY <2>1, <2>2
<1>9. ASSUME ReleaseDone PROVE PoolInv'
    <2>1. CASE CanRelease(doing.pool)
        <3>1. doing.op = "release" /\ RemoveEntry(doing.pool, doing.slot) /\ doing' = Idle
            BY <1>9, <2>1 DEF ReleaseDone, ReleaseLoop
        <3>2. PICK q \in Pool : \E i \in 3 .. Slots :
                   /\ doing.pool = q /\ doing.slot = i /\ Constructed(q) /\ Holds(q, i)
            BY <3>1 DEF PoolInv, DoingInv, Idle, Touching, Building, Releasing
        <3>3. ListsInv'
            BY <3>1, <3>2, ReleasedLists DEF PoolInv
        <3> QED BY <3>1, <3>3 DEF PoolInv, DoingInv
    <2>2. CASE ~CanRelease(doing.pool)
        <3>1. UNCHANGED <<poolVars, doing>>
            BY <1>9, <2>2 DEF ReleaseDone, Stop
        <3> QED BY <3>1, PoolInvKept
    <2> QED BY <2>1, <2>2
<1>10. CASE UNCHANGED vars
    <2>1. UNCHANGED <<poolVars, doing>>
        BY <1>10 DEF vars
    <2> QED BY <2>1, PoolInvKept
<1> QED BY <1>1, <1>2, <1>3, <1>4, <1>5, <1>6, <1>7, <1>8, <1>9, <1>10 DEF Next

LEMMA PoolInvariant == ASSUME NoEmptyRequest PROVE Spec => []PoolInv
<1>1. Init => PoolInv
    BY PoolInit
<1>2. PoolInv /\ [Next]_vars => PoolInv'
    BY PoolStep
<1> QED BY <1>1, <1>2, PTL DEF Spec

-----------------------------------------------------------------------------
(* A shift leaves no gap in a list: the loops of allocate and release that *)
(* look for an unused entry never stop before a used one.                  *)
THEOREM NoGapInLists == ASSUME NoEmptyRequest PROVE Spec => []ListsPacked
<1>1. PoolInv => ListsPacked
    BY DEF PoolInv, ListsInv, ListsPacked, Packed
<1> QED BY <1>1, PoolInvariant, PTL

(* After any calls of the constructor, allocate and release, the entries   *)
(* of a pool's two lists divide its pages among them.                      *)
THEOREM PoolIsDivided == ASSUME NoEmptyRequest PROVE Spec => []RegionsPartition
<1>1. PoolInv => RegionsPartition
    <2> SUFFICES ASSUME PoolInv, NEW q \in Pool, Constructed(q)
                 PROVE  /\ \A d, e \in Entries(q) :
                               d # e => Pages(EntryOf(q, d)) \cap Pages(EntryOf(q, e)) = {}
                        /\ UNION {Pages(EntryOf(q, e)) : e \in Entries(q)} = PoolPages(q)
        BY DEF RegionsPartition
    <2>1. Divided(q)
        BY DEF PoolInv, ListsInv
    <2>2. ASSUME NEW e \in Entries(q)
          PROVE  \E i \in Slot : \/ e = <<"alloc", i>> /\ EntryOf(q, e) = allocList[q][i]
                                 \/ e = <<"free", i>> /\ EntryOf(q, e) = freeList[q][i]
        BY DEF Entries, EntryOf
    <2>3. ASSUME NEW i \in Slot, NEW j \in Slot
          PROVE  Pages(allocList[q][i]) \cap Pages(freeList[q][j]) = {}
        BY <2>1, HeldIs DEF Divided
    <2>4. ASSUME NEW d \in Entries(q), NEW e \in Entries(q), d # e
          PROVE  Pages(EntryOf(q, d)) \cap Pages(EntryOf(q, e)) = {}
        <3>1. PICK i \in Slot : \/ d = <<"alloc", i>> /\ EntryOf(q, d) = allocList[q][i]
                                \/ d = <<"free", i>> /\ EntryOf(q, d) = freeList[q][i]
            BY <2>2
        <3>2. PICK j \in Slot : \/ e = <<"alloc", j>> /\ EntryOf(q, e) = allocList[q][j]
                                \/ e = <<"free", j>> /\ EntryOf(q, e) = freeList[q][j]
            BY <2>2
        <3>3. Apart(allocList[q]) /\ Apart(freeList[q])
            BY <2>1 DEF Divided
        <3> QED BY <2>3, <2>4, <3>1, <3>2, <3>3 DEF Apart
    <2>5. ASSUME NEW i \in Slot
          PROVE  /\ <<"alloc", i>> \in Entries(q) /\ EntryOf(q, <<"alloc", i>>) = allocList[q][i]
                 /\ <<"free", i>> \in Entries(q) /\ EntryOf(q, <<"free", i>>) = freeList[q][i]
        BY DEF Entries, EntryOf
    <2> DEFINE U == UNION {Pages(EntryOf(q, e)) : e \in Entries(q)}
    <2>6. ASSUME NEW p \in U PROVE p \in Held(allocList[q]) \cup Held(freeList[q])
        <3>1. PICK e \in Entries(q) : p \in Pages(EntryOf(q, e))
            BY <2>6
        <3> QED BY <2>2, <3>1, HeldIs
    <2>7. ASSUME NEW p, p \in Held(allocList[q]) \/ p \in Held(freeList[q]) PROVE p \in U
        <3>1. \E e \in Entries(q) : p \in Pages(EntryOf(q, e))
            BY <2>5, <2>7, HeldIs
        <3> QED BY <3>1
    <2>8. U = PoolPages(q)
        <3> HIDE DEF U
        <3> QED BY <2>1, <2>6, <2>7 DEF Divided
    <2> QED BY <2>4, <2>8
<1> QED BY <1>1, PoolInvariant, PTL

(* The allocated list and the callers agree: what allocate returned and    *)
(* nobody released is entered, and beside it only the two list pages.      *)
THEOREM CallersHoldTheirRegions == ASSUME NoEmptyRequest PROVE Spec => []GivenIsAllocated
<1>1. PoolInv => GivenIsAllocated
    <2> SUFFICES ASSUME PoolInv, NEW q \in Pool, Constructed(q)
                 PROVE  {RegionAt(q, i) : i \in {j \in Slot : Holds(q, j)}}
                        = {g \in given : g[1] = q} \cup
                          {<<q, BasePage[q], 1>>, <<q, BasePage[q] + 1, 1>>}
        BY DEF GivenIsAllocated, RegionAt, Holds
    <2>1. \A g : g \in given <=>
              \E p \in Pool : Constructed(p) /\ \E i \in 3 .. Slots :
                  Holds(p, i) /\ g = RegionAt(p, i)
        BY DEF PoolInv, ListsInv, GivenInv
    <2>2. /\ RegionAt(q, 1) = <<q, BasePage[q], 1>> /\ Holds(q, 1)
          /\ RegionAt(q, 2) = <<q, BasePage[q] + 1, 1>> /\ Holds(q, 2)
        <3>1. Kept(q)
            BY DEF PoolInv, ListsInv
        <3>2. /\ allocList[q][1].start = BasePage[q] /\ allocList[q][1].length = 1
              /\ allocList[q][2].start = BasePage[q] + 1 /\ allocList[q][2].length = 1
            BY <3>1 DEF Kept
        <3>3. Holds(q, 1) /\ Holds(q, 2)
            BY <3>2 DEF Holds
        <3>4. RegionAt(q, 1) = <<q, BasePage[q], 1>> /\ RegionAt(q, 2) = <<q, BasePage[q] + 1, 1>>
            BY <3>2, Zenon DEF RegionAt
        <3> QED BY <3>3, <3>4
    <2>3. /\ \A i \in Slot : i = 1 \/ i = 2 \/ i \in 3 .. Slots
          /\ 1 \in Slot /\ 2 \in Slot /\ \A i \in 3 .. Slots : i \in Slot
        BY SlotIs
    <2>4. \A p, i : RegionAt(p, i)[1] = p
        BY DEF RegionAt
    <2>5. ASSUME NEW i \in Slot, Holds(q, i)
          PROVE  RegionAt(q, i) \in {g \in given : g[1] = q} \cup
                                    {<<q, BasePage[q], 1>>, <<q, BasePage[q] + 1, 1>>}
        <3>1. CASE i = 1 \/ i = 2
            BY <2>2, <3>1
        <3>2. CASE i \in 3 .. Slots
            BY <2>1, <2>4, <2>5, <3>2
        <3> QED BY <2>3, <3>1, <3>2
    <2>6. ASSUME NEW g \in given, g[1] = q
          PROVE  \E i \in Slot : Holds(q, i) /\ g = RegionAt(q, i)
        BY <2>1, <2>3, <2>4, <2>6
    <2> QED BY <2>2, <2>3, <2>5, <2>6
<1> QED BY <1>1, PoolInvariant, PTL

-----------------------------------------------------------------------------
(* The page tables                                                         *)

(* The invariants below hold as long as no caller holds a page whose table *)
(* entry maps the table itself: run SelfMappedPage shows what happens to a *)
(* caller that does.  The regions of the shipped main and the list pages   *)
(* of its pools stay clear of these pages.                                 *)
ClearOfTables ==
    (GivenPages \cup UNION {Metadata(q) : q \in Pool}) \cap SelfPages = {}

User     == Page \ SelfPages
Reserved == {Lowest(Frame), Lowest(Frame \ {Lowest(Frame)})}
Usable   == Frame \ Reserved

Typed ==
    /\ freeFrames \subseteq Usable
    /\ dir \in [Table -> Entry]
    /\ memory \in [Frame -> Content]
    /\ tlb \in [Page -> Entry]
    /\ written \subseteq User

(* Every present directory entry names a page table of its own.            *)
TablesInv ==
    /\ \A x \in Table : dir[x] # 0 =>
           dir[x] \in Usable \ freeFrames /\ memory[dir[x]].kind = "table"
    /\ \A x, y \in Table : dir[x] # 0 /\ dir[x] = dir[y] => x = y

(* A mapped page has a frame of its own, which is no page table.           *)
MappingInv ==
    /\ \A p \in User : Mapped(p) # 0 =>
           Mapped(p) \in Usable \ freeFrames /\ \A x \in Table : dir[x] # Mapped(p)
    /\ \A p, r \in User : Mapped(p) # 0 /\ Mapped(p) = Mapped(r) => p = r

TlbInv == \A p \in Page : tlb[p] # 0 => p \in User /\ tlb[p] = Mapped(p)

UsedInv ==
    \A f \in Usable \ freeFrames :
        (\E x \in Table : dir[x] = f) \/ (\E p \in User : Mapped(p) = f)

PageInv == Typed /\ TablesInv /\ MappingInv /\ TlbInv /\ ContentsKept /\ UsedInv

(* Where a mapped page comes from, and how far a release has got.          *)
Backed(p) ==
    \E q \in Pool :
        \/ Constructed(q) /\ (p \in Metadata(q) \/ p \in Held(allocList[q]))
        \/ p \in Metadata(q) /\ doing \in {Building(q, r) : r \in Metadata(q)}

BackedInv ==
    /\ \A p \in User : Mapped(p) # 0 => Backed(p)
    /\ doing.op = "release" =>
           \A p \in User :
               allocList[doing.pool][doing.slot].start <= p /\ p < doing.page => Mapped(p) = 0

LEMMA LowestOf ==
    ASSUME NEW S, S \subseteq Nat, S # {}
    PROVE  Lowest(S) \in S
<1>1. Lowest(S) = First(S)
    BY DEF Lowest, First
<1> QED BY <1>1, FirstOf

LEMMA DivMod ==
    ASSUME NEW p \in Nat, NEW n \in Nat, n > 0
    PROVE  p \div n \in Nat /\ p % n \in 0 .. n - 1 /\ p = (p \div n) * n + (p % n)
    OBVIOUS

LEMMA PageIs ==
    ASSUME NEW p \in Page
    PROVE  /\ p \in Nat /\ DirOf(p) \in Table /\ IndexOf(p) \in Index
           /\ p = DirOf(p) * N + IndexOf(p)
<1>1. N \in Nat /\ N > 0 /\ NTables \in Nat /\ (NTables + 1) * N \in Nat
    BY PageTableAssumption
<1>2. p \in Nat /\ N <= p /\ p < (NTables + 1) * N
    BY <1>1 DEF Page
<1>3. DirOf(p) \in Nat /\ IndexOf(p) \in 0 .. N - 1 /\ p = DirOf(p) * N + IndexOf(p)
    BY <1>1, <1>2, DivMod DEF DirOf, IndexOf
<1>4. ASSUME NEW d \in Nat, NEW m \in 0 .. N - 1, p = d * N + m
      PROVE  d >= 1 /\ d <= NTables
    <2>1. d >= 1
        BY <1>1, <1>2, <1>4
    <2>2. d <= NTables
        BY <1>1, <1>2, <1>4
    <2> QED BY <2>1, <2>2
<1> QED BY <1>1, <1>2, <1>3, <1>4 DEF Table, Index

LEMMA SamePage ==
    ASSUME NEW p \in Page, NEW r \in Page, DirOf(p) = DirOf(r), IndexOf(p) = IndexOf(r)
    PROVE  p = r
    BY PageIs

LEMMA UserIs ==
    ASSUME NEW p \in User
    PROVE  p \in Page /\ IndexOf(p) \in Index /\ IndexOf(p) # N - 1
    BY PageIs DEF User, SelfPages

LEMMA FrameIs == Frame \subseteq Nat /\ 0 \notin Frame /\ Usable \subseteq Frame /\ IsFiniteSet(Frame)
    BY PageTableAssumption DEF Usable

LEMMA ContentIs ==
    /\ \A w \in [Index -> Entry] :
           TableOf(w) \in Content /\ TableOf(w).kind = "table" /\ TableOf(w).words = w
    /\ \A p \in Page \cup {0} : DataOf(p) \in Content /\ DataOf(p).kind = "data"
    /\ \A c \in Content : c.kind = "table" => c.words \in [Index -> Entry] /\ c = TableOf(c.words)
<1>1. ASSUME NEW w \in [Index -> Entry]
      PROVE  TableOf(w) \in Content /\ TableOf(w).kind = "table" /\ TableOf(w).words = w
    BY DEF Content, TableOf
<1>2. ASSUME NEW p \in Page \cup {0} PROVE DataOf(p) \in Content /\ DataOf(p).kind = "data"
    BY DEF Content, DataOf
<1>3. ASSUME NEW c \in Content, c.kind = "table"
      PROVE  c.words \in [Index -> Entry] /\ c = TableOf(c.words)
    <2>1. CASE c \in {TableOf(w) : w \in [Index -> Entry]}
        <3>1. PICK w \in [Index -> Entry] : c = TableOf(w)
            BY <2>1
        <3> QED BY <1>1, <3>1
    <2>2. CASE c \in {DataOf(p) : p \in Page \cup {0}}
        BY <1>2, <1>3, <2>2
    <2> QED BY <2>1, <2>2 DEF Content
<1> QED BY <1>1, <1>2, <1>3

LEMMA MappedIs ==
    ASSUME Typed, TablesInv, NEW p \in Page
    PROVE  /\ dir[DirOf(p)] \in Entry
           /\ HasTable(p) <=> dir[DirOf(p)] # 0
           /\ dir[DirOf(p)] = 0 => Mapped(p) = 0
           /\ dir[DirOf(p)] # 0 =>
                /\ dir[DirOf(p)] \in Usable \ freeFrames
                /\ memory[dir[DirOf(p)]].words \in [Index -> Entry]
                /\ Mapped(p) = memory[dir[DirOf(p)]].words[IndexOf(p)]
           /\ Mapped(p) \in Entry
<1>1. DirOf(p) \in Table /\ IndexOf(p) \in Index
    BY PageIs
<1>2. dir[DirOf(p)] \in Entry
    BY <1>1 DEF Typed
<1>3. dir[DirOf(p)] # 0 => dir[DirOf(p)] \in Usable \ freeFrames /\ memory[dir[DirOf(p)]].kind = "table"
    BY <1>1 DEF TablesInv
<1>4. dir[DirOf(p)] # 0 => memory[dir[DirOf(p)]].words \in [Index -> Entry]
    <2> SUFFICES ASSUME dir[DirOf(p)] # 0 PROVE memory[dir[DirOf(p)]].words \in [Index -> Entry]
        OBVIOUS
    <2>1. memory[dir[DirOf(p)]] \in Content
        BY <1>3, FrameIs DEF Typed
    <2> QED BY <1>3, <2>1, ContentIs
<1>5. HasTable(p) <=> dir[DirOf(p)] # 0
    BY <1>3 DEF HasTable
<1>6. Mapped(p) = IF dir[DirOf(p)] # 0 THEN memory[dir[DirOf(p)]].words[IndexOf(p)] ELSE 0
    BY <1>5 DEF Mapped
<1>7. Mapped(p) \in Entry
    <2>1. CASE dir[DirOf(p)] # 0
        BY <1>1, <1>4, <1>6, <2>1
    <2>2. CASE dir[DirOf(p)] = 0
        BY <1>6, <2>2 DEF Entry
    <2> QED BY <2>1, <2>2
<1> QED BY <1>2, <1>3, <1>4, <1>5, <1>6, <1>7

(* A frame that no directory entry names and whose content did not change  *)
(* leaves translations alone: they depend on the directory and the tables. *)
LEMMA MappedKept ==
    ASSUME Typed, TablesInv, NEW r \in Page,
           dir'[DirOf(r)] = dir[DirOf(r)],
           dir[DirOf(r)] # 0 => memory'[dir[DirOf(r)]] = memory[dir[DirOf(r)]]
    PROVE  Mapped(r)' = Mapped(r)
<1>1. CASE dir[DirOf(r)] = 0
    BY <1>1 DEF Mapped, HasTable
<1>2. CASE dir[DirOf(r)] # 0
    BY <1>2 DEF Mapped, HasTable
<1> QED BY <1>1, <1>2

(* PageTable::handle_fault takes free frames, maps the page to one of them *)
(* and leaves all other pages as they are.                                 *)
LEMMA FaultEffect ==
    ASSUME Typed, TablesInv, NEW p \in User, Mapped(p) = 0, HandleFault(p)
    PROVE  \E frame \in freeFrames : \E T \in SUBSET freeFrames :
             /\ frame \notin T
             /\ freeFrames' = freeFrames \ (T \cup {frame})
             /\ Mapped(p)' = frame
             /\ \A r \in User : r # p => Mapped(r)' = Mapped(r)
             /\ dir' \in [Table -> Entry] /\ memory' \in [Frame -> Content]
             /\ \A x \in Table : dir'[x] # 0 => memory'[dir'[x]].kind = "table"
             /\ \A x \in Table : dir'[x] = dir[x] \/ (dir[x] = 0 /\ dir'[x] \in T)
             /\ \A x, y \in Table : dir'[x] \in T /\ dir'[y] \in T => x = y
             /\ \A f \in T : \E x \in Table : dir'[x] = f
             /\ \A f \in Frame : (\A x \in Table : dir'[x] # f) => memory'[f] = memory[f]
<1> DEFINE x0 == DirOf(p)
           i0 == IndexOf(p)
<1>1. /\ p \in Page /\ x0 \in Table /\ i0 \in Index /\ i0 # N - 1
    BY UserIs, PageIs
<1>2. freeFrames \subseteq Nat /\ freeFrames \subseteq Frame /\ IsFiniteSet(freeFrames)
    BY FrameIs, FS_Subset DEF Typed
<1>3. ASSUME NEW r \in User, r # p, DirOf(r) = x0 PROVE IndexOf(r) # i0
    BY <1>1, <1>3, UserIs, SamePage
<1> HIDE DEF x0, i0
<1>4. CASE dir[x0] # 0
    <2> DEFINE pt == dir[x0]
               words == memory[dir[x0]].words
               frame == Lowest(freeFrames)
               w == [words EXCEPT ![i0] = frame]
    <2>1. pt \in Frame /\ pt \notin freeFrames /\ words \in [Index -> Entry] /\ Mapped(p) = words[i0]
        BY <1>1, <1>4, MappedIs, FrameIs DEF x0, i0
    <2>2. Cardinality(freeFrames) >= 1
        BY <1>4 DEF HandleFault, CanHandleFault, FramesForFault, x0
    <2>3. freeFrames # {}
        BY <2>2, FS_EmptySet
    <2>4. frame \in freeFrames
        BY <1>2, <2>3, LowestOf
    <2>5. freeFrames \ {pt} = freeFrames
        BY <2>1
    <2>6. /\ freeFrames' = freeFrames \ {frame}
          /\ dir' = [dir EXCEPT ![x0] = pt]
          /\ memory' = [memory EXCEPT ![pt] = TableOf(w)]
        BY <1>4, <2>5 DEF HandleFault, x0, i0
    <2> HIDE DEF frame
    <2>7. dir' = dir
        BY <1>1, <2>6 DEF Typed
    <2>8. w \in [Index -> Entry] /\ w[i0] = frame /\ \A i \in Index : i # i0 => w[i] = words[i]
        BY <1>1, <1>2, <2>1, <2>4 DEF Entry
    <2> HIDE DEF w, words
    <2>9. /\ memory' \in [Frame -> Content] /\ memory'[pt] = TableOf(w)
          /\ \A f \in Frame : f # pt => memory'[f] = memory[f]
        BY <2>1, <2>6, <2>8, ContentIs DEF Typed
    <2>10. \A x \in Table : dir'[x] # 0 => memory'[dir'[x]].kind = "table"
        <3> SUFFICES ASSUME NEW x \in Table, dir[x] # 0 PROVE memory'[dir[x]].kind = "table"
            BY <2>7
        <3>1. CASE dir[x] = pt
            BY <2>8, <2>9, <3>1, ContentIs
        <3>2. CASE dir[x] # pt
            BY <2>9, <3>2, FrameIs DEF TablesInv
        <3> QED BY <3>1, <3>2
    <2>11. ASSUME NEW r \in User, DirOf(r) = x0 PROVE Mapped(r)' = w[IndexOf(r)]
        <3>1. memory'[pt].kind = "table" /\ memory'[pt].words = w /\ dir'[DirOf(r)] = pt /\ pt # 0
            BY <1>4, <2>7, <2>8, <2>9, <2>11, ContentIs
        <3> QED BY <3>1 DEF Mapped, HasTable
    <2>12. Mapped(p)' = frame
        BY <2>8, <2>11 DEF x0, i0
    <2>13. ASSUME NEW r \in User, r # p PROVE Mapped(r)' = Mapped(r)
        <3>1. CASE DirOf(r) = x0
            <4>1. Mapped(r) = words[IndexOf(r)] /\ IndexOf(r) \in Index /\ IndexOf(r) # i0
                BY <1>3, <1>4, <2>13, <3>1, MappedIs, UserIs DEF words
            <4> QED BY <2>8, <2>11, <3>1, <4>1
        <3>2. CASE DirOf(r) # x0
            <4>1. dir[DirOf(r)] # 0 => dir[DirOf(r)] # pt /\ dir[DirOf(r)] \in Frame
                BY <1>1, <3>2, UserIs, PageIs, FrameIs DEF TablesInv
            <4> QED BY <2>7, <2>9, <4>1, UserIs, MappedKept
        <3> QED BY <3>1, <3>2
    <2>14. \A f \in Frame : (\A x \in Table : dir'[x] # f) => memory'[f] = memory[f]
        BY <1>1, <2>7, <2>9
    <2>15. {} \in SUBSET freeFrames /\ freeFrames' = freeFrames \ ({} \cup {frame})
        BY <2>6
    <2>16. dir' \in [Table -> Entry] /\ \A x \in Table : dir'[x] = dir[x]
        BY <2>7 DEF Typed
    <2> QED BY <2>4, <2>9, <2>10, <2>12, <2>13, <2>14, <2>15, <2>16
<1>5. CASE dir[x0] = 0
    <2> DEFINE pt == Lowest(freeFrames)
               frame == Lowest(freeFrames \ {pt})
               w == [FreshTable(pt) EXCEPT ![i0] = frame]
    <2>1. Cardinality(freeFrames) >= 2
        BY <1>5 DEF HandleFault, CanHandleFault, FramesForFault, x0
    <2>2. freeFrames # {}
        BY <2>1, FS_EmptySet
    <2>3. pt \in freeFrames
        BY <1>2, <2>2, LowestOf
    <2>4. freeFrames \ {pt} # {}
        <3> HIDE DEF pt
        <3>1. Cardinality(freeFrames \ {pt}) = Cardinality(freeFrames) - 1
            BY <1>2, <2>3, FS_RemoveElement
        <3>2. Cardinality(freeFrames) \in Nat
            BY <1>2, FS_CardinalityType
        <3>3. freeFrames \ {pt} = {} => Cardinality(freeFrames \ {pt}) = 0
            BY FS_EmptySet, Zenon
        <3>4. Cardinality(freeFrames \ {pt}) # 0
            BY <2>1, <3>1, <3>2
        <3> QED BY <3>3, <3>4, Zenon
    <2>5. frame \in freeFrames \ {pt}
        <3>1. freeFrames \ {pt} \subseteq Nat
            BY <1>2
        <3> HIDE DEF pt
        <3> QED BY <2>4, <3>1, LowestOf
    <2>6. /\ freeFrames' = (freeFrames \ {pt}) \ {frame}
          /\ dir' = [dir EXCEPT ![x0] = pt]
          /\ memory' = [memory EXCEPT ![pt] = TableOf(w)]
        BY <1>5 DEF HandleFault, x0, i0
    <2> HIDE DEF frame, pt
    <2>7. pt \in Frame /\ frame \in Frame /\ pt \in Entry /\ frame \in Entry /\ pt # 0
        BY <1>2, <2>3, <2>5, FrameIs DEF Entry
    <2>8. w \in [Index -> Entry] /\ w[i0] = frame /\ \A i \in Index : i # i0 /\ i # N - 1 => w[i] = 0
        BY <1>1, <2>7 DEF FreshTable, Entry
    <2> HIDE DEF w
    <2>9. /\ memory' \in [Frame -> Content] /\ memory'[pt] = TableOf(w)
          /\ \A f \in Frame : f # pt => memory'[f] = memory[f]
        BY <2>6, <2>7, <2>8, ContentIs DEF Typed
    <2>10. /\ dir' \in [Table -> Entry] /\ dir'[x0] = pt
           /\ \A x \in Table : x # x0 => dir'[x] = dir[x]
        BY <1>1, <2>6, <2>7 DEF Typed
    <2>11. \A x \in Table : dir[x] # pt
        BY <2>3, <2>7 DEF TablesInv
    <2>12. \A x \in Table : dir'[x] # 0 => memory'[dir'[x]].kind = "table"
        <3> SUFFICES ASSUME NEW x \in Table, dir'[x] # 0 PROVE memory'[dir'[x]].kind = "table"
            OBVIOUS
        <3>1. CASE x = x0
            BY <2>8, <2>9, <2>10, <3>1, ContentIs
        <3>2. CASE x # x0
            <4>1. dir'[x] = dir[x] /\ dir[x] # pt /\ dir[x] # 0
                BY <2>10, <2>11, <3>2
            <4>2. dir[x] \in Frame /\ memory[dir[x]].kind = "table"
                BY <4>1, FrameIs DEF TablesInv
            <4> QED BY <2>9, <4>1, <4>2
        <3> QED BY <3>1, <3>2
    <2>13. ASSUME NEW r \in User, DirOf(r) = x0 PROVE Mapped(r)' = w[IndexOf(r)]
        <3>1. memory'[pt].kind = "table" /\ memory'[pt].words = w /\ dir'[DirOf(r)] = pt /\ pt # 0
            BY <2>7, <2>8, <2>9, <2>10, <2>13, ContentIs
        <3> QED BY <3>1 DEF Mapped, HasTable
    <2>14. Mapped(p)' = frame
        BY <2>8, <2>13 DEF x0, i0
    <2>15. ASSUME NEW r \in User, r # p PROVE Mapped(r)' = Mapped(r)
        <3>1. CASE DirOf(r) = x0
            <4>1. Mapped(r) = 0
                BY <1>5, <3>1, MappedIs, UserIs
            <4>2. IndexOf(r) \in Index /\ IndexOf(r) # i0 /\ IndexOf(r) # N - 1
                BY <1>3, <2>15, <3>1, UserIs
            <4> QED BY <2>8, <2>13, <3>1, <4>1, <4>2
        <3>2. CASE DirOf(r) # x0
            <4>1. /\ dir'[DirOf(r)] = dir[DirOf(r)]
                  /\ dir[DirOf(r)] # 0 => dir[DirOf(r)] # pt /\ dir[DirOf(r)] \in Frame
                BY <2>10, <2>11, <3>2, UserIs, PageIs, FrameIs DEF TablesInv
            <4> QED BY <2>9, <4>1, UserIs, MappedKept
        <3> QED BY <3>1, <3>2
    <2>16. \A f \in Frame : (\A x \in Table : dir'[x] # f) => memory'[f] = memory[f]
        BY <1>1, <2>9, <2>10
    <2>17. {pt} \in SUBSET freeFrames /\ freeFrames' = freeFrames \ ({pt} \cup {frame}) /\ frame \notin {pt}
        BY <2>3, <2>5, <2>6
    <2>18. /\ \A x \in Table : dir'[x] = dir[x] \/ (dir[x] = 0 /\ dir'[x] \in {pt})
           /\ \A x, y \in Table : dir'[x] \in {pt} /\ dir'[y] \in {pt} => x = y
           /\ \A f \in {pt} : \E x \in Table : dir'[x] = f
        BY <1>1, <1>5, <2>10, <2>11
    <2>19. frame \in freeFrames
        BY <2>5
    <2> QED BY <2>9, <2>10, <2>12, <2>14, <2>15, <2>16, <2>17, <2>18, <2>19
<1> QED BY <1>4, <1>5

LEMMA FaultKeeps ==
    ASSUME PageInv, NEW p \in User, Translation(p) = 0, HandleFault(p),
           tlb' = tlb, written' = written
    PROVE  PageInv' /\ \A r \in User : r # p => Mapped(r)' = Mapped(r)
<1>1. Typed /\ TablesInv /\ MappingInv /\ TlbInv /\ ContentsKept /\ UsedInv
    BY DEF PageInv
<1>2. p \in Page /\ Mapped(p) = 0
    BY UserIs DEF Translation
<1>3. PICK frame \in freeFrames : \E T \in SUBSET freeFrames :
             /\ frame \notin T
             /\ freeFrames' = freeFrames \ (T \cup {frame})
             /\ Mapped(p)' = frame
             /\ \A r \in User : r # p => Mapped(r)' = Mapped(r)
             /\ dir' \in [Table -> Entry] /\ memory' \in [Frame -> Content]
             /\ \A x \in Table : dir'[x] # 0 => memory'[dir'[x]].kind = "table"
             /\ \A x \in Table : dir'[x] = dir[x] \/ (dir[x] = 0 /\ dir'[x] \in T)
             /\ \A x, y \in Table : dir'[x] \in T /\ dir'[y] \in T => x = y
             /\ \A f \in T : \E x \in Table : dir'[x] = f
             /\ \A f \in Frame : (\A x \in Table : dir'[x] # f) => memory'[f] = memory[f]
    BY <1>1, <1>2, FaultEffect
<1>4. PICK T \in SUBSET freeFrames :
             /\ frame \notin T
             /\ freeFrames' = freeFrames \ (T \cup {frame})
             /\ Mapped(p)' = frame
             /\ \A r \in User : r # p => Mapped(r)' = Mapped(r)
             /\ dir' \in [Table -> Entry] /\ memory' \in [Frame -> Content]
             /\ \A x \in Table : dir'[x] # 0 => memory'[dir'[x]].kind = "table"
             /\ \A x \in Table : dir'[x] = dir[x] \/ (dir[x] = 0 /\ dir'[x] \in T)
             /\ \A x, y \in Table : dir'[x] \in T /\ dir'[y] \in T => x = y
             /\ \A f \in T : \E x \in Table : dir'[x] = f
             /\ \A f \in Frame : (\A x \in Table : dir'[x] # f) => memory'[f] = memory[f]
    BY <1>3
<1>5. /\ freeFrames \subseteq Usable /\ Usable \subseteq Frame /\ 0 \notin Frame
      /\ frame \in Usable /\ T \subseteq Usable /\ frame # 0
    BY <1>1, <1>4, FrameIs DEF Typed
<1>6. Typed'
    BY <1>1, <1>4 DEF Typed
<1>7. ASSUME NEW x \in Table, dir'[x] # 0
      PROVE  dir'[x] \in Usable \ freeFrames' /\ dir'[x] # frame
    <2>1. CASE dir'[x] = dir[x]
        BY <1>1, <1>4, <1>7, <2>1 DEF TablesInv
    <2>2. CASE dir'[x] \in T
        BY <1>4, <1>5, <2>2
    <2> QED BY <1>4, <2>1, <2>2
<1>8. ASSUME NEW x \in Table, NEW y \in Table, dir'[x] # 0, dir'[x] = dir'[y] PROVE x = y
    <2>1. CASE dir'[x] \in T
        BY <1>4, <1>8, <2>1
    <2>2. CASE dir'[x] \notin T
        BY <1>1, <1>4, <1>8, <2>2 DEF TablesInv
    <2> QED BY <2>1, <2>2
<1>9. TablesInv'
    BY <1>4, <1>7, <1>8 DEF TablesInv
<1>10. ASSUME NEW r \in User, r # p, Mapped(r) # 0
       PROVE  /\ Mapped(r) \in Usable \ freeFrames /\ \A x \in Table : dir'[x] # Mapped(r)
              /\ Mapped(r)' = Mapped(r)
    <2>1. Mapped(r) \in Usable \ freeFrames /\ \A x \in Table : dir[x] # Mapped(r)
        BY <1>1, <1>10 DEF MappingInv
    <2>2. \A x \in Table : dir'[x] # Mapped(r)
        BY <1>4, <2>1
    <2> QED BY <1>4, <1>10, <2>1, <2>2
<1>11. MappingInv'
    <2>1. ASSUME NEW r \in User, Mapped(r)' # 0
          PROVE  Mapped(r)' \in Usable \ freeFrames' /\ \A x \in Table : dir'[x] # Mapped(r)'
        <3>1. CASE r = p
            BY <1>4, <1>5, <1>7, <3>1
        <3>2. CASE r # p
            BY <1>4, <1>10, <2>1, <3>2
        <3> QED BY <3>1, <3>2
    <2>2. ASSUME NEW r \in User, NEW s \in User, Mapped(r)' # 0, Mapped(r)' = Mapped(s)'
          PROVE  r = s
        <3>1. CASE r # p /\ s # p
            BY <1>1, <1>4, <2>2, <3>1 DEF MappingInv
        <3>2. CASE r = p /\ s # p
            BY <1>4, <1>5, <1>10, <2>2, <3>2
        <3>3. CASE r # p /\ s = p
            BY <1>4, <1>5, <1>10, <2>2, <3>3
        <3> QED BY <3>1, <3>2, <3>3
    <2> QED BY <2>1, <2>2 DEF MappingInv
<1>12. TlbInv'
    <2> SUFFICES ASSUME NEW r \in Page, tlb[r] # 0 PROVE r \in User /\ tlb[r] = Mapped(r)'
        BY DEF TlbInv
    <2>1. r \in User /\ tlb[r] = Mapped(r)
        BY <1>1 DEF TlbInv
    <2>2. r # p
        BY <1>2, <2>1
    <2> QED BY <1>4, <2>1, <2>2
<1>13. ContentsKept'
    <2> SUFFICES ASSUME NEW r \in written
                 PROVE  Mapped(r)' # 0 /\ memory'[Mapped(r)'] = DataOf(r)
        BY DEF ContentsKept
    <2>1. r \in User /\ Mapped(r) # 0 /\ memory[Mapped(r)] = DataOf(r)
        BY <1>1 DEF ContentsKept, Typed
    <2>2. r # p
        BY <1>2, <2>1
    <2>3. memory'[Mapped(r)] = memory[Mapped(r)]
        BY <1>4, <1>5, <1>10, <2>1, <2>2
    <2> QED BY <1>10, <2>1, <2>2, <2>3
<1>14. UsedInv'
    <2> SUFFICES ASSUME NEW f \in Usable \ freeFrames'
                 PROVE  (\E x \in Table : dir'[x] = f) \/ (\E r \in User : Mapped(r)' = f)
        BY DEF UsedInv
    <2>1. CASE f = frame
        BY <1>4, <2>1
    <2>2. CASE f \in T
        BY <1>4, <2>2
    <2>3. CASE f \notin freeFrames
        <3>1. f # 0
            BY <1>5
        <3>2. CASE \E x \in Table : dir[x] = f
            BY <1>4, <3>1, <3>2
        <3>3. CASE \E r \in User : Mapped(r) = f
            BY <1>2, <1>4, <3>1, <3>3
        <3> QED BY <1>1, <2>3, <3>2, <3>3 DEF UsedInv
    <2> QED BY <1>4, <2>1, <2>2, <2>3
<1> QED BY <1>4, <1>6, <1>9, <1>11, <1>12, <1>13, <1>14 DEF PageInv

(* A store changes the frame of its page and no translation.               *)
LEMMA StoreKeeps ==
    ASSUME PageInv, NEW p \in User, Store(p), written' = written \cup {p}
    PROVE  PageInv' /\ \A r \in User : Mapped(r)' = Mapped(r)
<1>1. Typed /\ TablesInv /\ MappingInv /\ TlbInv /\ ContentsKept /\ UsedInv
    BY DEF PageInv
<1>2. p \in Page /\ Translation(p) = Mapped(p) /\ Mapped(p) # 0
    BY <1>1, UserIs DEF Translation, TlbInv, Store
<1>3. /\ memory' = [memory EXCEPT ![Mapped(p)] = DataOf(p)]
      /\ freeFrames' = freeFrames /\ dir' = dir
    BY <1>2 DEF Store
<1>4. tlb' = tlb \/ tlb' = [tlb EXCEPT ![p] = Mapped(p)]
    BY <1>2 DEF Store
<1>5. Mapped(p) \in Usable \ freeFrames /\ \A x \in Table : dir[x] # Mapped(p)
    BY <1>1, <1>2 DEF MappingInv
<1>6. Mapped(p) \in Frame /\ Mapped(p) \in Entry
    BY <1>5, FrameIs DEF Entry
<1>7. /\ memory' \in [Frame -> Content] /\ memory'[Mapped(p)] = DataOf(p)
      /\ \A f \in Frame : f # Mapped(p) => memory'[f] = memory[f]
    BY <1>1, <1>2, <1>3, <1>6, ContentIs DEF Typed
<1>8. \A x \in Table : dir[x] # 0 => dir[x] \in Frame /\ memory'[dir[x]] = memory[dir[x]]
    BY <1>1, <1>5, <1>7, FrameIs DEF TablesInv
<1>9. ASSUME NEW r \in Page PROVE Mapped(r)' = Mapped(r)
    BY <1>1, <1>3, <1>8, PageIs, MappedKept
<1>10. Typed'
    <2>1. tlb' \in [Page -> Entry]
        <3>1. tlb \in [Page -> Entry]
            BY <1>1 DEF Typed
        <3> QED BY <1>2, <1>4, <1>6, <3>1
    <2> QED BY <1>1, <1>3, <1>7, <2>1 DEF Typed
<1>11. TablesInv'
    BY <1>1, <1>3, <1>8 DEF TablesInv
<1>12. \A r \in User : Mapped(r)' = Mapped(r)
    BY <1>9, UserIs
<1>13. MappingInv'
    BY <1>1, <1>3, <1>12 DEF MappingInv
<1>14. TlbInv'
    <2> SUFFICES ASSUME NEW r \in Page, tlb'[r] # 0 PROVE r \in User /\ tlb'[r] = Mapped(r)'
        BY DEF TlbInv
    <2>1. CASE tlb'[r] = tlb[r]
        BY <1>1, <1>9, <2>1 DEF TlbInv
    <2>2. CASE r = p /\ tlb'[r] = Mapped(p)
        BY <1>9, <2>2
    <2> QED BY <1>1, <1>2, <1>4, <2>1, <2>2 DEF Typed
<1>15. ContentsKept'
    <2> SUFFICES ASSUME NEW r \in written'
                 PROVE  Mapped(r)' # 0 /\ memory'[Mapped(r)'] = DataOf(r)
        BY DEF ContentsKept
    <2>1. CASE r = p
        BY <1>2, <1>7, <1>12, <2>1
    <2>2. CASE r # p
        <3>1. r \in User /\ Mapped(r) # 0 /\ memory[Mapped(r)] = DataOf(r)
            BY <1>1, <2>2 DEF ContentsKept, Typed
        <3>2. Mapped(r) # Mapped(p) /\ Mapped(r) \in Frame
            BY <1>1, <2>2, <3>1, FrameIs DEF MappingInv
        <3> QED BY <1>7, <1>12, <3>1, <3>2
    <2> QED BY <2>1, <2>2
<1>16. UsedInv'
    BY <1>1, <1>3, <1>12 DEF UsedInv
<1> QED BY <1>10, <1>11, <1>12, <1>13, <1>14, <1>15, <1>16 DEF PageInv

(* PageTable::free_page clears the entry of its page and no other one.     *)
LEMMA FreePageKeeps ==
    ASSUME PageInv, NEW p \in User, FreePage(p), written' = written \ {p}
    PROVE  PageInv' /\ Mapped(p)' = 0 /\ \A r \in User : r # p => Mapped(r)' = Mapped(r)
<1>1. Typed /\ TablesInv /\ MappingInv /\ TlbInv /\ ContentsKept /\ UsedInv
    BY DEF PageInv
<1>2. p \in Page /\ DirOf(p) \in Table /\ IndexOf(p) \in Index
    BY UserIs, PageIs
<1>3. CASE Mapped(p) = 0
    <2>1. freeFrames' = freeFrames /\ dir' = dir /\ memory' = memory /\ tlb' = tlb
        BY <1>3 DEF FreePage, pageVars
    <2>2. \A r : Mapped(r)' = Mapped(r)
        BY <2>1 DEF Mapped, HasTable
    <2>3. Typed' /\ TablesInv' /\ MappingInv' /\ TlbInv' /\ UsedInv'
        BY <1>1, <2>1, <2>2 DEF Typed, TablesInv, MappingInv, TlbInv, UsedInv
    <2>4. ContentsKept'
        BY <1>1, <2>1, <2>2 DEF ContentsKept
    <2> QED BY <1>3, <2>2, <2>3, <2>4 DEF PageInv
<1>4. CASE Mapped(p) # 0
    <2> DEFINE pt == dir[DirOf(p)]
               m  == Mapped(p)
               w  == [memory[pt].words EXCEPT ![IndexOf(p)] = 0]
    <2>1. /\ freeFrames' = freeFrames \cup {m}
          /\ memory' = [memory EXCEPT ![pt].words[IndexOf(p)] = 0]
          /\ tlb' = [r \in Page |-> 0] /\ dir' = dir
        BY <1>4 DEF FreePage, GiveBack, Unmap, Load
    <2>2. /\ pt # 0 /\ pt \in Usable \ freeFrames /\ pt \in Frame
          /\ memory[pt].words \in [Index -> Entry] /\ memory[pt].kind = "table"
          /\ memory[pt] = TableOf(memory[pt].words)
        <3>1. pt # 0 /\ pt \in Usable \ freeFrames /\ memory[pt].words \in [Index -> Entry]
            BY <1>1, <1>2, <1>4, MappedIs
        <3>2. pt \in Frame /\ memory[pt].kind = "table"
            BY <1>1, <1>2, <3>1, FrameIs DEF TablesInv
        <3>3. memory[pt] \in Content
            BY <1>1, <3>2 DEF Typed
        <3> QED BY <3>1, <3>2, <3>3, ContentIs
    <2>3. m \in Usable \ freeFrames /\ \A x \in Table : dir[x] # m
        BY <1>1, <1>4 DEF MappingInv
    <2>4. w \in [Index -> Entry] /\ w[IndexOf(p)] = 0
          /\ \A i \in Index : i # IndexOf(p) => w[i] = memory[pt].words[i]
        BY <1>2, <2>2 DEF Entry
    <2>5. memory' = [memory EXCEPT ![pt] = TableOf(w)]
        <3>1. memory' = [memory EXCEPT ![pt] = [memory[pt] EXCEPT !.words = w]]
            BY <2>1
        <3>2. ASSUME NEW u, NEW v PROVE [TableOf(u) EXCEPT !.words = v] = TableOf(v)
            BY DEF TableOf
        <3>3. [memory[pt] EXCEPT !.words = w] = TableOf(w)
            <4> DEFINE u == memory[pt].words
            <4>1. memory[pt] = TableOf(u)
                BY <2>2
            <4> HIDE DEF u, w
            <4> QED BY <3>2, <4>1
        <3> HIDE DEF w
        <3> QED BY <3>1, <3>3
    <2> HIDE DEF w, pt, m
    <2>6. /\ memory' \in [Frame -> Content] /\ memory'[pt] = TableOf(w)
          /\ \A f \in Frame : f # pt => memory'[f] = memory[f]
        BY <1>1, <2>2, <2>4, <2>5, ContentIs DEF Typed
    <2>7. \A x \in Table : dir[x] # 0 => memory'[dir[x]].kind = "table"
        <3> SUFFICES ASSUME NEW x \in Table, dir[x] # 0 PROVE memory'[dir[x]].kind = "table"
            OBVIOUS
        <3>1. dir[x] \in Frame /\ memory[dir[x]].kind = "table"
            BY <1>1, FrameIs DEF TablesInv
        <3> QED BY <2>4, <2>6, <3>1, ContentIs
    <2>8. ASSUME NEW r \in User, DirOf(r) = DirOf(p) PROVE Mapped(r)' = w[IndexOf(r)]
        <3>1. /\ memory'[pt].kind = "table" /\ memory'[pt].words = w
              /\ dir'[DirOf(r)] = pt /\ pt # 0
            BY <2>1, <2>2, <2>4, <2>6, <2>8, ContentIs DEF pt
        <3> QED BY <3>1 DEF Mapped, HasTable
    <2>9. Mapped(p)' = 0
        BY <2>4, <2>8
    <2>10. ASSUME NEW r \in User, r # p PROVE Mapped(r)' = Mapped(r)
        <3>1. CASE DirOf(r) = DirOf(p)
            <4>1. Mapped(r) = memory[pt].words[IndexOf(r)]
                BY <1>1, <2>2, <3>1, UserIs, MappedIs DEF pt
            <4>2. IndexOf(r) \in Index /\ IndexOf(r) # IndexOf(p)
                BY <1>2, <2>10, <3>1, UserIs, SamePage
            <4> QED BY <2>4, <2>8, <3>1, <4>1, <4>2
        <3>2. CASE DirOf(r) # DirOf(p)
            <4>1. dir[DirOf(r)] # 0 => dir[DirOf(r)] # pt /\ dir[DirOf(r)] \in Frame
                BY <1>1, <1>2, <3>2, UserIs, PageIs, FrameIs DEF TablesInv, pt
            <4> QED BY <1>1, <2>1, <2>6, <4>1, UserIs, MappedKept
        <3> QED BY <3>1, <3>2
    <2>11. Typed'
        <3>1. tlb' \in [Page -> Entry]
            BY <2>1 DEF Entry
        <3> QED BY <1>1, <2>1, <2>3, <2>6, <3>1 DEF Typed
    <2>12. TablesInv'
        BY <1>1, <2>1, <2>3, <2>7 DEF TablesInv
    <2>13. MappingInv'
        <3>1. ASSUME NEW r \in User, Mapped(r)' # 0
              PROVE  /\ Mapped(r)' \in Usable \ freeFrames'
                     /\ \A x \in Table : dir'[x] # Mapped(r)'
            <4>1. r # p /\ Mapped(r)' = Mapped(r)
                BY <2>9, <2>10, <3>1
            <4>2. /\ Mapped(r) # m /\ Mapped(r) \in Usable \ freeFrames
                  /\ \A x \in Table : dir[x] # Mapped(r)
                BY <1>1, <3>1, <4>1 DEF MappingInv, m
            <4> QED BY <2>1, <4>1, <4>2
        <3>2. ASSUME NEW r \in User, NEW s \in User, Mapped(r)' # 0, Mapped(r)' = Mapped(s)'
              PROVE  r = s
            <4>1. r # p /\ s # p
                BY <2>9, <3>2
            <4> QED BY <1>1, <2>10, <3>2, <4>1 DEF MappingInv
        <3> QED BY <3>1, <3>2 DEF MappingInv
    <2>14. TlbInv'
        BY <2>1 DEF TlbInv
    <2>15. ContentsKept'
        <3> SUFFICES ASSUME NEW r \in written'
                     PROVE  Mapped(r)' # 0 /\ memory'[Mapped(r)'] = DataOf(r)
            BY DEF ContentsKept
        <3>1. /\ r \in User /\ r # p /\ Mapped(r) # 0 /\ memory[Mapped(r)] = DataOf(r)
            BY <1>1 DEF ContentsKept, Typed
        <3>2. Mapped(r) # pt /\ Mapped(r) \in Frame
            BY <1>1, <1>2, <3>1, FrameIs DEF MappingInv, pt
        <3> QED BY <2>6, <2>10, <3>1, <3>2
    <2>16. UsedInv'
        <3> SUFFICES ASSUME NEW f \in Usable \ freeFrames'
                     PROVE  (\E x \in Table : dir'[x] = f) \/ (\E r \in User : Mapped(r)' = f)
            BY DEF UsedInv
        <3>1. f \in Usable \ freeFrames /\ f # m
            BY <2>1
        <3>2. CASE \E x \in Table : dir[x] = f
            BY <2>1, <3>2
        <3>3. CASE \E r \in User : Mapped(r) = f
            BY <2>10, <3>1, <3>3 DEF m
        <3> QED BY <1>1, <3>1, <3>2, <3>3 DEF UsedInv
    <2> QED BY <2>9, <2>10, <2>11, <2>12, <2>13, <2>14, <2>15, <2>16 DEF PageInv
<1> QED BY <1>3, <1>4

LEMMA PagesUnchanged ==
    ASSUME PageInv, UNCHANGED <<pageVars, written>>
    PROVE  PageInv' /\ \A r : Mapped(r)' = Mapped(r)
<1>1. /\ freeFrames' = freeFrames /\ dir' = dir /\ memory' = memory /\ tlb' = tlb
      /\ written' = written
    BY DEF pageVars
<1>2. \A r : Mapped(r)' = Mapped(r)
    BY <1>1 DEF Mapped, HasTable
<1>3. Typed' /\ TablesInv' /\ MappingInv' /\ TlbInv' /\ UsedInv' /\ ContentsKept'
    BY <1>1, <1>2
       DEF PageInv, Typed, TablesInv, MappingInv, TlbInv, UsedInv, ContentsKept
<1> QED BY <1>2, <1>3 DEF PageInv

(* What callers hold, and what a thread accesses or releases.              *)
LEMMA HeldPages ==
    ASSUME PoolInv, ClearOfTables
    PROVE  /\ GivenPages \subseteq User
           /\ \A q \in Pool : Metadata(q) \subseteq User
           /\ \A q \in Pool : \A i \in 3 .. Slots :
                  Constructed(q) /\ Holds(q, i) => Pages(allocList[q][i]) \subseteq GivenPages
           /\ \A p \in GivenPages : \E q \in Pool : Constructed(q) /\ p \in Held(allocList[q])
<1>1. \A g : g \in given <=>
        \E q \in Pool : Constructed(q) /\ \E i \in 3 .. Slots : Holds(q, i) /\ g = RegionAt(q, i)
    BY DEF PoolInv, ListsInv, GivenInv
<1>2. \A q, i : /\ RegionAt(q, i)[2] = allocList[q][i].start
                /\ RegionAt(q, i)[3] = allocList[q][i].length
    BY DEF RegionAt
<1>3. \A q, i : RegionAt(q, i)[2] .. (RegionAt(q, i)[2] + RegionAt(q, i)[3] - 1)
                = Pages(allocList[q][i])
    BY <1>2, Zenon DEF Pages
<1>4. ASSUME NEW q \in Pool, NEW i \in 3 .. Slots, Constructed(q), Holds(q, i)
      PROVE  Pages(allocList[q][i]) \subseteq GivenPages
    <2>1. RegionAt(q, i) \in given
        BY <1>1, <1>4
    <2>2. ASSUME NEW g \in given PROVE g[2] .. (g[2] + g[3] - 1) \subseteq GivenPages
        BY DEF GivenPages
    <2> QED BY <1>3, <2>1, <2>2
<1>5. ASSUME NEW p \in GivenPages
      PROVE  \E q \in Pool : Constructed(q) /\ p \in Held(allocList[q])
    <2>1. PICK g \in given : p \in g[2] .. (g[2] + g[3] - 1)
        BY DEF GivenPages
    <2>2. PICK q \in Pool : Constructed(q) /\ \E i \in 3 .. Slots : Holds(q, i) /\ g = RegionAt(q, i)
        BY <1>1
    <2>3. PICK i \in 3 .. Slots : g = RegionAt(q, i)
        BY <2>2
    <2>4. p \in Pages(allocList[q][i])
        BY <1>3, <2>1, <2>3
    <2>5. i \in Slot
        BY SlotIs
    <2> QED BY <2>2, <2>4, <2>5, HeldIs
<1>6. ASSUME NEW p \in GivenPages PROVE p \in Page
    <2>1. PICK q \in Pool : Constructed(q) /\ p \in Held(allocList[q])
        BY <1>5
    <2>2. p \in PoolPages(q)
        BY <2>1 DEF PoolInv, ListsInv, Divided
    <2> QED BY <2>2, PoolsArePaged
<1>7. \A q \in Pool : Metadata(q) \subseteq Page
    BY PoolFacts, PoolsArePaged
<1>8. GivenPages \subseteq User
    BY <1>6 DEF ClearOfTables, User
<1>9. ASSUME NEW q \in Pool PROVE Metadata(q) \subseteq User
    BY <1>7 DEF ClearOfTables, User
<1> QED BY <1>4, <1>5, <1>8, <1>9

LEMMA ReleaseIs ==
    ASSUME PoolInv, doing.op = "release"
    PROVE  \E q \in Pool : \E i \in 3 .. Slots : \E p \in Nat :
               /\ doing = Releasing(q, i, p)
               /\ doing.pool = q /\ doing.slot = i /\ doing.page = p
               /\ Constructed(q) /\ Holds(q, i)
               /\ allocList[q][i].start \in Nat /\ allocList[q][i].length \in Nat
               /\ allocList[q][i].start <= p
               /\ p <= allocList[q][i].start + allocList[q][i].length
<1>1. PICK q \in Pool : \E i \in 3 .. Slots : \E p \in Nat :
           /\ doing = Releasing(q, i, p)
           /\ Constructed(q) /\ Holds(q, i)
           /\ allocList[q][i].start <= p
           /\ p <= allocList[q][i].start + allocList[q][i].length
    BY DEF PoolInv, DoingInv, Idle, Touching, Building
<1>2. PICK i \in 3 .. Slots : \E p \in Nat :
           /\ doing = Releasing(q, i, p)
           /\ Constructed(q) /\ Holds(q, i)
           /\ allocList[q][i].start <= p
           /\ p <= allocList[q][i].start + allocList[q][i].length
    BY <1>1
<1>3. PICK p \in Nat :
           /\ doing = Releasing(q, i, p)
           /\ Constructed(q) /\ Holds(q, i)
           /\ allocList[q][i].start <= p
           /\ p <= allocList[q][i].start + allocList[q][i].length
    BY <1>2
<1>4. allocList[q][i].start \in Nat /\ allocList[q][i].length \in Nat
    BY SlotIs DEF PoolInv, ListsInv, List, Region
<1>5. doing.pool = q /\ doing.slot = i /\ doing.page = p
    BY <1>3 DEF Releasing
<1> QED BY <1>3, <1>4, <1>5

LEMMA AccessIs ==
    ASSUME PoolInv, ClearOfTables, doing.op \in {"touch", "build"}
    PROVE  doing.page \in User /\ Backed(doing.page)
<1>1. CASE doing.op = "touch"
    <2>1. PICK p \in GivenPages : doing = Touching(p)
        BY <1>1 DEF PoolInv, DoingInv, Idle, Building, Releasing
    <2>2. doing.page = p
        BY <2>1 DEF Touching
    <2> QED BY <2>2, HeldPages DEF Backed
<1>2. CASE doing.op = "build"
    <2>1. PICK q \in Pool : \E p \in Metadata(q) : doing = Building(q, p)
        BY <1>2 DEF PoolInv, DoingInv, Idle, Touching, Releasing
    <2>2. PICK p \in Metadata(q) : doing = Building(q, p)
        BY <2>1
    <2>3. doing.page = p
        BY <2>2 DEF Building
    <2> QED BY <2>2, <2>3, HeldPages DEF Backed
<1> QED BY <1>1, <1>2

(* When no pool is under construction, mapped pages are in allocated       *)
(* regions.                                                                *)
LEMMA BackedByRegion ==
    ASSUME NEW p, Backed(p), doing.op # "build"
    PROVE  \E q \in Pool : Constructed(q) /\ (p \in Metadata(q) \/ p \in Held(allocList[q]))
    BY DEF Backed, Building

LEMMA PageInit == Init => PageInv /\ BackedInv
<1> SUFFICES ASSUME Init PROVE PageInv /\ BackedInv
    OBVIOUS
<1>1. /\ freeFrames = Usable /\ dir = [x \in Table |-> 0]
      /\ memory = [f \in Frame |-> DataOf(0)] /\ tlb = [p \in Page |-> 0]
      /\ written = {} /\ doing = Idle
    BY DEF Init, PagingInit, Usable, Reserved
<1>2. \A p \in User : Mapped(p) = 0
    BY <1>1, UserIs, PageIs DEF Mapped, HasTable
<1>3. Typed
    BY <1>1, ContentIs DEF Typed, Entry
<1>4. TablesInv /\ MappingInv /\ TlbInv /\ UsedInv /\ ContentsKept
    BY <1>1, <1>2 DEF TablesInv, MappingInv, TlbInv, UsedInv, ContentsKept
<1>5. BackedInv
    BY <1>1, <1>2 DEF BackedInv, Idle
<1> QED BY <1>3, <1>4, <1>5 DEF PageInv

(* What a step has to show of the pages beside PageInv.                    *)
LEMMA BackedKept ==
    ASSUME BackedInv, doing'.op # "release",
           \A r \in User : Mapped(r)' # 0 /\ Backed(r) => Backed(r)',
           \A r \in User : Mapped(r)' = Mapped(r)
    PROVE  BackedInv'
    BY DEF BackedInv

LEMMA PageStep ==
    ASSUME NoEmptyRequest, ClearOfTables, PoolInv, PageInv, BackedInv, [Next]_vars
    PROVE  PageInv' /\ BackedInv'
<1>1. ASSUME UNCHANGED <<poolVars, pageVars, doing, written>> PROVE PageInv' /\ BackedInv'
    <2>1. PageInv' /\ \A r : Mapped(r)' = Mapped(r)
        BY <1>1, PagesUnchanged
    <2>2. allocList' = allocList /\ doing' = doing
        BY <1>1 DEF poolVars
    <2>3. \A r : Backed(r)' <=> Backed(r)
        BY <2>2 DEF Backed, Constructed, Held
    <2> QED BY <2>1, <2>2, <2>3 DEF BackedInv
<1>2. ASSUME NEW q \in Pool, Construct(q) PROVE PageInv' /\ BackedInv'
    <2>1. PageInv' /\ \A r : Mapped(r)' = Mapped(r)
        BY <1>2, PagesUnchanged DEF Construct
    <2>2. allocList' = allocList /\ doing = Idle /\ doing' = Building(q, BasePage[q])
        BY <1>2 DEF Construct, Ready, poolVars
    <2>3. doing.op # "build" /\ doing'.op # "release"
        BY <2>2 DEF Idle, Building
    <2>4. ASSUME NEW r \in User, Backed(r) PROVE Backed(r)'
        BY <2>2, <2>3, <2>4, BackedByRegion DEF Backed, Constructed, Held
    <2> QED BY <2>1, <2>3, <2>4, BackedKept
<1>3. ASSUME NEW p \in Page, Touch(p) PROVE PageInv' /\ BackedInv'
    <2>1. PageInv' /\ \A r : Mapped(r)' = Mapped(r)
        BY <1>3, PagesUnchanged DEF Touch
    <2>2. allocList' = allocList /\ doing = Idle /\ doing' = Touching(p)
        BY <1>3 DEF Touch, Ready, poolVars
    <2>3. doing.op # "build" /\ doing'.op # "release"
        BY <2>2 DEF Idle, Touching
    <2>4. ASSUME NEW r \in User, Backed(r) PROVE Backed(r)'
        BY <2>2, <2>3, <2>4, BackedByRegion DEF Backed, Constructed, Held
    <2> QED BY <2>1, <2>3, <2>4, BackedKept
<1>4. ASSUME NEW q \in Pool, NEW size \in Request, New(q, size) PROVE PageInv' /\ BackedInv'
    <2>1. CASE CanAllocate(q, SizeInPages(size))
        <3>1. /\ Allocate(q, size) /\ Constructed(q) /\ doing = Idle /\ doing' = Idle
              /\ UNCHANGED <<pageVars, written>>
            BY <1>4, <2>1 DEF New, Ready
        <3>2. PageInv' /\ \A r : Mapped(r)' = Mapped(r)
            BY <3>1, PagesUnchanged
        <3>3. /\ \A p \in Pool : Constructed(p)' <=> Constructed(p)
              /\ \A p \in Pool : Held(allocList[p]) \subseteq Held(allocList'[p])
            BY <3>1, AllocatedLists DEF NoEmptyRequest, PoolInv
        <3>4. doing.op # "build" /\ doing'.op # "release"
            BY <3>1 DEF Idle
        <3>5. ASSUME NEW r \in User, Backed(r) PROVE Backed(r)'
            <4>1. PICK p \in Pool : Constructed(p) /\ (r \in Metadata(p) \/ r \in Held(allocList[p]))
                BY <3>4, <3>5, BackedByRegion
            <4>2. Constructed(p)' /\ (r \in Metadata(p) \/ r \in Held(allocList'[p]))
                BY <3>3, <4>1
            <4>3. r \in Held(allocList'[p]) => r \in Held(allocList[p])'
                BY DEF Held
            <4> QED BY <4>2, <4>3 DEF Backed
        <3> QED BY <3>2, <3>4, <3>5, BackedKept
    <2>2. CASE ~CanAllocate(q, SizeInPages(size))
        BY <1>1, <1>4, <2>2 DEF New, Stop
    <2> QED BY <2>1, <2>2
<1>5. ASSUME NEW g \in given, Delete(g) PROVE PageInv' /\ BackedInv'
    <2>1. PageInv' /\ \A r : Mapped(r)' = Mapped(r)
        BY <1>5, PagesUnchanged DEF Delete
    <2>2. allocList' = allocList /\ doing = Idle
        BY <1>5 DEF Delete, Ready, poolVars
    <2>3. PICK q \in Pool : \E i \in 3 .. Slots :
              /\ g[1] = q /\ First(Matching(g[1], g[2])) = i
              /\ g[2] = allocList[q][i].start /\ allocList[q][i] \in Region
        BY DeletedEntry DEF PoolInv
    <2>4. PICK i \in 3 .. Slots :
              /\ g[1] = q /\ First(Matching(g[1], g[2])) = i
              /\ g[2] = allocList[q][i].start /\ allocList[q][i] \in Region
        BY <2>3
    <2>5. doing' = Releasing(q, i, g[2])
        BY <1>5, <2>4 DEF Delete
    <2>6. doing'.pool = q /\ doing'.slot = i /\ doing'.page = g[2]
        BY <2>5 DEF Releasing
    <2>7. doing.op # "build"
        BY <2>2 DEF Idle
    <2>8. ASSUME NEW r \in User, Backed(r) PROVE Backed(r)'
        BY <2>2, <2>7, <2>8, BackedByRegion DEF Backed, Constructed, Held
    <2>9. ASSUME NEW r \in User, allocList'[doing'.pool][doing'.slot].start <= r, r < doing'.page
          PROVE  FALSE
        <3>1. r \in Nat /\ g[2] \in Nat
            BY <2>4, UserIs, PageIs DEF Region
        <3> QED BY <2>2, <2>4, <2>6, <2>9, <3>1
    <2> QED BY <2>1, <2>8, <2>9 DEF BackedInv
<1>6. ASSUME Fault PROVE PageInv' /\ BackedInv'
    <2>1. CASE CanHandleFault(doing.page)
        <3>1. /\ doing.op \in {"touch", "build"} /\ Translation(doing.page) = 0
              /\ HandleFault(doing.page) /\ UNCHANGED <<poolVars, tlb, doing, written>>
            BY <1>6, <2>1 DEF Fault, Accessing
        <3>2. doing.page \in User /\ Backed(doing.page)
            BY <3>1, AccessIs
        <3>3. PageInv' /\ \A r \in User : r # doing.page => Mapped(r)' = Mapped(r)
            BY <3>1, <3>2, FaultKeeps
        <3>4. allocList' = allocList /\ doing' = doing /\ doing'.op # "release"
            BY <3>1 DEF poolVars
        <3>5. \A r : Backed(r)' <=> Backed(r)
            BY <3>4 DEF Backed, Constructed, Held
        <3> QED BY <3>2, <3>3, <3>4, <3>5 DEF BackedInv
    <2>2. CASE ~CanHandleFault(doing.page)
        BY <1>1, <1>6, <2>2 DEF Fault, Stop
    <2> QED BY <2>1, <2>2
<1>7. ASSUME TouchDone PROVE PageInv' /\ BackedInv'
    <2>1. /\ doing.op = "touch" /\ Store(doing.page) /\ written' = written \cup {doing.page}
          /\ allocList' = allocList /\ doing' = Idle
        BY <1>7 DEF TouchDone, poolVars
    <2>2. PageInv' /\ \A r \in User : Mapped(r)' = Mapped(r)
        BY <2>1, AccessIs, StoreKeeps
    <2>3. doing.op # "build" /\ doing'.op # "release"
        BY <2>1 DEF Idle
    <2>4. ASSUME NEW r \in User, Backed(r) PROVE Backed(r)'
        BY <2>1, <2>3, <2>4, BackedByRegion DEF Backed, Constructed, Held
    <2> QED BY <2>2, <2>3, <2>4, BackedKept
<1>8. ASSUME BuildStep PROVE PageInv' /\ BackedInv'
    <2>1. doing.op = "build" /\ Store(doing.page) /\ written' = written \cup {doing.page}
        BY <1>8 DEF BuildStep
    <2>2. PageInv' /\ \A r \in User : Mapped(r)' = Mapped(r)
        BY <2>1, AccessIs, StoreKeeps
    <2>3. PICK q \in Pool : \E p \in Metadata(q) : doing = Building(q, p) /\ ~Constructed(q)
        BY <2>1 DEF PoolInv, DoingInv, Idle, Touching, Releasing
    <2>4. PICK p \in Metadata(q) : doing = Building(q, p) /\ ~Constructed(q)
        BY <2>3
    <2>5. doing.pool = q /\ doing.page = p
        BY <2>4 DEF Building
    <2>6. \A s \in Pool : doing \in {Building(s, r) : r \in Metadata(s)} => s = q
        BY <2>4 DEF Building
    <2>7. CASE p = BasePage[q]
        <3>1. allocList' = allocList /\ doing' = Building(q, p + 1) /\ p + 1 \in Metadata(q)
            BY <1>8, <2>4, <2>5, <2>7, PoolFacts DEF BuildStep, Building, poolVars
        <3>2. doing'.op # "release"
            BY <3>1 DEF Building
        <3>3. ASSUME NEW r \in User, Backed(r) PROVE Backed(r)'
            <4>1. CASE \E s \in Pool : Constructed(s) /\ (r \in Metadata(s) \/ r \in Held(allocList[s]))
                BY <3>1, <4>1 DEF Backed, Constructed, Held
            <4>2. CASE r \in Metadata(q)
                BY <3>1, <4>2 DEF Backed
            <4> QED BY <2>6, <3>3, <4>1, <4>2 DEF Backed
        <3> QED BY <2>2, <3>2, <3>3, BackedKept
    <2>8. CASE p # BasePage[q]
        <3>1. InitLists(q) /\ doing' = Idle
            BY <1>8, <2>5, <2>8 DEF BuildStep
        <3>2. /\ Constructed(q)'
              /\ \A s \in Pool : s # q => allocList'[s] = allocList[s]
              /\ \A s \in Pool : Constructed(s) => Constructed(s)'
            BY <2>4, <3>1, BuiltLists DEF PoolInv
        <3>3. doing'.op # "release"
            BY <3>1 DEF Idle
        <3>4. ASSUME NEW r \in User, Backed(r) PROVE Backed(r)'
            <4>1. ASSUME NEW s \in Pool, Constructed(s), r \in Metadata(s) \/ r \in Held(allocList[s])
                  PROVE  Backed(r)'
                <5>1. s # q /\ Constructed(s)'
                    BY <2>4, <3>2, <4>1
                <5>2. r \in Metadata(s) \/ r \in Held(allocList[s])'
                    BY <3>2, <4>1, <5>1 DEF Held
                <5> QED BY <5>1, <5>2 DEF Backed
            <4>2. CASE r \in Metadata(q)
                BY <3>2, <4>2 DEF Backed
            <4> QED BY <2>6, <3>4, <4>1, <4>2 DEF Backed
        <3> QED BY <2>2, <3>3, <3>4, BackedKept
    <2> QED BY <2>7, <2>8
<1>9. ASSUME ReleasePage PROVE PageInv' /\ BackedInv'
    <2>1. CASE UNCHANGED <<poolVars, pageVars, doing, written>>
        BY <1>1, <2>1
    <2>2. CASE ~UNCHANGED <<poolVars, pageVars, doing, written>>
        <3>1. /\ doing.op = "release" /\ Covers(allocList[doing.pool][doing.slot], doing.page)
              /\ FreePage(doing.page) /\ written' = written \ {doing.page}
              /\ allocList' = allocList /\ doing' = [doing EXCEPT !.page = @ + 1]
            BY <1>9, <2>2 DEF ReleasePage, ReleaseLoop, Stop, poolVars
        <3>2. PICK q \in Pool : \E i \in 3 .. Slots : \E p \in Nat :
                   /\ doing = Releasing(q, i, p)
                   /\ doing.pool = q /\ doing.slot = i /\ doing.page = p
                   /\ Constructed(q) /\ Holds(q, i)
                   /\ allocList[q][i].start \in Nat /\ allocList[q][i].length \in Nat
                   /\ allocList[q][i].start <= p
                   /\ p <= allocList[q][i].start + allocList[q][i].length
            BY <3>1, ReleaseIs
        <3>3. PICK i \in 3 .. Slots : \E p \in Nat :
                   /\ doing = Releasing(q, i, p)
                   /\ doing.pool = q /\ doing.slot = i /\ doing.page = p
                   /\ Constructed(q) /\ Holds(q, i)
                   /\ allocList[q][i].start \in Nat /\ allocList[q][i].length \in Nat
                   /\ allocList[q][i].start <= p
                   /\ p <= allocList[q][i].start + allocList[q][i].length
            BY <3>2
        <3>4. PICK p \in Nat :
                   /\ doing = Releasing(q, i, p)
                   /\ doing.pool = q /\ doing.slot = i /\ doing.page = p
                   /\ Constructed(q) /\ Holds(q, i)
                   /\ allocList[q][i].start \in Nat /\ allocList[q][i].length \in Nat
                   /\ allocList[q][i].start <= p
                   /\ p <= allocList[q][i].start + allocList[q][i].length
            BY <3>3
        <3>5. p \in Pages(allocList[q][i])
            BY <3>1, <3>4 DEF Covers, Pages
        <3>6. p \in User
            BY <3>4, <3>5, HeldPages
        <3>7. PageInv' /\ Mapped(p)' = 0 /\ \A r \in User : r # p => Mapped(r)' = Mapped(r)
            BY <3>1, <3>4, <3>6, FreePageKeeps
        <3>8. doing' = Releasing(q, i, p + 1)
            BY <3>1, <3>4 DEF Releasing
        <3>9. /\ doing'.pool = q /\ doing'.slot = i /\ doing'.page = p + 1
              /\ doing.op # "build"
            BY <3>1, <3>8 DEF Releasing
        <3>10. ASSUME NEW r \in User, Backed(r) PROVE Backed(r)'
            BY <3>1, <3>9, <3>10, BackedByRegion DEF Backed, Constructed, Held
        <3>11. ASSUME NEW r \in User, Mapped(r)' # 0 PROVE Backed(r)'
            BY <3>7, <3>10, <3>11 DEF BackedInv
        <3>12. ASSUME NEW r \in User, allocList[q][i].start <= r, r < p + 1 PROVE Mapped(r)' = 0
            <4>1. CASE r = p
                BY <3>7, <4>1
            <4>2. CASE r # p
                <5>1. r \in Nat
                    BY UserIs, PageIs
                <5>2. Mapped(r) = 0
                    BY <3>1, <3>4, <3>12, <4>2, <5>1 DEF BackedInv
                <5> QED BY <3>7, <4>2, <5>2
            <4> QED BY <4>1, <4>2
        <3> QED BY <3>1, <3>7, <3>9, <3>11, <3>12 DEF BackedInv
    <2> QED BY <2>1, <2>2
<1>10. ASSUME ReleaseDone PROVE PageInv' /\ BackedInv'
    <2>1. CASE CanRelease(doing.pool)
        <3>1. /\ doing.op = "release" /\ ~Covers(allocList[doing.pool][doing.slot], doing.page)
              /\ RemoveEntry(doing.pool, doing.slot) /\ doing' = Idle
              /\ UNCHANGED <<pageVars, written>>
            BY <1>10, <2>1 DEF ReleaseDone, ReleaseLoop
        <3>2. PageInv' /\ \A r : Mapped(r)' = Mapped(r)
            BY <3>1, PagesUnchanged
        <3>3. PICK q \in Pool : \E i \in 3 .. Slots : \E p \in Nat :
                   /\ doing.pool = q /\ doing.slot = i /\ doing.page = p
                   /\ Constructed(q) /\ Holds(q, i)
                   /\ allocList[q][i].start \in Nat /\ allocList[q][i].length \in Nat
            BY <3>1, ReleaseIs
        <3>4. PICK i \in 3 .. Slots : \E p \in Nat :
                   /\ doing.pool = q /\ doing.slot = i /\ doing.page = p
                   /\ Constructed(q) /\ Holds(q, i)
                   /\ allocList[q][i].start \in Nat /\ allocList[q][i].length \in Nat
            BY <3>3
        <3>5. /\ \A s \in Pool : Constructed(s)' <=> Constructed(s)
              /\ \A s \in Pool : s # q => allocList'[s] = allocList[s]
              /\ Held(allocList'[q]) = Held(allocList[q]) \ Pages(allocList[q][i])
            BY <3>1, <3>4, ReleasedLists DEF PoolInv
        <3>6. ASSUME NEW r \in User, r \in Pages(allocList[q][i]) PROVE Mapped(r) = 0
            <4>1. PICK p \in Nat : doing.page = p
                BY <3>4
            <4>2. ~(p < allocList[q][i].start + allocList[q][i].length)
                BY <3>1, <3>4, <4>1 DEF Covers
            <4>3. /\ r \in Nat /\ allocList[q][i].start <= r
                  /\ r < allocList[q][i].start + allocList[q][i].length
                BY <3>4, <3>6, UserIs, PageIs DEF Pages
            <4>4. r < doing.page
                BY <3>4, <4>1, <4>2, <4>3
            <4> QED BY <3>1, <3>4, <4>3, <4>4 DEF BackedInv
        <3>7. doing.op # "build" /\ doing'.op # "release"
            BY <3>1 DEF Idle
        <3>8. ASSUME NEW r \in User, Mapped(r) # 0, Backed(r) PROVE Backed(r)'
            <4>1. PICK s \in Pool : Constructed(s) /\ (r \in Metadata(s) \/ r \in Held(allocList[s]))
                BY <3>7, <3>8, BackedByRegion
            <4>2. r \in Held(allocList[s]) => r \in Held(allocList'[s])
                <5>1. CASE s = q
                    BY <3>5, <3>6, <3>8, <5>1
                <5>2. CASE s # q
                    BY <3>5, <5>2
                <5> QED BY <5>1, <5>2
            <4>3. r \in Held(allocList'[s]) => r \in Held(allocList[s])'
                BY DEF Held
            <4> QED BY <3>5, <4>1, <4>2, <4>3 DEF Backed
        <3> QED BY <3>2, <3>7, <3>8, BackedKept
    <2>2. CASE ~CanRelease(doing.pool)
        BY <1>1, <1>10, <2>2 DEF ReleaseDone, Stop
    <2> QED BY <2>1, <2>2
<1>11. CASE UNCHANGED vars
    BY <1>1, <1>11 DEF vars
<1> QED BY <1>2, <1>3, <1>4, <1>5, <1>6, <1>7, <1>8, <1>9, <1>10, <1>11 DEF Next

LEMMA PageInvariant ==
    ASSUME NoEmptyRequest PROVE Spec /\ []ClearOfTables => [](PoolInv /\ PageInv /\ BackedInv)
<1> DEFINE I == PageInv /\ BackedInv
<1>1. Init => I
    BY PageInit
<1>2. ClearOfTables /\ PoolInv /\ I /\ [Next]_vars => I'
    BY PageStep
<1>3. Spec => []PoolInv
    BY PoolInvariant
<1> HIDE DEF I
<1>4. Spec /\ []ClearOfTables => []PoolInv /\ []I
    BY <1>1, <1>2, <1>3, PTL DEF Spec
<1>5. PoolInv /\ I => PoolInv /\ PageInv /\ BackedInv
    BY DEF I
<1> QED BY <1>4, <1>5, PTL

-----------------------------------------------------------------------------
(* free_page reloads CR3 whenever it clears an entry: the CPU never        *)
(* translates with an entry that the page table has dropped.               *)
THEOREM TlbIsFresh ==
    ASSUME NoEmptyRequest PROVE Spec /\ []ClearOfTables => []NoStaleTranslation
<1>1. PageInv => NoStaleTranslation
    BY DEF PageInv, TlbInv, NoStaleTranslation
<1> QED BY <1>1, PageInvariant, PTL

(* What a holder stored in a page stays there until release gives the page *)
(* back, whatever handle_fault and free_page do to other pages.            *)
THEOREM PagesKeepContents ==
    ASSUME NoEmptyRequest PROVE Spec /\ []ClearOfTables => []ContentsKept
<1>1. PageInv => ContentsKept
    BY DEF PageInv
<1> QED BY <1>1, PageInvariant, PTL

(* release unmaps every page of the region before it gives the region up:  *)
(* a page that is mapped is in an allocated region.                        *)
THEOREM NothingLeftMapped ==
    ASSUME NoEmptyRequest PROVE Spec /\ []ClearOfTables => []MappedIsAllocated
<1>1. BackedInv => MappedIsAllocated
    <2> SUFFICES ASSUME BackedInv, NEW p \in User, Mapped(p) # 0, doing.op # "build"
                 PROVE  \E q \in Pool : Constructed(q) /\ IsLegitimate(q, p)
        BY DEF MappedIsAllocated, User
    <2>1. Backed(p)
        BY DEF BackedInv
    <2>2. \E q \in Pool : Constructed(q) /\ (p \in Metadata(q) \/ p \in Held(allocList[q]))
        BY <2>1, BackedByRegion
    <2> QED BY <2>2, HeldIs DEF IsLegitimate
<1> QED BY <1>1, PageInvariant, PTL

(* handle_fault and free_page account for every frame beyond the two of    *)
(* the directory and the direct map: it is free, or one page table or one  *)
(* page has it.                                                            *)
THEOREM FramesHaveOneUser ==
    ASSUME NoEmptyRequest PROVE Spec /\ []ClearOfTables => []FramesAccounted
<1>1. PageInv => FramesAccounted
    <2> SUFFICES ASSUME PageInv, NEW f \in Usable
                 PROVE  Cardinality(Users(f)) = IF f \in freeFrames THEN 0 ELSE 1
        BY DEF FramesAccounted, Usable, Reserved
    <2>1. Typed /\ TablesInv /\ MappingInv /\ UsedInv /\ f # 0
        BY FrameIs DEF PageInv
    <2>2. \A u : u \in Users(f) <=> \/ \E x \in Table : dir[x] = f /\ u = <<x, "table">>
                                    \/ \E p \in User : Mapped(p) = f /\ u = <<p, "page">>
        BY DEF Users, User
    <2>3. CASE f \in freeFrames
        <3>1. /\ \A x \in Table : dir[x] # f
              /\ \A p \in User : Mapped(p) # f
            BY <2>1, <2>3 DEF TablesInv, MappingInv
        <3>2. Users(f) = {}
            BY <2>2, <3>1
        <3> QED BY <2>3, <3>2, FS_EmptySet
    <2>4. CASE f \notin freeFrames
        <3>1. ASSUME NEW u, Users(f) = {u} PROVE Cardinality(Users(f)) = 1
            BY <3>1, FS_Singleton
        <3>2. CASE \E x \in Table : dir[x] = f
            <4>1. PICK x \in Table : dir[x] = f
                BY <3>2
            <4>2. \A y \in Table : dir[y] = f => y = x
                BY <2>1, <4>1 DEF TablesInv
            <4>3. \A p \in User : Mapped(p) # f
                BY <2>1, <4>1 DEF MappingInv
            <4>4. Users(f) = {<<x, "table">>}
                BY <2>2, <4>1, <4>2, <4>3
            <4> QED BY <2>4, <3>1, <4>4
        <3>3. CASE \E p \in User : Mapped(p) = f
            <4>1. PICK p \in User : Mapped(p) = f
                BY <3>3
            <4>2. \A r \in User : Mapped(r) = f => r = p
                BY <2>1, <4>1 DEF MappingInv
            <4>3. \A y \in Table : dir[y] # f
                BY <2>1, <4>1 DEF MappingInv
            <4>4. Users(f) = {<<p, "page">>}
                BY <2>2, <4>1, <4>2, <4>3
            <4> QED BY <2>4, <3>1, <4>4
        <3> QED BY <2>1, <2>4, <3>2, <3>3 DEF UsedInv
    <2> QED BY <2>3, <2>4
<1> QED BY <1>1, PageInvariant, PTL

(* Where no caller holds a page whose entry maps its table, no page that a *)
(* caller holds is backed by the frame of a page table: the overwritten    *)
(* table that run SelfMappedPage shows needs such a page.                  *)
THEOREM TablesAreNotHeld ==
    ASSUME NoEmptyRequest PROVE Spec /\ []ClearOfTables => []HeldPageIsNotTable
<1>1. PoolInv /\ PageInv /\ ClearOfTables => HeldPageIsNotTable
    BY HeldPages DEF PageInv, MappingInv, HeldPageIsNotTable
<1> QED BY <1>1, PageInvariant, PTL
=============================================================================
