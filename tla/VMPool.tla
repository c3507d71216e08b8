-------------------------------- MODULE VMPool --------------------------------
(***************************************************************************)
(* The virtual-memory pools (vm_pool.C/.H): the list of allocated and the  *)
(* list of free regions of each pool.  Regions are counted in pages; the   *)
(* sizes that callers ask for are in bytes.  The first two pages of a pool *)
(* hold the two lists, each an array of Slots entries in which length 0    *)
(* marks an entry as unused.                                               *)
(*                                                                         *)
(* The module has the operations on the lists only: VirtualMemory puts     *)
(* them together with the page table whose pages they hand out.            *)
(***************************************************************************)
EXTENDS Integers, FiniteSets

CONSTANTS
    Pool,      \* the pools main constructs
    BasePage,  \* BasePage[q]: the first page of q
    NPages,    \* NPages[q]: its size in pages
    Slots,     \* entries of a list (ENTRIES_PER_PAGE / 2)
    PageSize,  \* bytes in a page
    Word,      \* the values of unsigned long (2^32), a multiple of PageSize
    Request    \* sizes in bytes that callers ask for

ASSUME VMPoolAssumption ==
    /\ BasePage \in [Pool -> Nat \ {0}]
    /\ NPages \in [Pool -> Nat] /\ \A q \in Pool : NPages[q] >= 2
    /\ \A p, q \in Pool : p # q => \/ BasePage[p] + NPages[p] <= BasePage[q]
                                   \/ BasePage[q] + NPages[q] <= BasePage[p]
    /\ Slots \in Nat /\ Slots >= 3
    /\ PageSize \in Nat \ {0} /\ Word \in Nat \ {0} /\ Word % PageSize = 0
    /\ Request \subseteq 0..(Word - 1)

VARIABLES
    allocList,  \* allocList[q], freeList[q]: the two arrays of q
    freeList,
    given       \* <<q, start, length>>: regions callers got and did not return

poolVars == <<allocList, freeList, given>>

Slot   == 1..Slots
Region == [start : Nat, length : Nat]
Unused == [start |-> 0, length |-> 0]

Pages(r)      == r.start..(r.start + r.length - 1)
PoolPages(q)  == BasePage[q]..(BasePage[q] + NPages[q] - 1)
Metadata(q)   == BasePage[q]..(BasePage[q] + 1)

(* A size rounded up to whole pages; the sum wraps like the machine's.     *)
SizeInPages(size) ==
    IF size % PageSize = 0 THEN size \div PageSize
    ELSE (((size \div PageSize + 1) * PageSize) % Word) \div PageSize

-----------------------------------------------------------------------------
(* The arrays                                                              *)

First(S) == CHOOSE i \in S : \A j \in S : i <= j

(* The entries behind k move up by one and the last is cleared.            *)
ShiftUpFromNext(list, k) ==
    [i \in Slot |-> IF i <= k THEN list[i]
                    ELSE IF i < Slots THEN list[i + 1] ELSE Unused]

ShiftUp(list, k) ==
    [i \in Slot |-> IF i < k THEN list[i]
                    ELSE IF i < Slots THEN list[i + 1] ELSE Unused]

(* The loops that look for an unused entry assert that they find one       *)
(* before the last.                                                        *)
Vacant(list) == {i \in 1..(Slots - 1) : list[i].length = 0}

AddToPrevious(list, r) == [list EXCEPT ![First(Vacant(list)) - 1] = r]

AddTo(list, r) == [list EXCEPT ![First(Vacant(list))] = r]

Fitting(q, n) == {i \in Slot : freeList[q][i].length >= n}

CarveKeepingExact(list, k, n) ==
    IF list[k].length >= n
    THEN [list EXCEPT ![k] = [start |-> @.start + n, length |-> @.length - n]]
    ELSE ShiftUp(list, k)

Carve(list, k, n) ==
    IF list[k].length > n
    THEN [list EXCEPT ![k] = [start |-> @.start + n, length |-> @.length - n]]
    ELSE ShiftUp(list, k)

Matching(q, start) == {i \in Slot : allocList[q][i].start = start}

-----------------------------------------------------------------------------
(* VMPool::VMPool: the two list pages are the first allocated regions.     *)
EmptyLists ==
    /\ allocList = [q \in Pool |-> [i \in Slot |-> Unused]]
    /\ freeList = [q \in Pool |-> [i \in Slot |-> Unused]]
    /\ given = {}

InitLists(q) ==
    /\ allocList' = [allocList EXCEPT ![q] =
            [i \in Slot |-> IF i = 1 THEN [start |-> BasePage[q], length |-> 1]
                            ELSE IF i = 2 THEN [start |-> BasePage[q] + 1, length |-> 1]
                            ELSE Unused]]
    /\ freeList' = [freeList EXCEPT ![q] =
            [i \in Slot |-> IF i = 1
                            THEN [start |-> BasePage[q] + 2, length |-> NPages[q] - 2]
                            ELSE Unused]]
    /\ UNCHANGED given

(* VMPool::allocate: the first free region that is long enough.            *)
CanAllocate(q, n) == Fitting(q, n) # {} /\ Vacant(allocList[q]) # {}

Allocate(q, size) ==
    LET n == SizeInPages(size)
        k == First(Fitting(q, n))
        r == [start |-> freeList[q][k].start, length |-> n]
    IN /\ CanAllocate(q, n)
       /\ freeList' = [freeList EXCEPT ![q] = Carve(@, k, n)]
       /\ allocList' = [allocList EXCEPT ![q] = AddTo(@, r)]
       /\ given' = given \cup {<<q, r.start, n>>}

(* VMPool::release after its loop over the pages: the entry leaves the one *)
(* list and joins the end of the other; neighbours are not merged.         *)
CanRelease(q) == Vacant(freeList[q]) # {}

RemoveEntry(q, i) ==
    LET r == allocList[q][i]
    IN /\ CanRelease(q)
       /\ allocList' = [allocList EXCEPT ![q] = ShiftUp(@, i)]
       /\ freeList' = [freeList EXCEPT ![q] = AddTo(@, r)]
       /\ given' = given \ {<<q, r.start, r.length>>}

(* VMPool::is_legitimate.                                                  *)
IsLegitimate(q, page) ==
    \/ page \in Metadata(q)
    \/ \E i \in Slot : page \in Pages(allocList[q][i])

-----------------------------------------------------------------------------
Entries(q) ==
    {<<"alloc", i>> : i \in Slot} \cup {<<"free", i>> : i \in Slot}

EntryOf(q, e) == IF e[1] = "alloc" THEN allocList[q][e[2]] ELSE freeList[q][e[2]]

Constructed(q) == allocList[q][1].length > 0

(* The entries of the two lists divide the pool: no page is in two regions *)
(* and every page of the pool is in one, whatever was allocated, split,    *)
(* released and shifted before.                                            *)
RegionsPartition ==
    \A q \in Pool : Constructed(q) =>
        /\ \A d, e \in Entries(q) :
               d # e => Pages(EntryOf(q, d)) \cap Pages(EntryOf(q, e)) = {}
        /\ UNION {Pages(EntryOf(q, e)) : e \in Entries(q)} = PoolPages(q)

(* The used entries of a list come first: a shift leaves no gap in which   *)
(* the search for an unused entry could stop early.                        *)
ListsPacked ==
    \A q \in Pool : \A i, j \in Slot : i < j =>
        /\ allocList[q][i].length = 0 => allocList[q][j].length = 0
        /\ freeList[q][i].length = 0 => freeList[q][j].length = 0

(* Beside the two list pages, the allocated regions are the ones that      *)
(* callers hold, page for page.                                            *)
GivenIsAllocated ==
    \A q \in Pool : Constructed(q) =>
        {<<q, allocList[q][i].start, allocList[q][i].length>> :
            i \in {j \in Slot : allocList[q][j].length > 0}}
        = {g \in given : g[1] = q} \cup
          {<<q, BasePage[q], 1>>, <<q, BasePage[q] + 1, 1>>}
=============================================================================
