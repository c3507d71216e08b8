----------------------------- MODULE VirtualMemory -----------------------------
(***************************************************************************)
(* The virtual-memory kernel after main has enabled paging: the pools'     *)
(* lists (VMPool), the page table (PageTable), and the one thread that     *)
(* constructs pools, allocates regions, touches their pages and releases   *)
(* them (kernel.C).  An access that faults is retried by the CPU, and      *)
(* release calls free_page once per page: "doing" is what the thread is at.*)
(*                                                                         *)
(* Callers keep to the interface: they touch pages of regions they hold    *)
(* and release each region once, by its start.                             *)
(***************************************************************************)
EXTENDS VMPool, PageTable

VARIABLES
    doing,    \* the operation under way
    written,  \* pages their holder has stored to since it got them
    fate      \* "running", "aborted", or how the machine went astray

vars == <<poolVars, pageVars, doing, written, fate>>

ASSUME PoolsArePaged == \A q \in Pool : PoolPages(q) \subseteq Page

Idle               == [op |-> "idle"]
Touching(p)        == [op |-> "touch", page |-> p]
Building(q, p)     == [op |-> "build", pool |-> q, page |-> p]
Releasing(q, i, p) == [op |-> "release", pool |-> q, slot |-> i, page |-> p]

Init ==
    /\ EmptyLists
    /\ PagingInit
    /\ doing = Idle
    /\ written = {}
    /\ fate = "running"

Ready == fate = "running" /\ doing = Idle

Stop(how) == fate' = how /\ UNCHANGED <<poolVars, pageVars, doing, written>>

GivenPages == UNION {g[2]..(g[2] + g[3] - 1) : g \in given}

-----------------------------------------------------------------------------
(* Accesses                                                                *)

(* The CPU looks at the page of the access again after each fault.         *)
Accessing == fate = "running" /\ doing.op \in {"touch", "build"}

(* Where the thread goes on when the store is done: the constructor writes *)
(* the page of the allocated list, then that of the free list.             *)
Fault ==
    /\ Accessing /\ Translation(doing.page) = 0
    /\ IF CanHandleFault(doing.page)
       THEN /\ HandleFault(doing.page)
            /\ UNCHANGED <<poolVars, tlb, doing, written, fate>>
       ELSE Stop("aborted")

TouchDone ==
    /\ fate = "running" /\ doing.op = "touch"
    /\ Store(doing.page)
    /\ written' = written \cup {doing.page}
    /\ doing' = Idle
    /\ UNCHANGED <<poolVars, fate>>

BuildStep ==
    /\ fate = "running" /\ doing.op = "build"
    /\ Store(doing.page)
    /\ written' = written \cup {doing.page}
    /\ IF doing.page = BasePage[doing.pool]
       THEN /\ doing' = [doing EXCEPT !.page = @ + 1]
            /\ UNCHANGED poolVars
       ELSE /\ doing' = Idle
            /\ InitLists(doing.pool)
    /\ UNCHANGED fate

Construct(q) ==
    /\ Ready /\ ~Constructed(q)
    /\ doing' = Building(q, BasePage[q])
    /\ UNCHANGED <<poolVars, pageVars, written, fate>>

Touch(p) ==
    /\ Ready /\ p \in GivenPages
    /\ doing' = Touching(p)
    /\ UNCHANGED <<poolVars, pageVars, written, fate>>

-----------------------------------------------------------------------------
(* operator new and delete                                                 *)

New(q, size) ==
    /\ Ready /\ Constructed(q)
    /\ IF CanAllocate(q, SizeInPages(size))
       THEN /\ Allocate(q, size)
            /\ UNCHANGED <<pageVars, doing, written, fate>>
       ELSE Stop("aborted")

Delete(g) ==
    /\ Ready
    /\ doing' = Releasing(g[1], First(Matching(g[1], g[2])), g[2])
    /\ UNCHANGED <<poolVars, pageVars, written, fate>>

(* release's loop covers every page of the region.                         *)
CoversAllButLast(r, p) == p + 1 < r.start + r.length

Covers(r, p) == p < r.start + r.length

ReleaseLoop(more) ==
    /\ fate = "running" /\ doing.op = "release"
    /\ more = Covers(allocList[doing.pool][doing.slot], doing.page)

(* One turn of the loop: free_page asserts that some pool knows the page.  *)
(* When the page's table was never built, reading the entry faults in the  *)
(* window and the handler installs a fresh frame as the table, whatever it *)
(* holds; the model stops there.                                           *)
ReleasePage ==
    /\ ReleaseLoop(TRUE)
    /\ IF \E q \in Pool : Constructed(q) /\ IsLegitimate(q, doing.page)
       THEN IF HasTable(doing.page)
            THEN /\ FreePage(doing.page)
                 /\ doing' = [doing EXCEPT !.page = @ + 1]
                 /\ written' = written \ {doing.page}
                 /\ UNCHANGED <<poolVars, fate>>
            ELSE Stop(IF freeFrames = {} THEN "aborted" ELSE "garbage table")
       ELSE Stop("aborted")

ReleaseDone ==
    /\ ReleaseLoop(FALSE)
    /\ IF CanRelease(doing.pool)
       THEN /\ RemoveEntry(doing.pool, doing.slot)
            /\ doing' = Idle
            /\ UNCHANGED <<pageVars, written, fate>>
       ELSE Stop("aborted")

-----------------------------------------------------------------------------
Next ==
    \/ \E q \in Pool : Construct(q) \/ \E size \in Request : New(q, size)
    \/ \E p \in Page : Touch(p)
    \/ \E g \in given : Delete(g)
    \/ Fault \/ TouchDone \/ BuildStep
    \/ ReleasePage \/ ReleaseDone

Spec == Init /\ [][Next]_vars

-----------------------------------------------------------------------------
(* Properties                                                              *)

(* The last page of each table's range is mapped to the table itself.      *)
SelfPages == {p \in Page : IndexOf(p) = N - 1}

(* Types of the state of all three modules.                                *)
TypeOK ==
    /\ allocList \in [Pool -> [Slot -> Region]]
    /\ freeList \in [Pool -> [Slot -> Region]]
    /\ given \subseteq Pool \X Nat \X Nat
    /\ freeFrames \subseteq Frame
    /\ dir \in [Table -> Entry]
    /\ DOMAIN memory = Frame
    /\ \A f \in Frame : memory[f].kind = "table" => memory[f].words \in [Index -> Entry]
    /\ tlb \in [Page -> Entry]
    /\ written \subseteq Page
    /\ fate \in {"running", "aborted", "garbage table"}

(* What a holder stored in a page stays there until the page is released,  *)
(* whatever is mapped, unmapped and mapped again elsewhere meanwhile.      *)
ContentsKept ==
    \A p \in written : Mapped(p) # 0 /\ memory[Mapped(p)] = DataOf(p)

Users(f) == {x \in Table : dir[x] = f} \X {"table"} \cup
            {p \in Page \ SelfPages : Mapped(p) = f} \X {"page"}

(* Every frame of the process pool beyond the first two is free or has one *)
(* user, a page table or a page: none is shared and none leaks.            *)
FramesAccounted ==
    fate = "running" =>
        \A f \in Frame \ {Lowest(Frame), Lowest(Frame \ {Lowest(Frame)})} :
            Cardinality(Users(f)) = IF f \in freeFrames THEN 0 ELSE 1

(* The CPU never translates with an entry that the page table has dropped. *)
NoStaleTranslation == \A p \in Page : tlb[p] # 0 => tlb[p] = Mapped(p)

(* A page that is mapped belongs to an allocated region, or to one whose   *)
(* construction is under way: releasing a region unmaps all of it.         *)
MappedIsAllocated ==
    \A p \in Page \ SelfPages : Mapped(p) # 0 =>
        \/ \E q \in Pool : Constructed(q) /\ IsLegitimate(q, p)
        \/ doing.op = "build"

(* No page that a caller holds is backed by the frame of a page table.     *)
HeldPageIsNotTable ==
    \A p \in GivenPages : Mapped(p) # 0 => \A x \in Table : dir[x] # Mapped(p)
=============================================================================
