------------------------------- MODULE PageTable -------------------------------
(***************************************************************************)
(* The two-level page table with demand paging (page_table.C/.H) on one    *)
(* process frame pool: the page directory, the page tables, the frames     *)
(* behind them and the translations the TLB keeps.                         *)
(*                                                                         *)
(* A page is its number; its directory entry is page \div N and its table  *)
(* entry page % N, with N entries in a table.  Directory entry 0 is the    *)
(* direct map and the last one is the directory itself: pages of the two   *)
(* are not user pages.  get_frames(1) is first fit on single frames, which *)
(* ContFramePool and FrameScan are about.                                  *)
(***************************************************************************)
EXTENDS Integers, FiniteSets

CONSTANTS
    Frame,    \* frame numbers of the process pool (0 is none of them)
    N,        \* entries in a page table (ENTRIES_PER_PAGE)
    NTables   \* directory entries 1..NTables are demand-paged

ASSUME PageTableAssumption ==
    /\ Frame \subseteq Nat \ {0} /\ IsFiniteSet(Frame)
    /\ Cardinality(Frame) >= 2
    /\ N \in Nat \ {0} /\ NTables \in Nat \ {0}

VARIABLES
    freeFrames,  \* frames that get_frames may grant
    dir,         \* dir[x]: the frame of page table x, 0 when not present
    memory,      \* memory[f]: what frame f holds
    tlb          \* tlb[page]: the frame the CPU has cached, 0 when none

pageVars == <<freeFrames, dir, memory, tlb>>

Page       == N..((NTables + 1) * N - 1)
Table      == 1..NTables
Index      == 0..(N - 1)
DirOf(p)   == p \div N
IndexOf(p) == p % N

(* A frame holds a page table, or the words that were stored to a page     *)
(* (0: whatever it held before).                                           *)
Entry        == Frame \cup {0}
TableOf(w)   == [kind |-> "table", words |-> w]
DataOf(p)    == [kind |-> "data", page |-> p]
Content      == {TableOf(w) : w \in [Index -> Entry]} \cup {DataOf(p) : p \in Page \cup {0}}

Lowest(S) == CHOOSE f \in S : \A g \in S : f <= g

(* PageTable::PageTable: the directory and the table of the direct map.    *)
PagingInit ==
    LET pd == Lowest(Frame)
        pt == Lowest(Frame \ {pd})
    IN /\ freeFrames = Frame \ {pd, pt}
       /\ dir = [x \in Table |-> 0]
       /\ memory = [f \in Frame |-> DataOf(0)]
       /\ tlb = [p \in Page |-> 0]

-----------------------------------------------------------------------------
(* The entry of a page, read through the window at the end of the address  *)
(* space; 0 when the table or the entry is not present.                    *)
HasTable(p) == dir[DirOf(p)] # 0 /\ memory[dir[DirOf(p)]].kind = "table"

Mapped(p) == IF HasTable(p) THEN memory[dir[DirOf(p)]].words[IndexOf(p)] ELSE 0

(* PageTable::handle_fault: a missing table is built first, all entries    *)
(* absent but the last, which maps the table itself; then the page gets a  *)
(* frame.                                                                  *)
FreshTable(f) == [i \in Index |-> IF i = N - 1 THEN f ELSE 0]

FramesForFault(p) == IF dir[DirOf(p)] = 0 THEN 2 ELSE 1

CanHandleFault(p) == Cardinality(freeFrames) >= FramesForFault(p)

HandleFault(p) ==
    LET x     == DirOf(p)
        pt    == IF dir[x] = 0 THEN Lowest(freeFrames) ELSE dir[x]
        words == IF dir[x] = 0 THEN FreshTable(pt) ELSE memory[pt].words
        rest  == freeFrames \ {pt}
        frame == Lowest(rest)
    IN /\ CanHandleFault(p)
       /\ freeFrames' = rest \ {frame}
       /\ dir' = [dir EXCEPT ![x] = pt]
       /\ memory' = [memory EXCEPT ![pt] = TableOf([words EXCEPT ![IndexOf(p)] = frame])]

(* The CPU translates from the TLB when it has the page.                   *)
Translation(p) == IF tlb[p] # 0 THEN tlb[p] ELSE Mapped(p)

(* A store to a page that is mapped; the translation may be cached.        *)
Store(p) ==
    /\ Translation(p) # 0
    /\ memory' = [memory EXCEPT ![Translation(p)] = DataOf(p)]
    /\ \E keep \in BOOLEAN :
          tlb' = IF keep THEN [tlb EXCEPT ![p] = Translation(p)] ELSE tlb
    /\ UNCHANGED <<freeFrames, dir>>

(* PageTable::load: writing CR3 empties the TLB.                           *)
LoadNothing == UNCHANGED tlb

Load == tlb' = [p \in Page |-> 0]

(* PageTable::free_page of a page whose table exists.                      *)
UnmapNothing(p) == UNCHANGED memory

Unmap(p) == memory' = [memory EXCEPT ![dir[DirOf(p)]].words[IndexOf(p)] = 0]

GiveBackNothing(f) == UNCHANGED freeFrames

GiveBack(f) == freeFrames' = freeFrames \cup {f}

FreePage(p) ==
    /\ HasTable(p)
    /\ IF Mapped(p) = 0
       THEN UNCHANGED pageVars
       ELSE /\ GiveBack(Mapped(p))
            /\ Unmap(p)
            /\ Load
            /\ UNCHANGED dir
=============================================================================
