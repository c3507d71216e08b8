---------------------------- MODULE ContFramePool ----------------------------
(***************************************************************************)
(* The contiguous frame pools of the virtual-memory kernel                 *)
(* (cont_frame_pool.C/.H), as kernel.C's main builds them and their        *)
(* callers use them.  One action per operation of the class.  The bitmaps  *)
(* of all pools are one function on absolute frame numbers: the pools do   *)
(* not overlap, so which pool of the list is met first does not matter and *)
(* the linked list is the set of built pools.                              *)
(***************************************************************************)
EXTENDS FrameRuns, FiniteSets

CONSTANTS
    Pool,           \* the pools main constructs
    Base,           \* Base[p]: number of the first frame of p
    NFrames,        \* NFrames[p]: size of p in frames
    Hole,           \* Hole[p]: the region of p marked inaccessible, [first, n]
    FramesPerInfo,  \* frames one bitmap frame describes (FRAME_SIZE * 4)
    Request,        \* sizes that callers ask for
    OutsideFrame    \* a frame number that no pool owns

Last(p)   == Base[p] + NFrames[p] - 1
Frames(p) == Base[p]..Last(p)
Frame     == UNION {Frames(p) : p \in Pool}
NInfo(p)  == NeededInfoFrames(NFrames[p], FramesPerInfo)

(* Frame 0 doubles as get_frames' error value and as "no info frame": no   *)
(* pool starts there.  Pools do not overlap, and a hole lies inside its    *)
(* pool behind the frames that may hold the pool's own bitmap.             *)
ASSUME PoolAssumption ==
    /\ IsFiniteSet(Pool)
    /\ Base \in [Pool -> Nat \ {0}]
    /\ NFrames \in [Pool -> Nat \ {0}]
    /\ \A p, q \in Pool : p # q => Last(p) < Base[q] \/ Last(q) < Base[p]
    /\ FramesPerInfo \in Nat \ {0}
    /\ Request \subseteq Nat
    /\ OutsideFrame \in Nat \ Frame

ASSUME HoleAssumption ==
    \A p \in Pool : /\ Hole[p].first \in Nat
                    /\ Hole[p].n \in Nat
                    /\ NInfo(p) <= NFrames[p]
                    /\ Hole[p].n > 0 => /\ Hole[p].first >= Base[p] + NInfo(p)
                                        /\ Hole[p].first + Hole[p].n - 1 <= Last(p)

VARIABLES
    state,        \* state[f]: the two bits of frame f
    nFreeFrames,  \* nFreeFrames[p]: the pool's counter
    phase,        \* phase[p]: not constructed, constructed, in use
    info,         \* info[p]: the first frame of p's bitmap
    held,         \* <<f, n>>: runs given to callers and not given back
    fate          \* the machine runs, stands in abort(), or is lost

vars == <<state, nFreeFrames, phase, info, held, fate>>

Built == {p \in Pool : phase[p] # "absent"}

Run(h) == h[1]..(h[1] + h[2] - 1)

Init ==
    /\ state = [f \in Frame |-> "Used"]
    /\ nFreeFrames = [p \in Pool |-> 0]
    /\ phase = [p \in Pool |-> "absent"]
    /\ info = [p \in Pool |-> 0]
    /\ held = {}
    /\ fate = "running"

(* assert() failed: abort() loops for ever.                                *)
Abort == fate' = "aborted" /\ UNCHANGED <<state, nFreeFrames, phase, info, held>>

(* ContFramePool(base, n, info_frame_no): with info_frame_no 0 the bitmap  *)
(* takes the first frames of the pool itself; otherwise it lies in frames  *)
(* that main got from another pool and keeps for this purpose, and the     *)
(* constructor's range test leaves this pool's own frames free.            *)
ConstructInsideUnmarked(p) ==
    /\ state' = Freed(state, Frames(p))
    /\ nFreeFrames' = [nFreeFrames EXCEPT ![p] = NFrames[p]]
    /\ info' = [info EXCEPT ![p] = Base[p]]
    /\ UNCHANGED held

ConstructInside(p) ==
    /\ state' = Marked(Freed(state, Frames(p)), Base[p], NInfo(p))
    /\ nFreeFrames' = [nFreeFrames EXCEPT ![p] = NFrames[p] - NInfo(p)]
    /\ info' = [info EXCEPT ![p] = Base[p]]
    /\ UNCHANGED held

ConstructOutside(p, h) ==
    /\ h[2] = NInfo(p)
    /\ state' = Freed(state, Frames(p))
    /\ nFreeFrames' = [nFreeFrames EXCEPT ![p] = NFrames[p]]
    /\ info' = [info EXCEPT ![p] = h[1]]
    /\ held' = held \ {h}

Construct(p) ==
    /\ fate = "running"
    /\ phase[p] = "absent"
    /\ phase' = [phase EXCEPT ![p] = "built"]
    /\ ConstructInside(p) \/ \E h \in held : ConstructOutside(p, h)
    /\ UNCHANGED fate

(* mark_inaccessible(first, n): no test of what the frames were; main      *)
(* calls it once on the new pool, before the first request.                *)
MarkRegion(p, first, n) ==
    /\ fate = "running"
    /\ phase[p] = "built"
    /\ Hole[p].n > 0
    /\ phase' = [phase EXCEPT ![p] = "ready"]
    /\ state' = Marked(state, first, n)
    /\ nFreeFrames' = [nFreeFrames EXCEPT ![p] = @ - n]
    /\ UNCHANGED <<info, held, fate>>

MarkRelative(p) == MarkRegion(p, Hole[p].first - Base[p], Hole[p].n)

MarkInaccessible(p) == MarkRegion(p, Hole[p].first, Hole[p].n)

Ready(p) == phase[p] = "ready" \/ (phase[p] = "built" /\ Hole[p].n = 0)

(* get_frames(n) *)
GetFramesGranted(p, n) ==
    \E f \in Frames(p) :
        /\ IsFirstFit(state, Base[p], Last(p), n, f)
        /\ state' = Marked(state, f, n)
        /\ nFreeFrames' = [nFreeFrames EXCEPT ![p] = @ - n]
        /\ held' = held \union {<<f, n>>}
        /\ UNCHANGED <<phase, info, fate>>

(* No run is long enough.  If the last frame is free the outer loop ends   *)
(* and the call returns 0.  If not, the inner loop, which has no bound,    *)
(* reads past the bitmap: it may meet bits that look free and return 0, or *)
(* never come back.                                                        *)
GetFramesFails(p, n) ==
    /\ Candidates(state, Base[p], Last(p), n) = {}
    /\ \/ UNCHANGED fate
       \/ state[Last(p)] # "Free" /\ fate' = "lost"
    /\ UNCHANGED <<state, nFreeFrames, phase, info, held>>

GetFramesAborts(p, n) == nFreeFrames[p] < n /\ Abort

GetFrames(p, n) ==
    /\ fate = "running"
    /\ Ready(p)
    /\ \/ nFreeFrames[p] >= n /\ (GetFramesGranted(p, n) \/ GetFramesFails(p, n))
       \/ GetFramesAborts(p, n)

(* release_frames(f) with the first frame of a run the caller holds: the   *)
(* frames of freed are set free and count of them are counted.             *)
ReleaseRun(p, f, freed, count) ==
    /\ state[f] = "HoS"
    /\ \E h \in held : h[1] = f
    /\ state' = Freed(state, freed)
    /\ nFreeFrames' = [nFreeFrames EXCEPT ![p] = @ + count]
    /\ held' = {h \in held : h[1] # f}
    /\ UNCHANGED <<phase, info, fate>>

ReleaseHeadOnly(p, f)   == ReleaseRun(p, f, {f}, 1)
ReleaseCountsOne(p, f)  == ReleaseRun(p, f, Extent(state, Last(p), f), 1)
ReleaseCountsDown(p, f) == ReleaseRun(p, f, Extent(state, Last(p), f), -1)

ReleaseHead(p, f) ==
    LET freed == Extent(state, Last(p), f)
    IN  ReleaseRun(p, f, freed, Cardinality(freed))

(* release_frames(f) with a frame that no pool owns or that is not a head  *)
(* (an interior frame, a frame already free): its two assertions.          *)
ReleaseAborts(f) ==
    /\ \A p \in Built : f \in Frames(p) => state[f] # "HoS"
    /\ Abort

ReleaseFrames(f) ==
    /\ fate = "running"
    /\ \/ \E p \in Built : f \in Frames(p) /\ ReleaseHead(p, f)
       \/ ReleaseAborts(f)

Next ==
    \/ \E p \in Pool : Construct(p) \/ MarkInaccessible(p)
    \/ \E p \in Pool, n \in Request : GetFrames(p, n)
    \/ \E f \in Frame \union {OutsideFrame} : ReleaseFrames(f)

Spec == Init /\ [][Next]_vars
-----------------------------------------------------------------------------
FreeFrames(p) == {f \in Frames(p) : state[f] = "Free"}
InfoRun(p)    == info[p]..(info[p] + NInfo(p) - 1)
HoleRun(p)    == Hole[p].first..(Hole[p].first + Hole[p].n - 1)

TypeOK ==
    /\ state \in [Frame -> FrameState]
    /\ nFreeFrames \in [Pool -> Nat]
    /\ phase \in [Pool -> {"absent", "built", "ready"}]
    /\ info \in [Pool -> Frame \union {0}]
    /\ held \subseteq (Frame \X (Nat \ {0}))
    /\ fate \in {"running", "aborted", "lost"}

(* nFreeFrames, which get_frames trusts before it scans, counts exactly    *)
(* the frames the bitmap shows free: get_frames, release_frames,           *)
(* mark_inaccessible and the constructor each keep the two in step.        *)
CountIsExact ==
    \A p \in Built : nFreeFrames[p] = Cardinality(FreeFrames(p))

(* S is what hangs on the head f in its pool's bitmap.                     *)
IsExtent(f, S) ==
    \E p \in Built : /\ f \in Frames(p)
                     /\ state[f] = "HoS"
                     /\ Extent(state, Last(p), f) = S

(* What release_frames would free for a run is exactly what get_frames     *)
(* granted: it starts at a head and the next frame is not one of its used  *)
(* frames, whatever was granted and released next to it since.             *)
HeldIsExtent == \A h \in held : IsExtent(h[1], Run(h))

(* No frame is given to two callers.                                       *)
HeldDisjoint ==
    \A h, k \in held : h # k => Run(h) \intersect Run(k) = {}

(* A used frame always hangs on a head of its own pool: there is no        *)
(* orphan that no release could ever give back.                            *)
NoOrphan ==
    \A p \in Built : \A f \in Frames(p) :
        state[f] = "Used" => f > Base[p] /\ state[f - 1] # "Free"

(* The frames in which a pool keeps its bitmap are allocated and belong to *)
(* no caller, so no caller can overwrite or release them.                  *)
InfoIsSafe ==
    \A p \in Built : \A f \in InfoRun(p) :
        /\ f \in Frame
        /\ state[f] # "Free"
        /\ \A h \in held : f \notin Run(h)

(* Inaccessible memory (the hole main marks) is never granted.             *)
HoleIsSafe ==
    \A p \in Pool : Hole[p].n > 0 /\ phase[p] = "ready" =>
        \A f \in HoleRun(p) : state[f] # "Free" /\ \A h \in held : f \notin Run(h)

(* The bitmaps, the counters and the scan implement the abstract allocator *)
(* of runs: the taken runs are the extents of the heads in the bitmaps.    *)
Extents ==
    UNION {{Extent(state, Last(p), f) : f \in {g \in Frames(p) : state[g] = "HoS"}}
            : p \in Built}

Allocator == INSTANCE FrameAllocator
                WITH open <- Built, taken <- Extents, held <- {Run(h) : h \in held}

ImplementsAllocator == Allocator!Spec
=============================================================================
