---------------------------- MODULE FrameAllocator ----------------------------
(***************************************************************************)
(* What the frame pools promise, with no bitmap and no counter: memory is  *)
(* a set of frames, an allocation is a set of consecutive free frames of   *)
(* one pool, allocations never overlap, and giving one back frees exactly  *)
(* its frames.  A pool may set runs aside for itself (its bitmap, a hole). *)
(***************************************************************************)
EXTENDS Integers

CONSTANTS Pool, Frames(_)

VARIABLES open,    \* the pools in operation
          taken,   \* the runs that are not free, each a set of frames
          held     \* those of them that belong to callers

avars == <<open, taken, held>>

Interval(S) == \E a, b \in S : S = a..b

Init == open = {} /\ taken = {} /\ held = {}

FreeRun(p, S) ==
    /\ S # {} /\ S \subseteq Frames(p) /\ Interval(S)
    /\ \A T \in taken : S \intersect T = {}

(* A pool opens with a run set aside in it, or with a caller's run of      *)
(* another pool taken over for its use.                                    *)
OpenWithOwnRun(p, S) ==
    /\ p \notin open /\ FreeRun(p, S)
    /\ open' = open \union {p}
    /\ taken' = taken \union {S}
    /\ UNCHANGED held

OpenWithHeldRun(p, S) ==
    /\ p \notin open /\ S \in held
    /\ open' = open \union {p}
    /\ held' = held \ {S}
    /\ UNCHANGED taken

SetAside(p, S) ==
    /\ p \in open /\ FreeRun(p, S)
    /\ taken' = taken \union {S}
    /\ UNCHANGED <<open, held>>

Grant(p, S) ==
    /\ p \in open /\ FreeRun(p, S)
    /\ taken' = taken \union {S}
    /\ held' = held \union {S}
    /\ UNCHANGED open

GiveBack(S) ==
    /\ S \in held
    /\ taken' = taken \ {S}
    /\ held' = held \ {S}
    /\ UNCHANGED open

Next ==
    \/ \E p \in Pool : \E S \in SUBSET Frames(p) :
          OpenWithOwnRun(p, S) \/ SetAside(p, S) \/ Grant(p, S)
    \/ \E S \in held : GiveBack(S) \/ \E p \in Pool : OpenWithHeldRun(p, S)

Spec == Init /\ [][Next]_avars
=============================================================================
