------------------------------ MODULE FrameScan ------------------------------
(***************************************************************************)
(* One call of ContFramePool::get_frames, statement by statement: the      *)
(* assertion, the two nested scanning loops, the marking loop.  bits is    *)
(* the memory the bitmap pointer reaches: entries 0 .. NFrames-1 describe  *)
(* the pool, the entries behind are whatever lies there in memory, and     *)
(* past entry Memory-1 nothing answers any more.                           *)
(***************************************************************************)
EXTENDS FrameRuns, FiniteSets

CONSTANTS Base, NFrames, Memory, Request

ASSUME ScanAssumption ==
    /\ Base \in Nat \ {0}
    /\ NFrames \in Nat \ {0}
    /\ Memory \in Nat /\ Memory >= NFrames
    /\ Request \subseteq Nat

Entry == 0..(Memory - 1)
InPool == 0..(NFrames - 1)

VARIABLES
    bits,         \* the bitmap, and the memory behind it
    before,       \* the bitmap at the call
    nFreeFrames,
    n,            \* _n_frames
    frame_no, count, fno,
    ret,          \* the returned frame number
    pc

vars == <<bits, before, nFreeFrames, n, frame_no, count, fno, ret, pc>>

FreeEntries(b) == {f \in InPool : b[f] = "Free"}

(* Any bitmap, with the counter that goes with it.                         *)
Init ==
    /\ bits \in [Entry -> FrameState]
    /\ before = bits
    /\ nFreeFrames = Cardinality(FreeEntries(bits))
    /\ n \in Request
    /\ frame_no = 0 /\ count = 0 /\ fno = 0 /\ ret = 0
    /\ pc = "assert"

AssertNothing ==
    /\ pc = "assert"
    /\ pc' = "outer"
    /\ UNCHANGED <<bits, before, nFreeFrames, n, frame_no, count, fno, ret>>

Assert ==
    /\ pc = "assert"
    /\ pc' = IF nFreeFrames >= n THEN "outer" ELSE "aborted"
    /\ UNCHANGED <<bits, before, nFreeFrames, n, frame_no, count, fno, ret>>

(* while(frame_no < nframes) *)
OuterOnceMore ==
    /\ pc = "outer"
    /\ pc' = IF frame_no <= NFrames THEN "inner" ELSE "check"
    /\ UNCHANGED <<bits, before, nFreeFrames, n, frame_no, count, fno, ret>>

Outer ==
    /\ pc = "outer"
    /\ pc' = IF frame_no < NFrames THEN "inner" ELSE "check"
    /\ UNCHANGED <<bits, before, nFreeFrames, n, frame_no, count, fno, ret>>

(* The inner loop steps over a frame in use; nothing stops it at nframes.  *)
SkipKeepsCount ==
    /\ pc = "inner" /\ frame_no \in Entry /\ bits[frame_no] # "Free"
    /\ frame_no' = frame_no + 1
    /\ UNCHANGED <<bits, before, nFreeFrames, n, count, fno, ret, pc>>

SkipStays ==
    /\ pc = "inner" /\ frame_no \in Entry /\ bits[frame_no] # "Free"
    /\ count' = 0
    /\ UNCHANGED <<bits, before, nFreeFrames, n, frame_no, fno, ret, pc>>

Skip ==
    /\ pc = "inner" /\ frame_no \in Entry /\ bits[frame_no] # "Free"
    /\ frame_no' = frame_no + 1
    /\ count' = 0
    /\ UNCHANGED <<bits, before, nFreeFrames, n, fno, ret, pc>>

RunOff ==
    /\ pc = "inner" /\ frame_no \notin Entry
    /\ pc' = "lost"
    /\ UNCHANGED <<bits, before, nFreeFrames, n, frame_no, count, fno, ret>>

(* A free frame: count it, and leave the outer loop when it was the last   *)
(* one missing.                                                            *)
Count ==
    /\ pc = "inner" /\ frame_no \in Entry /\ bits[frame_no] = "Free"
    /\ count' = count + 1
    /\ frame_no' = frame_no + 1
    /\ pc' = IF count + 1 = n THEN "check" ELSE "outer"
    /\ UNCHANGED <<bits, before, nFreeFrames, n, fno, ret>>

(* if(count != _n_frames) return 0; *)
NoRun ==
    /\ pc = "check" /\ count # n
    /\ ret' = 0
    /\ pc' = "done"
    /\ UNCHANGED <<bits, before, nFreeFrames, n, frame_no, count, fno>>

StartMarking ==
    /\ pc = "check" /\ count = n
    /\ fno' = frame_no - 1
    /\ pc' = "mark"
    /\ UNCHANGED <<bits, before, nFreeFrames, n, frame_no, count, ret>>

(* The last n-1 frames of the run, from the top; then its head.            *)
MarkUsed ==
    /\ pc = "mark" /\ fno > frame_no - n
    /\ bits' = [bits EXCEPT ![fno] = "Used"]
    /\ fno' = fno - 1
    /\ UNCHANGED <<before, nFreeFrames, n, frame_no, count, ret, pc>>

ReturnRun(result, taken) ==
    /\ pc = "mark" /\ fno <= frame_no - n
    /\ bits' = [bits EXCEPT ![frame_no - n] = "HoS"]
    /\ nFreeFrames' = nFreeFrames - taken
    /\ ret' = result
    /\ pc' = "done"
    /\ UNCHANGED <<before, n, frame_no, count, fno>>

MarkHeadUncounted == ReturnRun(frame_no - n + Base, n - 1)

MarkHead == ReturnRun(frame_no - n + Base, n)

Next ==
    \/ Assert \/ Outer \/ Skip \/ RunOff \/ Count
    \/ NoRun \/ StartMarking \/ MarkUsed \/ MarkHead

Spec == Init /\ [][Next]_vars
FairSpec == Spec /\ WF_vars(Next)
-----------------------------------------------------------------------------
Fits == Candidates(before, 0, NFrames - 1, n)

TypeOK ==
    /\ bits \in [Entry -> FrameState] /\ before \in [Entry -> FrameState]
    /\ nFreeFrames \in Nat /\ n \in Request
    /\ frame_no \in 0..Memory /\ count \in 0..Memory /\ fno \in -1..Memory
    /\ ret \in {0} \union {Base + f : f \in InPool}
    /\ pc \in {"assert", "outer", "inner", "check", "mark", "done", "lost", "aborted"}

(* The loops compute first fit: the call returns 0 only when no run of the *)
(* pool is long enough and then changes nothing, and else grants the       *)
(* lowest such run and marks exactly its frames.                           *)
ResultIsFirstFit ==
    pc = "done" =>
        IF ret = 0 THEN Fits = {} /\ bits = before
        ELSE /\ IsFirstFit(before, 0, NFrames - 1, n, ret - Base)
             /\ bits = Marked(before, ret - Base, n)

(* A request for one frame, the only size page_table.C ever asks for, is   *)
(* always served and never reads behind the bitmap.                        *)
OneFrameStaysInside ==
    n = 1 => /\ pc = "inner" => frame_no < NFrames
             /\ pc = "done" => ret # 0

(* The counter is in step with the bitmap again when the call returns.     *)
CountIsExact ==
    pc = "done" => nFreeFrames = Cardinality(FreeEntries(bits))

(* Every call comes to an end: it returns, aborts or runs off memory.      *)
Terminates == <>(pc \in {"done", "lost", "aborted"})

(* The scan reads behind the bitmap in one situation only: no run is long  *)
(* enough and the last frame of the pool is in use.  Then it always does,  *)
(* and whether the call returns 0, as cont_frame_pool.H says, or never     *)
(* comes back is up to the memory there.                                   *)
LeavesBehindUsedEnd ==
    LET endInUse == before[NFrames - 1] # "Free"
    IN  /\ (pc = "inner" /\ frame_no >= NFrames) \/ pc = "lost" => Fits = {} /\ endInUse
        /\ pc = "done" /\ ret = 0 => (frame_no > NFrames <=> endInUse)
=============================================================================
