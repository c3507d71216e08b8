--------------------------- MODULE FrameScanProofs ---------------------------
(***************************************************************************)
(* The loops of get_frames compute first fit, whatever the size of the     *)
(* pool, the request and the memory behind the bitmap.                     *)
(***************************************************************************)
EXTENDS FrameScan, FiniteSetTheorems, TLAPS

(* While it scans: the last count frames are free, and no run that is long *)
(* enough starts before them.  Behind the pool only the inner loop runs,   *)
(* with count 0.                                                           *)
Scanning ==
    /\ bits = before
    /\ nFreeFrames >= n
    /\ count <= frame_no
    /\ n > 0 => count <= n
    /\ \A g \in (frame_no - count)..(frame_no - 1) : before[g] = "Free"
    /\ \A f \in Fits : f >= frame_no - count
    /\ frame_no > NFrames => count <= 1

ScanInv ==
    /\ pc \in {"outer", "inner", "check"} => Scanning
    /\ pc = "outer" => n = 0 \/ count < n
    /\ pc = "outer" /\ n = 0 /\ frame_no > 0 => count > 0
    /\ pc = "inner" => /\ n = 0 \/ count < n
                       /\ frame_no >= NFrames => count = 0
    /\ pc = "check" => \/ count = n /\ n > 0
                       \/ count # n /\ frame_no >= NFrames

(* While it marks: the run above fno is marked, the rest is as before.     *)
Marking ==
    /\ n > 0 /\ frame_no - n \in InPool
    /\ IsFirstFit(before, 0, NFrames - 1, n, frame_no - n)
    /\ fno \in (frame_no - n)..(frame_no - 1)
    /\ bits = [g \in Entry |-> IF g \in (fno + 1)..(frame_no - 1) THEN "Used" ELSE before[g]]

IInv ==
    /\ TypeOK
    /\ pc \in {"assert", "outer", "inner", "check", "mark"}
          => nFreeFrames = Cardinality(FreeEntries(before))
    /\ pc = "assert" => bits = before /\ frame_no = 0 /\ count = 0
    /\ ScanInv
    /\ pc = "mark" => Marking
    /\ ResultIsFirstFit
    /\ CountIsExact
    /\ n = 1 /\ pc = "done" => ret # 0

(* A counter that is not zero means that there is a free frame.            *)
LEMMA SomeFree ==
    ASSUME TypeOK, Cardinality(FreeEntries(before)) >= 1
    PROVE  \E g \in InPool : before[g] = "Free"
<1>1. FreeEntries(before) = {} => Cardinality(FreeEntries(before)) = 0
    BY FS_EmptySet
<1> QED BY <1>1 DEF FreeEntries

LEMMA FreeEntriesFinite ==
    \A b : IsFiniteSet(FreeEntries(b)) /\ Cardinality(FreeEntries(b)) \in Nat
<1>1. IsFiniteSet(InPool)
    BY ScanAssumption, FS_Interval DEF InPool
<1> QED BY <1>1, FS_Subset, FS_CardinalityType DEF FreeEntries

(* For one frame, every free frame of the pool will do.                    *)
LEMMA OneFrameFits ==
    ASSUME TypeOK, n = 1
    PROVE  \A g \in InPool : before[g] = "Free" => g \in Fits
BY ScanAssumption DEF Fits, Candidates, InPool

(* The inner loop does not leave the pool when one frame is asked for.     *)
LEMMA OneFrameInside ==
    ASSUME IInv, n = 1, pc = "inner"
    PROVE  frame_no < NFrames
<1>1. PICK g \in InPool : before[g] = "Free"
    BY SomeFree DEF IInv, ScanInv, Scanning
<1>2. g \in Fits
    BY <1>1, OneFrameFits DEF IInv
<1>3. count = 0 /\ g >= frame_no - count
    BY <1>2 DEF IInv, ScanInv, Scanning, TypeOK
<1> QED BY <1>3, ScanAssumption DEF IInv, TypeOK, InPool

LEMMA AssertStep == IInv /\ Assert => IInv'
<1> SUFFICES ASSUME IInv, Assert PROVE IInv'
    OBVIOUS
<1>1. /\ pc = "assert" /\ bits = before /\ frame_no = 0 /\ count = 0
      /\ pc' = IF nFreeFrames >= n THEN "outer" ELSE "aborted"
      /\ UNCHANGED <<bits, before, nFreeFrames, n, frame_no, count, fno, ret>>
    BY DEF IInv, Assert
<1>2. TypeOK'
    BY <1>1 DEF IInv, TypeOK
<1>3. \A f \in Fits : f >= 0
    BY DEF Fits, Candidates
<1>4. ScanInv'
    BY <1>1, <1>3, ScanAssumption DEF IInv, TypeOK, ScanInv, Scanning, Fits
<1> QED BY <1>1, <1>2, <1>4 DEF IInv, ResultIsFirstFit, CountIsExact

LEMMA OuterStep == IInv /\ Outer => IInv'
<1> SUFFICES ASSUME IInv, Outer PROVE IInv'
    OBVIOUS
<1>1. /\ pc = "outer" /\ Scanning
      /\ pc' = IF frame_no < NFrames THEN "inner" ELSE "check"
      /\ UNCHANGED <<bits, before, nFreeFrames, n, frame_no, count, fno, ret>>
    BY DEF IInv, ScanInv, Outer
<1>2. TypeOK'
    BY <1>1 DEF IInv, TypeOK
<1>3. Scanning'
    BY <1>1 DEF Scanning, Fits
<1>4. ScanInv'
    BY <1>1, <1>3, ScanAssumption DEF IInv, TypeOK, ScanInv
<1> QED BY <1>1, <1>2, <1>4 DEF IInv, ResultIsFirstFit, CountIsExact

(* A frame in use ends every run that reaches it.                          *)
LEMMA SkipStep == IInv /\ Skip => IInv'
<1> SUFFICES ASSUME IInv, Skip PROVE IInv'
    OBVIOUS
<1>1. /\ pc = "inner" /\ frame_no \in Entry /\ bits[frame_no] # "Free"
      /\ Scanning /\ (n = 0 \/ count < n)
      /\ frame_no' = frame_no + 1 /\ count' = 0
      /\ UNCHANGED <<bits, before, nFreeFrames, n, fno, ret, pc>>
    BY DEF IInv, ScanInv, Skip
<1>2. TypeOK'
    BY <1>1, ScanAssumption DEF IInv, TypeOK, Entry
<1>3. \A f \in Fits : f >= frame_no + 1
    <2> SUFFICES ASSUME NEW f \in Fits PROVE f >= frame_no + 1
        OBVIOUS
    <2>1. /\ f \in Nat /\ n \in Nat /\ n > 0 /\ f >= frame_no - count
          /\ \A g \in f..(f + n - 1) : before[g] = "Free"
        BY <1>1, ScanAssumption DEF IInv, TypeOK, Scanning, Fits, Candidates
    <2>2. frame_no \in Nat /\ count \in Nat /\ before[frame_no] # "Free"
        BY <1>1, ScanAssumption DEF IInv, TypeOK, Scanning, Entry
    <2>3. CASE f <= frame_no
        BY <1>1, <2>1, <2>2, <2>3
    <2> QED BY <2>1, <2>2, <2>3
<1>4. Scanning'
    BY <1>1, <1>3, ScanAssumption DEF IInv, TypeOK, Scanning, Fits
<1>5. ScanInv'
    BY <1>1, <1>4, ScanAssumption DEF IInv, TypeOK, ScanInv
<1> QED BY <1>1, <1>2, <1>5 DEF IInv, ResultIsFirstFit, CountIsExact

LEMMA CountStep == IInv /\ Count => IInv'
<1> SUFFICES ASSUME IInv, Count PROVE IInv'
    OBVIOUS
<1>1. /\ pc = "inner" /\ frame_no \in Entry /\ bits[frame_no] = "Free"
      /\ Scanning /\ (n = 0 \/ count < n) /\ (frame_no >= NFrames => count = 0)
      /\ frame_no' = frame_no + 1 /\ count' = count + 1
      /\ pc' = IF count + 1 = n THEN "check" ELSE "outer"
      /\ UNCHANGED <<bits, before, nFreeFrames, n, fno, ret>>
    BY DEF IInv, ScanInv, Count
<1>2. frame_no \in Nat /\ count \in Nat /\ n \in Nat /\ before[frame_no] = "Free"
    BY <1>1, ScanAssumption DEF IInv, TypeOK, Scanning, Entry
<1>3. TypeOK'
    BY <1>1, ScanAssumption DEF IInv, TypeOK, Entry, Scanning
<1>4. \A g \in (frame_no + 1 - (count + 1))..frame_no : before[g] = "Free"
    BY <1>1, <1>2 DEF Scanning
<1>5. Scanning'
    BY <1>1, <1>2, <1>4, ScanAssumption DEF Scanning, Fits
<1>6. ScanInv'
    BY <1>1, <1>2, <1>5, ScanAssumption DEF ScanInv
<1> QED BY <1>1, <1>3, <1>6 DEF IInv, ResultIsFirstFit, CountIsExact

LEMMA RunOffStep == IInv /\ RunOff => IInv'
<1> SUFFICES ASSUME IInv, RunOff PROVE IInv'
    OBVIOUS
<1>1. /\ pc = "inner" /\ pc' = "lost"
      /\ UNCHANGED <<bits, before, nFreeFrames, n, frame_no, count, fno, ret>>
    BY DEF RunOff
<1> QED BY <1>1 DEF IInv, TypeOK, ScanInv, ResultIsFirstFit, CountIsExact

(* count # n: the pool is used up, and no run of it was long enough.       *)
LEMMA NoRunStep == IInv /\ NoRun => IInv'
<1> SUFFICES ASSUME IInv, NoRun PROVE IInv'
    OBVIOUS
<1>1. /\ pc = "check" /\ count # n /\ frame_no >= NFrames /\ Scanning
      /\ nFreeFrames = Cardinality(FreeEntries(before))
      /\ ret' = 0 /\ pc' = "done"
      /\ UNCHANGED <<bits, before, nFreeFrames, n, frame_no, count, fno>>
    BY DEF IInv, ScanInv, NoRun
<1>2. /\ frame_no \in Nat /\ count \in Nat /\ n \in Nat
      /\ count <= frame_no /\ (n > 0 => count < n)
    BY <1>1, ScanAssumption DEF IInv, TypeOK, Scanning
<1>3. Fits = {}
    <2> SUFFICES ASSUME NEW f \in Fits PROVE FALSE
        OBVIOUS
    <2>1. f \in Nat /\ n > 0 /\ f + n - 1 <= NFrames - 1 /\ f >= frame_no - count
        BY <1>1, ScanAssumption DEF Scanning, Fits, Candidates
    <2> QED BY <1>1, <1>2, <2>1, ScanAssumption
<1>4. n # 1
    <2> SUFFICES ASSUME n = 1 PROVE FALSE
        OBVIOUS
    <2>1. nFreeFrames >= 1
        BY <1>1 DEF Scanning
    <2> QED BY <1>1, <1>3, <2>1, SomeFree, OneFrameFits DEF IInv
<1>5. TypeOK'
    BY <1>1 DEF IInv, TypeOK
<1>6. ResultIsFirstFit' /\ CountIsExact'
    BY <1>1, <1>3 DEF Scanning, ResultIsFirstFit, CountIsExact, Fits
<1> QED BY <1>1, <1>4, <1>5, <1>6 DEF IInv, ScanInv

(* count = n: the run that ends here is the lowest one that is long enough *)
(* and lies inside the pool.                                               *)
LEMMA StartMarkingStep == IInv /\ StartMarking => IInv'
<1> SUFFICES ASSUME IInv, StartMarking PROVE IInv'
    OBVIOUS
<1>1. /\ pc = "check" /\ count = n /\ Scanning
      /\ fno' = frame_no - 1 /\ pc' = "mark"
      /\ UNCHANGED <<bits, before, nFreeFrames, n, frame_no, count, ret>>
    BY DEF IInv, StartMarking, ScanInv
<1>2. /\ n \in Nat /\ n > 0 /\ frame_no \in Nat /\ n <= frame_no
      /\ bits \in [Entry -> FrameState] /\ bits = before
    BY <1>1, ScanAssumption DEF IInv, TypeOK, ScanInv, Scanning
<1>3. frame_no <= NFrames
    <2>1. CASE n # 1
        BY <1>1, <1>2, <2>1, ScanAssumption DEF Scanning
    <2>2. CASE n = 1
        <3>1. PICK g \in InPool : before[g] = "Free"
            BY <1>1, <2>2, SomeFree DEF IInv, Scanning
        <3>2. g \in Fits /\ g >= frame_no - 1
            BY <1>1, <2>2, <3>1, OneFrameFits DEF IInv, Scanning
        <3> QED BY <1>2, <3>1, <3>2, ScanAssumption DEF InPool
    <2> QED BY <2>1, <2>2
<1>4. frame_no - n \in InPool
    BY <1>2, <1>3, ScanAssumption DEF InPool
<1>5. IsFirstFit(before, 0, NFrames - 1, n, frame_no - n)
    <2>1. frame_no - n \in Fits
        BY <1>1, <1>2, <1>3, ScanAssumption DEF Fits, Candidates, Scanning
    <2> QED BY <1>1, <2>1 DEF IsFirstFit, Fits, Scanning
<1>6. Marking'
    <2>1. fno' \in (frame_no - n)..(frame_no - 1)
        BY <1>1, <1>2
    <2>2. (fno' + 1)..(frame_no - 1) = {}
        BY <1>1, <1>2
    <2>3. bits = [g \in Entry |-> before[g]]
        BY <1>2
    <2>4. bits = [g \in Entry |-> IF g \in (fno' + 1)..(frame_no - 1)
                                  THEN "Used" ELSE before[g]]
        BY <2>2, <2>3
    <2> QED BY <1>1, <1>2, <1>4, <1>5, <2>1, <2>4 DEF Marking
<1>7. TypeOK'
    BY <1>1, <1>2, ScanAssumption DEF IInv, TypeOK
<1> QED BY <1>1, <1>6, <1>7 DEF IInv, ScanInv, ResultIsFirstFit, CountIsExact

LEMMA MarkUsedStep == IInv /\ MarkUsed => IInv'
<1> SUFFICES ASSUME IInv, MarkUsed PROVE IInv'
    OBVIOUS
<1>1. /\ pc = "mark" /\ pc' = "mark" /\ fno > frame_no - n /\ Marking
      /\ bits' = [bits EXCEPT ![fno] = "Used"] /\ fno' = fno - 1
      /\ UNCHANGED <<before, nFreeFrames, n, frame_no, count, ret>>
    BY DEF IInv, MarkUsed
<1>2. /\ n \in Nat /\ frame_no \in Nat /\ frame_no <= Memory /\ fno \in Int
      /\ before \in [Entry -> FrameState] /\ bits \in [Entry -> FrameState]
    BY <1>1, ScanAssumption DEF IInv, TypeOK
<1>3. fno \in (frame_no - n)..(frame_no - 1) /\ frame_no - n >= 0 /\ fno \in Entry
    BY <1>1, <1>2, ScanAssumption DEF Marking, InPool, Entry
<1>4. fno' \in (frame_no - n)..(frame_no - 1)
    BY <1>1, <1>2, <1>3
<1>5. bits' = [g \in Entry |-> IF g \in (fno' + 1)..(frame_no - 1)
                               THEN "Used" ELSE before[g]]
    <2>1. \A g \in Entry : g \in (fno' + 1)..(frame_no - 1)
                          <=> g = fno \/ g \in (fno + 1)..(frame_no - 1)
        BY <1>1, <1>2, <1>3 DEF Entry
    <2> QED BY <1>1, <1>2, <1>3, <2>1 DEF Marking
<1>6. Marking'
    BY <1>1, <1>4, <1>5 DEF Marking
<1>7. TypeOK'
    <2>1. bits' \in [Entry -> FrameState]
        BY <1>1, <1>2 DEF FrameState
    <2>2. fno' \in -1..Memory
        BY <1>1, <1>2, <1>3, <1>4, ScanAssumption DEF Entry
    <2> QED BY <1>1, <2>1, <2>2 DEF IInv, TypeOK
<1> QED BY <1>1, <1>6, <1>7 DEF IInv, ScanInv, ResultIsFirstFit, CountIsExact

(* The head closes the run: the bitmap is the marked one and the counter   *)
(* has lost exactly the frames of the run.                                 *)
LEMMA MarkHeadStep == IInv /\ MarkHead => IInv'
<1> SUFFICES ASSUME IInv, MarkHead PROVE IInv'
    OBVIOUS
<1> DEFINE f == frame_no - n
           R == f..(f + n - 1)
<1>1. /\ pc = "mark" /\ pc' = "done" /\ fno <= f /\ Marking
      /\ nFreeFrames = Cardinality(FreeEntries(before))
      /\ bits' = [bits EXCEPT ![f] = "HoS"]
      /\ nFreeFrames' = nFreeFrames - n /\ ret' = f + Base
      /\ UNCHANGED <<before, n, frame_no, count, fno>>
    BY DEF IInv, MarkHead, ReturnRun
<1>2. /\ n \in Nat /\ n > 0 /\ frame_no \in Nat /\ frame_no <= Memory /\ fno = f
      /\ f \in InPool /\ f \in Entry /\ f \in Nat
      /\ before \in [Entry -> FrameState] /\ bits \in [Entry -> FrameState]
      /\ IsFirstFit(before, 0, NFrames - 1, n, f)
    BY <1>1, ScanAssumption DEF IInv, TypeOK, Marking, InPool, Entry
<1>3. /\ f + n - 1 <= NFrames - 1 /\ \A g \in R : before[g] = "Free"
      /\ R \subseteq InPool
    BY <1>2, ScanAssumption DEF IsFirstFit, Candidates, InPool
<1>4. bits' = Marked(before, f, n)
    <2>1. bits = [g \in Entry |-> IF g \in (f + 1)..(f + n - 1) THEN "Used" ELSE before[g]]
        BY <1>1, <1>2 DEF Marking
    <2>2. DOMAIN before = Entry /\ DOMAIN bits = Entry
        BY <1>2
    <2>3. bits' = [g \in Entry |-> IF g = f THEN "HoS"
                                   ELSE IF g \in (f + 1)..(f + n - 1) THEN "Used"
                                   ELSE before[g]]
        BY <1>1, <2>1, <2>2
    <2> QED BY <2>2, <2>3 DEF Marked
<1>5. FreeEntries(bits') = FreeEntries(before) \ R
    <2>1. \A g \in InPool : bits'[g] = "Free" <=> before[g] = "Free" /\ g \notin R
        BY <1>2, <1>4, ScanAssumption DEF Marked, InPool, Entry
    <2> QED BY <2>1 DEF FreeEntries
<1>6. Cardinality(FreeEntries(bits')) = nFreeFrames - n
    <2>1. FreeEntries(before) \intersect R = R
        BY <1>3 DEF FreeEntries
    <2>2. f \in Int /\ f + n - 1 \in Int /\ ~(f > f + n - 1) /\ (f + n - 1) - f + 1 = n
        BY <1>2
    <2>3. Cardinality(R) = n
        BY <2>2, FS_Interval
    <2>4. Cardinality(FreeEntries(before) \ R)
             = Cardinality(FreeEntries(before)) - Cardinality(FreeEntries(before) \intersect R)
        BY FreeEntriesFinite, FS_Difference
    <2> QED BY <1>1, <1>5, <2>1, <2>3, <2>4
<1>7. nFreeFrames' \in Nat
    BY <1>1, <1>6, FreeEntriesFinite
<1>8. TypeOK'
    <2>1. bits' \in [Entry -> FrameState]
        BY <1>1, <1>2 DEF FrameState
    <2>2. ret' \in {Base + x : x \in InPool}
        BY <1>1, <1>2, ScanAssumption DEF InPool
    <2> QED BY <1>1, <1>7, <2>1, <2>2 DEF IInv, TypeOK
<1>9. ret' # 0 /\ ret' - Base = f
    BY <1>1, <1>2, ScanAssumption
<1>10. ResultIsFirstFit' /\ CountIsExact'
    BY <1>1, <1>2, <1>4, <1>6, <1>9 DEF ResultIsFirstFit, CountIsExact
<1> QED BY <1>1, <1>8, <1>9, <1>10 DEF IInv, ScanInv
-----------------------------------------------------------------------------
(* The annotation holds all along the call.                                *)
THEOREM ScanInvariance == Spec => []IInv
<1>1. Init => IInv
    <2> SUFFICES ASSUME Init PROVE IInv
        OBVIOUS
    <2>1. TypeOK
        BY FreeEntriesFinite, ScanAssumption DEF Init, TypeOK
    <2> QED BY <2>1 DEF Init, IInv, ScanInv, ResultIsFirstFit, CountIsExact
<1>2. IInv /\ UNCHANGED vars => IInv'
    BY DEF IInv, TypeOK, ScanInv, Scanning, Marking, ResultIsFirstFit, CountIsExact,
           Fits, vars
<1>3. IInv /\ [Next]_vars => IInv'
    BY <1>2, AssertStep, OuterStep, SkipStep, RunOffStep, CountStep, NoRunStep,
       StartMarkingStep, MarkUsedStep, MarkHeadStep DEF Next
<1> QED BY <1>1, <1>3, PTL DEF Spec

(* get_frames grants the lowest run that is long enough, or returns 0 when *)
(* there is none.                                                          *)
THEOREM ScanIsFirstFit == Spec => []ResultIsFirstFit
BY ScanInvariance, PTL DEF IInv

(* The counter is exact when the call returns.                             *)
THEOREM ScanCounts == Spec => []CountIsExact
BY ScanInvariance, PTL DEF IInv

(* A request for one frame is served, without a read behind the bitmap.    *)
THEOREM OneFrameIsSafe == Spec => []OneFrameStaysInside
<1>1. IInv => OneFrameStaysInside
    BY OneFrameInside DEF IInv, OneFrameStaysInside
<1> QED BY <1>1, ScanInvariance, PTL

-----------------------------------------------------------------------------
(* Where the scan stands at the end of the pool.  The outer loop is passed *)
(* behind a free frame only; the inner one goes on only behind a used one. *)
EndInUse == before[NFrames - 1] # "Free"

AtEnd ==
    /\ pc \in {"outer", "inner", "check"} /\ frame_no > NFrames => EndInUse
    /\ pc = "inner" /\ frame_no = NFrames => EndInUse
    /\ pc \in {"outer", "check"} /\ frame_no > 0 => count > 0
    /\ LeavesBehindUsedEnd

(* Behind the pool nothing is counted, so no run can still be found.       *)
LEMMA NoneLeft ==
    ASSUME IInv, pc = "inner", frame_no >= NFrames
    PROVE  Fits = {}
<1>1. Scanning /\ count = 0 /\ frame_no \in Nat /\ n \in Nat
    BY ScanAssumption DEF IInv, ScanInv, TypeOK
<1> SUFFICES ASSUME NEW f \in Fits PROVE FALSE
    OBVIOUS
<1>2. f \in Nat /\ f <= NFrames - 1 /\ f >= frame_no
    BY <1>1, ScanAssumption DEF Scanning, Fits, Candidates
<1> QED BY <1>1, <1>2, ScanAssumption

LEMMA AtEndStep == ASSUME IInv, AtEnd, Next PROVE AtEnd'
<1> USE ScanAssumption
<1>1. frame_no \in Nat /\ count \in Nat /\ n \in Nat
    BY DEF IInv, TypeOK
<1>2. CASE Assert
    BY <1>1, <1>2 DEF Assert, IInv, AtEnd, EndInUse, LeavesBehindUsedEnd, Fits
<1>3. CASE Outer
    BY <1>1, <1>3 DEF Outer, AtEnd, EndInUse, LeavesBehindUsedEnd, Fits
<1>4. CASE Skip
    <2>1. /\ pc = "inner" /\ pc' = "inner" /\ frame_no' = frame_no + 1 /\ before' = before
          /\ before[frame_no] # "Free" /\ Fits' = Fits
        BY <1>4 DEF Skip, IInv, ScanInv, Scanning, Fits
    <2>2. frame_no' >= NFrames => EndInUse
        BY <1>1, <2>1 DEF AtEnd, EndInUse
    <2>3. frame_no' >= NFrames => Fits = {}
        <3>1. CASE frame_no >= NFrames
            BY <2>1, <3>1, NoneLeft
        <3>2. CASE frame_no + 1 = NFrames
            <4> SUFFICES ASSUME NEW f \in Fits PROVE FALSE
                OBVIOUS
            <4>0. f >= frame_no - count
                BY <2>1 DEF IInv, ScanInv, Scanning
            <4>1. /\ f \in Nat /\ n > 0 /\ f + n - 1 <= NFrames - 1 /\ f >= frame_no - count
                  /\ \A g \in f..(f + n - 1) : before[g] = "Free"
                BY <1>1, <4>0 DEF Fits, Candidates
            <4>2. count < n
                BY <2>1, <4>1 DEF IInv, ScanInv
            <4>3. frame_no \in f..(f + n - 1)
                BY <1>1, <3>2, <4>1, <4>2
            <4> QED BY <2>1, <4>1, <4>3
        <3> QED BY <1>1, <2>1, <3>1, <3>2
    <2> QED BY <1>1, <2>1, <2>2, <2>3 DEF AtEnd, EndInUse, LeavesBehindUsedEnd
<1>5. CASE RunOff
    <2>1. pc = "inner" /\ frame_no >= NFrames /\ pc' = "lost" /\ before' = before /\ n' = n
        BY <1>1, <1>5 DEF RunOff, Entry
    <2>2. EndInUse /\ Fits = {}
        BY <1>1, <2>1, NoneLeft DEF AtEnd
    <2> QED BY <2>1, <2>2 DEF AtEnd, EndInUse, LeavesBehindUsedEnd, Fits
<1>6. CASE Count
    BY <1>1, <1>6 DEF Count, AtEnd, EndInUse, LeavesBehindUsedEnd, Fits
<1>7. CASE NoRun
    <2>1. /\ pc = "check" /\ pc' = "done" /\ frame_no >= NFrames /\ Scanning
          /\ UNCHANGED <<before, frame_no>>
        BY <1>7 DEF NoRun, IInv, ScanInv
    <2>2. count > 0
        BY <1>1, <2>1 DEF AtEnd
    <2>3. frame_no = NFrames => before[NFrames - 1] = "Free"
        BY <1>1, <2>1, <2>2 DEF Scanning
    <2>4. frame_no > NFrames <=> EndInUse
        BY <1>1, <2>1, <2>3 DEF AtEnd, EndInUse
    <2> QED BY <2>1, <2>4 DEF AtEnd, EndInUse, LeavesBehindUsedEnd
<1>8. CASE StartMarking \/ MarkUsed
    BY <1>8 DEF StartMarking, MarkUsed, AtEnd, LeavesBehindUsedEnd
<1>9. CASE MarkHead
    <2>1. pc' = "done" /\ ret' = frame_no - n + Base /\ frame_no - n \in InPool
        BY <1>9 DEF MarkHead, ReturnRun, IInv, Marking
    <2>2. ret' # 0
        BY <2>1 DEF InPool
    <2> QED BY <2>1, <2>2 DEF AtEnd, LeavesBehindUsedEnd
<1> QED BY <1>2, <1>3, <1>4, <1>5, <1>6, <1>7, <1>8, <1>9 DEF Next

(* A request that cannot be served and meets a used frame at the end of    *)
(* the pool reads on behind the bitmap; no other request does.             *)
THEOREM ScanLeavesBehindUsedEnd == Spec => []LeavesBehindUsedEnd
<1>1. Init => AtEnd
    BY DEF Init, AtEnd, LeavesBehindUsedEnd
<1>2. AtEnd /\ UNCHANGED vars => AtEnd'
    BY DEF vars, AtEnd, EndInUse, LeavesBehindUsedEnd, Fits
<1>3. IInv /\ AtEnd /\ [Next]_vars => AtEnd'
    BY <1>2, AtEndStep
<1>4. AtEnd => LeavesBehindUsedEnd
    BY DEF AtEnd
<1> QED BY <1>1, <1>3, <1>4, ScanInvariance, PTL DEF Spec
=============================================================================
