------------------------------ MODULE FrameRuns ------------------------------
(***************************************************************************)
(* The vocabulary of a frame bitmap of class ContFramePool                 *)
(* (cont_frame_pool.C): the three states of a frame, the free runs a       *)
(* request can be served from, what marking a run does to the bitmap and   *)
(* which frames hang on a head of sequence.  A bitmap st is a function     *)
(* from frame numbers to states; a pool is the interval lo..hi of them.    *)
(***************************************************************************)
EXTENDS Integers

FrameState == {"Free", "Used", "HoS"}

(* The first frames from which n frames in a row are free.  A request for  *)
(* no frame is never served: the scan tests "count == _n_frames" only      *)
(* after it has counted a free frame.                                      *)
CandidatesEndsOnly(st, lo, hi, n) ==
    {f \in lo..hi : /\ n > 0
                    /\ f + n - 1 <= hi
                    /\ st[f] = "Free" /\ st[f + n - 1] = "Free"}

Candidates(st, lo, hi, n) ==
    {f \in lo..hi : /\ n > 0
                    /\ f + n - 1 <= hi
                    /\ \A g \in f..(f + n - 1) : st[g] = "Free"}

(* The scan runs upwards and stops at the first run that is long enough.   *)
IsFirstFit(st, lo, hi, n, f) ==
    /\ f \in Candidates(st, lo, hi, n)
    /\ \A g \in Candidates(st, lo, hi, n) : f <= g

(* The bitmap after the frames f .. f+n-1 are marked: head, then used.     *)
MarkedShort(st, f, n) ==
    [g \in DOMAIN st |-> IF g = f THEN "HoS"
                         ELSE IF g \in (f + 1)..(f + n - 2) THEN "Used"
                         ELSE st[g]]

Marked(st, f, n) ==
    [g \in DOMAIN st |-> IF g = f THEN "HoS"
                         ELSE IF g \in (f + 1)..(f + n - 1) THEN "Used"
                         ELSE st[g]]

(* The head f and the used frames that follow it, up to the pool's end.    *)
Extent(st, hi, f) == {g \in f..hi : \A h \in (f + 1)..g : st[h] = "Used"}

(* The bitmap after the frames of S are set free.                          *)
Freed(st, S) == [g \in DOMAIN st |-> IF g \in S THEN "Free" ELSE st[g]]

(* ceil(n / perInfo): a bitmap frame describes perInfo frames.             *)
NeededInfoFrames(n, perInfo) == (n + perInfo - 1) \div perInfo
=============================================================================
