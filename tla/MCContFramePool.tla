--------------------------- MODULE MCContFramePool ---------------------------
(***************************************************************************)
(* Two pools as main builds them: a kernel pool that keeps its own bitmap  *)
(* and a process pool whose bitmap lies in kernel frames and which has an  *)
(* inaccessible hole.  The small frame size makes the process pool need    *)
(* two bitmap frames.                                                      *)
(***************************************************************************)
EXTENDS ContFramePool, TLC

MCBase    == "kernel" :> 2 @@ "process" :> 6
MCNFrames == "kernel" :> 4 @@ "process" :> 7
MCHole    == "kernel" :> [first |-> 0, n |-> 0] @@ "process" :> [first |-> 9, n |-> 2]
=============================================================================
