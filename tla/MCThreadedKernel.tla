--------------------------- MODULE MCThreadedKernel ---------------------------
(***************************************************************************)
(* The orders in which main adds the threads of the runs.  "io" and "io2"  *)
(* run fun2, the others only pass the CPU on.                              *)
(***************************************************************************)
EXTENDS ThreadedKernel

Shipped == <<"cpu1", "io", "cpu2", "cpu3">>
PairIO  == <<"io", "io2">>
PairCPU == <<"cpu1", "cpu2">>
=============================================================================
