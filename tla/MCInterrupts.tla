----------------------------- MODULE MCInterrupts -----------------------------
(***************************************************************************)
(* Two threads: one preempted inside a handler, the other running.         *)
(***************************************************************************)
EXTENDS Interrupts

Pair == <<"a", "b">>
=============================================================================
