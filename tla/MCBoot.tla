-------------------------------- MODULE MCBoot --------------------------------
(* Three threads; main starts the first of them.                            *)
EXTENDS Boot

ThreeThreads == <<"thread1", "thread2", "thread3">>
=============================================================================
