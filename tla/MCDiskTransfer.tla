---------------------------- MODULE MCDiskTransfer ----------------------------
(***************************************************************************)
(* Two threads and two blocks whose numbers differ in two registers; two   *)
(* words of two bytes, each byte of which tells the two contents apart.    *)
(***************************************************************************)
EXTENDS DiskTransfer

Contents == {[k \in 0 .. 3 |-> IF k \in {0, 3} THEN 1 ELSE 0],
             [k \in 0 .. 3 |-> IF k = 1 THEN 1 ELSE 0]}
=============================================================================
