---------------------------- MODULE MCVirtualMemory ----------------------------
(***************************************************************************)
(* Two pools on page tables of five entries, as main places them: each at   *)
(* the start of a table's range.  In VirtualMemory.cfg they end before the *)
(* last page of the range, in SelfMappedPage.cfg the first pool has it.    *)
(***************************************************************************)
EXTENDS VirtualMemory, TLC

MCBase  == "code" :> 5 @@ "heap" :> 10
MCPages == "code" :> 4 @@ "heap" :> 3
MCLong  == "code" :> 5 @@ "heap" :> 3
=============================================================================
