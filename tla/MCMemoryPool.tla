---------------------------- MODULE MCMemoryPool ----------------------------
(***************************************************************************)
(* Instances of MemoryPool for TLC.  Sizes are the code's divided by 16:   *)
(* a header is 1, a minimum block 4.                                       *)
(***************************************************************************)
EXTENDS MemoryPool
=============================================================================
