---------------------------- MODULE MCSpscBuffer ----------------------------
(***************************************************************************)
(* Instances of SpscBuffer for TLC.                                        *)
(***************************************************************************)
EXTENDS SpscBuffer
=============================================================================
