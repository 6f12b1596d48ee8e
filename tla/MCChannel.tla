------------------------------ MODULE MCChannel ------------------------------
(***************************************************************************)
(* Instances of Channel for TLC: the ids and payloads are model values.    *)
(***************************************************************************)
EXTENDS Channel

CONSTANTS i1, i2, b1, b2
==============================================================================
