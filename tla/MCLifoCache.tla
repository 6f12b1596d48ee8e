----------------------------- MODULE MCLifoCache -----------------------------
(***************************************************************************)
(* Instances of LifoCache for TLC: blocks of two sizes.                    *)
(***************************************************************************)
EXTENDS LifoCache

MCBlock  == {"a", "b", "c", "d"}
MCSizeOf == [b \in MCBlock |-> IF b \in {"a", "b"} THEN 1 ELSE 2]
=============================================================================
