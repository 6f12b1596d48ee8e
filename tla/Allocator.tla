------------------------------ MODULE Allocator ------------------------------
(***************************************************************************)
(* What a pool promises (include/lager_ext/shared_memory_pool.h 77-92): it *)
(* is cut into blocks, a block is held by at most one caller, and a block  *)
(* handed out is large enough.  How free blocks are found is left open.    *)
(***************************************************************************)
EXTENDS PoolSizes

VARIABLES
  size,        \* offset of each block |-> its size
  held         \* offset of each block a caller holds |-> the size it asked for

vars == <<size, held>>

-----------------------------------------------------------------------------
Init ==
  /\ size = [o \in {0} |-> PoolSize]
  /\ held = [o \in {} |-> 0]

Hold(o, n) == held' = [x \in DOMAIN held \cup {o} |-> IF x = o THEN n ELSE held[x]]

\* Block o is handed out as it is.
TakeWhole(o, n) ==
  /\ o \in DOMAIN size \ DOMAIN held
  /\ size[o] >= Needed(n)
  /\ Hold(o, n)
  /\ UNCHANGED size

\* Block o is cut in two, and the front handed out.
TakeFront(o, n) ==
  /\ o \in DOMAIN size \ DOMAIN held
  /\ Splittable(size[o] - Needed(n))
  /\ Hold(o, n)
  /\ size' = [x \in DOMAIN size \cup {o + Needed(n)} |->
                IF x = o THEN Needed(n)
                ELSE IF x = o + Needed(n) THEN size[o] - Needed(n)
                ELSE size[x]]

GiveBack(o) ==
  /\ o \in DOMAIN held
  /\ held' = [x \in DOMAIN held \ {o} |-> held[x]]
  /\ UNCHANGED size

Next ==
  \/ \E o \in DOMAIN size, n \in Requests : TakeWhole(o, n) \/ TakeFront(o, n)
  \/ \E o \in DOMAIN held : GiveBack(o)

Spec == Init /\ [][Next]_vars

-----------------------------------------------------------------------------
(* Properties. *)

TypeOK ==
  /\ DOMAIN size \subseteq 0..(PoolSize - 1)
  /\ \A o \in DOMAIN size : size[o] \in 1..PoolSize
  /\ size = [o \in DOMAIN size |-> size[o]]
  /\ DOMAIN held \subseteq DOMAIN size
  /\ held \in [DOMAIN held -> Requests]

\* Blocks lie within the pool and no two of them overlap.
Disjoint ==
  /\ \A o \in DOMAIN size : o + size[o] <= PoolSize
  /\ \A o, p \in DOMAIN size : o < p => o + size[o] <= p

\* No byte of the pool is lost between two blocks.
Covered ==
  \A b \in 0..(PoolSize - 1) : \E o \in DOMAIN size : o <= b /\ b < o + size[o]

\* Whoever holds a block can use all it asked for, past the header.
LargeEnough == \A o \in DOMAIN held : size[o] - HeaderSize >= held[o]

PoolInv == TypeOK /\ Disjoint /\ Covered /\ LargeEnough
=============================================================================
