--------------------------- MODULE MCPathWatcher ----------------------------
(* Values two levels deep that differ below a map, by a missing key, by a map *)
(* that became a leaf, and not at all.                                      *)
EXTENDS PathWatcher, TLC

CONSTANTS k, l, c1, c2, one, two
MCCallbacks == {c1, c2}
MCLeaves == {one, two}
Inner == {k :> one, k :> two}
MCStates == {k :> one @@ l :> (k :> one), k :> one @@ l :> (k :> two), k :> two @@ l :> one, l :> (k :> one)}
MCValues == MCLeaves \cup {Null} \cup Inner \cup MCStates
MCPaths == {<<>>, <<k>>, <<l>>, <<l, k>>}
AnyCallback == Permutations(MCCallbacks)
=============================================================================
