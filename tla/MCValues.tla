------------------------------ MODULE MCValues ------------------------------
(* Documents two levels deep: a map, or a vector, with maps and vectors below. *)
EXTENDS ValueDiffs, TLC

CONSTANTS k, l, one, two
MCKeys == {k, l}
MCLeaves == {one, two}
MCPaths == {<<>>, <<k>>, <<l>>, <<k, l>>, <<k, 0>>, <<k, 1>>, <<0>>, <<0, k>>, <<0, k, 1>>}
=============================================================================
