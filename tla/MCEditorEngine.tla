--------------------------- MODULE MCEditorEngine ---------------------------
EXTENDS EditorEngine, TLC

CONSTANTS r, a, d, e, none

MCIds == {r, a}
Bare == [data |-> d, children |-> <<>>]
Above(id) == [data |-> d, children |-> <<id>>]

MCNewObjects == {Above(r)}
MCLoads == {a :> Bare, r :> Above(a)}
MCEngineScenes ==
  {[objects |-> r :> Bare @@ a :> none, selected |-> none, version |-> 1],
   [objects |-> r :> Above(a) @@ a :> none, selected |-> a, version |-> 2]}
=============================================================================
