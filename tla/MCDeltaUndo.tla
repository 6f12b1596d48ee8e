---------------------------- MODULE MCDeltaUndo ----------------------------
EXTENDS DeltaUndo, TLC

CONSTANTS r, a, v, p, null, none

MCIds == {r, a}
Bare == [data |-> [q \in {p} |-> null], children |-> <<>>]
MCNewObjects == {[data |-> [q \in {p} |-> v], children |-> <<>>]}
MCInitialScenes == {r :> Bare @@ a :> none}
MCEngineScenes == {r :> [data |-> p :> v, children |-> <<a>>] @@ a :> Bare}
=============================================================================
