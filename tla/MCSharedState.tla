---------------------------- MODULE MCSharedState ----------------------------
(***************************************************************************)
(* Instances of SharedState for TLC.                                       *)
(***************************************************************************)
EXTENDS SharedState

Document(keys, items) ==
  [entries |-> [k \in Key |-> IF k \in keys THEN "u" ELSE Absent], items |-> items]

\* Documents that differ in an entry, in another one, and in the vector's length.
MCDocuments == {Document({"x"}, <<"u">>), Document({"y"}, <<"u">>), Document({"x"}, <<>>)}
=============================================================================
