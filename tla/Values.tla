------------------------------- MODULE Values -------------------------------
(***************************************************************************)
(* Immutable values and the functions on them: reading, setting, creating  *)
(* and erasing along a path (source/path_utils.cpp).  A document is edited *)
(* along paths, and at times another side takes over its present version.  *)
(*                                                                         *)
(* Values are null, leaves, maps and vectors; arrays behave like vectors   *)
(* that cannot grow, tables like maps the differences take for leaves, and *)
(* neither is modelled.  Keys of the program that look like a number, or   *)
(* like the marks of a difference, are left out.                           *)
(***************************************************************************)
EXTENDS Naturals, Sequences, FiniteSets, SequencesExt

CONSTANTS
  Keys,        \* keys of maps
  Leaves,      \* primitive values
  Paths        \* the paths edits are made along: sequences of keys and indices

ASSUME PathAssumption ==
  /\ Paths \subseteq Seq(Keys \cup Nat)
  /\ \A x \in Keys : x \notin Nat

Null == [kind |-> "null"]
Leaf(x) == [kind |-> "leaf", leaf |-> x]
MapOf(f) == [kind |-> "map", entries |-> f]
VectorOf(s) == [kind |-> "vector", items |-> s]

\* What an edit puts at a path.
Atoms == {Null, MapOf(<<>>), VectorOf(<<>>)} \cup {Leaf(x) : x \in Leaves}

\* The elements a container has: keys, or indices from zero.
Elements(v) ==
  CASE v.kind = "map" -> DOMAIN v.entries
    [] v.kind = "vector" -> 0..(Len(v.items) - 1)
    [] OTHER -> {}

-----------------------------------------------------------------------------
(* One element *)

\* ImmerValue::at: null for what is not there.
At(v, e) ==
  IF e \notin Elements(v) THEN Null
  ELSE IF v.kind = "map" THEN v.entries[e] ELSE v.items[e + 1]

WithEntry(f, e, new) == [x \in DOMAIN f \cup {e} |-> IF x = e THEN new ELSE f[x]]

\* ImmerValue::set: any key of a map, an index a vector has; otherwise the value
\* as it is.
Put(v, e, new) ==
  CASE v.kind = "map" /\ e \in Keys -> MapOf(WithEntry(v.entries, e, new))
    [] v.kind = "vector" /\ e \in Elements(v) -> VectorOf([v.items EXCEPT ![e + 1] = new])
    [] OTHER -> v

Lengthened(s, n) == s \o [i \in 1..(n - Len(s)) |-> Null]

\* set_at_path_element_vivify: null becomes a container, a vector grows.
PutVivify(v, e, new) ==
  CASE e \in Keys /\ v.kind = "map" -> MapOf(WithEntry(v.entries, e, new))
    [] e \in Keys /\ v.kind = "null" -> MapOf([x \in {e} |-> new])
    [] e \notin Keys /\ v.kind = "vector" -> VectorOf([Lengthened(v.items, e + 1) EXCEPT ![e + 1] = new])
    [] e \notin Keys /\ v.kind = "null" -> VectorOf([Lengthened(<<>>, e + 1) EXCEPT ![e + 1] = new])
    [] OTHER -> v

\* erase_key_from_map
WithoutKey(v, e) ==
  IF v.kind = "map" THEN MapOf([x \in DOMAIN v.entries \ {e} |-> v.entries[x]]) ELSE v

-----------------------------------------------------------------------------
(* Along a path *)

Get(root, p) == FoldLeft(At, root, p)

\* set_at_path_recursive: at[i] is what stands at the first i - 1 elements of the
\* path afterwards.
SetAt(root, p, new) ==
  LET at[i \in 1..(Len(p) + 1)] ==
        IF i > Len(p) THEN new ELSE Put(Get(root, SubSeq(p, 1, i - 1)), p[i], at[i + 1])
  IN  at[1]

\* Mutant: below the root a missing container is not made.
VivifyAtRootOnly(root, p, new) ==
  IF p = <<>> THEN new
  ELSE PutVivify(root, Head(p), SetAt(At(root, Head(p)), Tail(p), new))

\* What a missing child is made into: what the next element of the path needs.
Fresh(e) == IF e \in Keys THEN MapOf(<<>>) ELSE VectorOf(<<>>)

\* set_at_path_recursive_vivify: below the root a missing child is prepared on the
\* way down.
VivifyAt(root, p, new) ==
  LET Prepared(i) ==
        LET child == Get(root, SubSeq(p, 1, i - 1))
        IN  IF child = Null /\ i > 1 THEN Fresh(p[i]) ELSE child
      at[i \in 1..(Len(p) + 1)] ==
        IF i > Len(p) THEN new ELSE PutVivify(Prepared(i), p[i], at[i + 1])
  IN  at[1]

\* Keys go from their map, indices become null.
EraseAt(root, p) ==
  IF p = <<>> THEN Null
  ELSE IF Last(p) \in Keys THEN SetAt(root, Front(p), WithoutKey(Get(root, Front(p)), Last(p)))
  ELSE SetAt(root, p, Null)

IsValidPath(root, p) == \A i \in DOMAIN p : p[i] \in Elements(Get(root, SubSeq(p, 1, i - 1)))

-----------------------------------------------------------------------------
VARIABLES
  value,       \* the document
  base         \* the version of it the other side has

documentVars == <<value, base>>

DocumentInit == value = MapOf(<<>>) /\ base = value

SetValue == \E p \in Paths, new \in Atoms : value' = SetAt(value, p, new) /\ UNCHANGED base
VivifyValue == \E p \in Paths, new \in Atoms : value' = VivifyAt(value, p, new) /\ UNCHANGED base
EraseValue == \E p \in Paths : value' = EraseAt(value, p) /\ UNCHANGED base
PublishValue == base' = value /\ UNCHANGED value

DocumentNext == SetValue \/ VivifyValue \/ EraseValue \/ PublishValue

DocumentSpec == DocumentInit /\ [][DocumentNext]_documentVars
-----------------------------------------------------------------------------
Related(p, q) == IsPrefix(p, q) \/ IsPrefix(q, p)

\* The container the path ends in is there and takes its last element.
Takes(root, p) ==
  \/ p = <<>>
  \/ /\ IsValidPath(root, Front(p))
     /\ LET parent == Get(root, Front(p))
        IN  (parent.kind = "map" /\ Last(p) \in Keys) \/ Last(p) \in Elements(parent)

\* Nothing but the right containers and null on the way.
MayTake(root, p) ==
  \A i \in DOMAIN p :
    Get(root, SubSeq(p, 1, i - 1)).kind \in {"null", IF p[i] \in Keys THEN "map" ELSE "vector"}

\* What a path reads after an edit: the new value where the edit could be made, and
\* what it read before everywhere beside it, whatever was missing or of the wrong
\* kind on the way.  An edit that cannot be made may still leave its mark above:
\* the key of a missing container appears, with null (path_utils.cpp 17-176).
EditsReadBack ==
  base = value =>
    \A p \in Paths, new \in Atoms :
      LET set == SetAt(value, p, new)
          vivified == VivifyAt(value, p, new)
          erased == EraseAt(value, p)
          Same(v, q) == Get(v, q) = Get(value, q)
      IN  /\ \A q \in Paths : ~Related(p, q) => Same(set, q) /\ Same(vivified, q) /\ Same(erased, q)
          /\ IF Takes(value, p) THEN Get(set, p) = new ELSE \A q \in Paths : IsStrictPrefix(q, p) \/ Same(set, q)
          /\ IF MayTake(value, p) THEN Get(vivified, p) = new ELSE vivified = value
          /\ Get(erased, p) = Null
          /\ p # <<>> /\ Last(p) \in Keys => ~IsValidPath(erased, p)
=============================================================================
