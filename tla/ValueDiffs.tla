----------------------------- MODULE ValueDiffs -----------------------------
(***************************************************************************)
(* The difference of two values as a list of paths (collect_diff and       *)
(* apply_diff of source/shared_state.cpp) and as a tree                    *)
(* (DiffValueCollector and apply_diff of source/value_diff.cpp).  Either   *)
(* is to bring whoever has an earlier version of a document to the present *)
(* one.  What the code does by recursion is a function of the path to the  *)
(* place it is at.                                                         *)
(***************************************************************************)
EXTENDS Values, FiniteSetsExt

Places == Seq(Keys \cup Nat)

-----------------------------------------------------------------------------
(* The difference as a list of paths *)

Entry(what, p, new) == [what |-> what, path |-> p, new |-> new]

CollectDiff(old, new) ==
  LET from[p \in Places] ==
        LET o == Get(old, p)
            n == Get(new, p)
        IN  IF o = n THEN {}
            ELSE IF o.kind # n.kind \/ o.kind = "leaf" THEN {Entry("modified", p, n)}
            ELSE (UNION {from[Append(p, e)] : e \in Elements(o) \cap Elements(n)})
                 \cup {Entry("added", Append(p, e), At(n, e)) : e \in Elements(n) \ Elements(o)}
                 \cup {Entry("removed", Append(p, e), Null) : e \in Elements(o) \ Elements(n)}
  IN  from[<<>>]

\* Mutant: additions are forgotten.
ApplyListUnadded(from, diff) ==
  LET Of(what) == {d \in diff : d.what = what}
      Erase(d, v) == EraseAt(v, d.path)
      Set(d, v) == SetAt(v, d.path, d.new)
  IN  FoldSet(Set, FoldSet(Erase, from, Of("removed")), Of("modified"))

\* Removals first, then modifications, then additions.
ApplyList(from, diff) ==
  LET Of(what) == {d \in diff : d.what = what}
      Erase(d, v) == EraseAt(v, d.path)
      Set(d, v) == SetAt(v, d.path, d.new)
  IN  FoldSet(Set, FoldSet(Set, FoldSet(Erase, from, Of("removed")), Of("modified")), Of("added"))

-----------------------------------------------------------------------------
(* The difference as a tree.  Its nodes are maps that have the mark of one; the
   index of a vector becomes the key of a map. *)

Node(type, new) == [kind |-> "diff", type |-> type, new |-> new]
Thrown == [kind |-> "thrown"]

\* Everything at and below a place, as added or as removed.
CollectEntries(v, place, type) ==
  LET at[p \in Places] ==
        LET part == Get(v, p)
        IN  CASE part.kind = "leaf" -> Node(type, part)
              [] part.kind = "null" -> Null
              [] OTHER -> MapOf([e \in Elements(part) |-> at[Append(p, e)]])
  IN  at[place]

\* The elements at which two values differ.
Differing(o, n) ==
  {e \in Elements(o) \cup Elements(n) : At(o, e) # At(n, e) \/ e \notin Elements(o) \cap Elements(n)}

DiffAsValue(old, new) ==
  LET at[p \in Places] ==
        LET o == Get(old, p)
            n == Get(new, p)
            Child(e) ==
              CASE e \notin Elements(o) -> CollectEntries(new, Append(p, e), "add")
                [] e \notin Elements(n) -> CollectEntries(old, Append(p, e), "remove")
                [] OTHER -> at[Append(p, e)]
        IN  IF o = n THEN Null
            ELSE IF o.kind # n.kind \/ o.kind = "leaf" THEN Node("change", n)
            ELSE MapOf([e \in Differing(o, n) |-> Child(e)])
  IN  at[<<>>]

\* Mutant: what came out null is stored as null.
MergedMapWithNull(entries, children) ==
  MapOf([e \in DOMAIN entries \cup DOMAIN children |->
           IF e \in DOMAIN children THEN children[e] ELSE entries[e]])

\* The children of a map after theirs were applied: those that came out null go.
MergedMap(entries, children) ==
  LET gone == {e \in DOMAIN children : children[e] = Null}
  IN  MapOf([e \in (DOMAIN entries \cup DOMAIN children) \ gone |->
               IF e \in DOMAIN children THEN children[e] ELSE entries[e]])

\* The elements of a vector after theirs were applied: it grows as needed, and
\* those that came out null stay in their place.
MergedVector(items, children) ==
  LET present == {e \in DOMAIN children : children[e] # Null}
      length == Max({Len(items)} \cup {e + 1 : e \in present})
      longer == Lengthened(items, length)
  IN  VectorOf([i \in 1..length |-> IF i - 1 \in DOMAIN children THEN children[i - 1] ELSE longer[i]])

\* apply_diff_recursive: a new value that is null throws, as does a tree that does
\* not fit the value.
ApplyNode(root, diff) ==
  LET at[p \in Places] ==
        LET r == Get(root, p)
            d == Get(diff, p)
            children == [e \in DOMAIN d.entries |-> at[Append(p, e)]]
        IN  IF d.kind = "diff" THEN IF d.type = "remove" THEN Null ELSE IF d.new = Null THEN Thrown ELSE d.new
            ELSE IF d.kind # "map" \/ \E e \in DOMAIN d.entries : children[e] = Thrown THEN Thrown
            ELSE CASE r.kind = "map" -> MergedMap(r.entries, children)
                   [] r.kind = "null" -> MergedMap(<<>>, children)
                   [] r.kind = "vector" /\ DOMAIN d.entries \cap Keys = {} -> MergedVector(r.items, children)
                   [] OTHER -> Thrown
  IN  at[<<>>]

ApplyTree(root, diff) ==
  IF diff = Null \/ diff = MapOf(<<>>) THEN root ELSE ApplyNode(root, diff)

-----------------------------------------------------------------------------
\* The places of a document: those its valid paths lead to.
PlacesIn(v) ==
  LET from[p \in Places] == {p} \cup UNION {from[Append(p, e)] : e \in Elements(Get(v, p))}
  IN  from[<<>>]

\* A vector that both have at the same place has another length.
Resized(old, new) ==
  \E p \in PlacesIn(old) \cap PlacesIn(new) :
    LET o == Get(old, p)
        n == Get(new, p)
    IN  o.kind = "vector" /\ n.kind = "vector" /\ Len(o.items) # Len(n.items)

\* The list of paths carries over exactly the changes that leave the vectors both
\* sides have as long as they were: an addition past the end is not made, and a
\* removed element becomes null (shared_state.cpp 614-737, 958-990).
ListCarriesOver ==
  (ApplyList(base, CollectDiff(base, value)) = value) <=> ~Resized(base, value)

\* What the tree can add where nothing was: vectors become maps, null throws.
Addable(v, place) ==
  \A p \in PlacesIn(v) : IsPrefix(place, p) => Get(v, p).kind \in {"leaf", "map"}

\* What it can change at a place both have, beside what is below in both.
Carried(old, new, p) ==
  LET o == Get(old, p)
      n == Get(new, p)
  IN  \/ o = n
      \/ (o.kind # n.kind \/ o.kind = "leaf") /\ n # Null
      \/ /\ o.kind = n.kind /\ o.kind # "leaf"
         /\ \A e \in Elements(n) \ Elements(o) : Addable(new, Append(p, e))
         /\ \A e \in Elements(o) \ Elements(n) : o.kind = "map" /\ At(o, e).kind = "leaf"

\* The tree carries over exactly the changes that turn nothing into null, add
\* leaves or maps of such, and remove nothing but leaves of maps: a container
\* removed stays behind, empty or full of null (value_diff.cpp 527-775, 838-1041).
TreeCarriesOver ==
  (ApplyTree(base, DiffAsValue(base, value)) = value)
    <=> \A p \in PlacesIn(base) \cap PlacesIn(value) : Carried(base, value, p)
=============================================================================
