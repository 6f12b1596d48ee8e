-------------------------- MODULE DeltaUndo_proofs --------------------------
(* Undo by deltas walks along a line of whole scenes, for every set of objects
   and properties, every max_history and any number of calls: the refinement of
   EditHistory.  The argument: a delta stands between two scenes if applying it
   takes the one to the other and unapplying it takes the other back (Fits); the
   calls undo is meant for record only such deltas, and change nothing that a
   recorded delta looks up. *)
EXTENDS DeltaUndo, SequenceLemmas, TLAPS

------------------------------------------------------------------------------
(* Deltas on what is seen of a scene *)

Views == [Ids -> Things \cup {None}]

Thing(object) == [data |-> object.data, children |-> ToSet(object.children)]

ViewWrite(x, id, updates) ==
  [j \in Ids |-> IF j = id /\ x[j] # None
                 THEN [data |-> [p \in Props |-> IF p \in DOMAIN updates THEN updates[p] ELSE x[j].data[p]],
                       children |-> x[j].children]
                 ELSE x[j]]

ViewInsert(x, id, thing, parent) ==
  [j \in Ids |-> IF j = parent /\ x[j] # None
                 THEN [data |-> x[j].data, children |-> x[j].children \cup {id}]
                 ELSE IF j = id THEN thing ELSE x[j]]

ViewErase(x, id, parent) ==
  [j \in Ids |-> IF j = parent /\ x[j] # None
                 THEN [data |-> x[j].data, children |-> x[j].children \ {id}]
                 ELSE IF j = id THEN None ELSE x[j]]

ViewApply(delta, x) ==
  CASE delta.kind = "set"    -> ViewWrite(x, delta.id, delta.new)
    [] delta.kind = "add"    -> ViewInsert(x, delta.id, Thing(delta.object), delta.parent)
    [] delta.kind = "remove" -> ViewErase(x, delta.id, delta.parent)

ViewUnapply(delta, x) ==
  CASE delta.kind = "set"    -> ViewWrite(x, delta.id, delta.old)
    [] delta.kind = "add"    -> ViewErase(x, delta.id, delta.parent)
    [] delta.kind = "remove" -> ViewInsert(x, delta.id, Thing(delta.object), delta.parent)

(* What is seen of a scene is an object or nothing for each id. *)
LEMMA SeenIsView ==
  ASSUME NEW s \in Scenes
  PROVE  /\ Seen(s) \in Views
         /\ \A id \in Ids : /\ Seen(s)[id] = IF s[id] = None THEN None ELSE Thing(s[id])
                            /\ Seen(s)[id] = None <=> s[id] = None
<1>1. ASSUME NEW object \in Objects PROVE Thing(object) \in Things
  <2>1. object.data \in [Props -> Cells] /\ object.children \in Seq(Ids)
    BY DEF Objects
  <2>2. ToSet(object.children) \subseteq Ids
    BY <2>1 DEF ToSet
  <2> QED
    BY <2>1, <2>2 DEF Thing, Things
<1>2. None \notin Things
  BY ConstantsAssumption
<1>3. \A id \in Ids : s[id] # None => s[id] \in Objects
  BY DEF Scenes
<1>4. \A id \in Ids : Seen(s)[id] = IF s[id] = None THEN None ELSE Thing(s[id])
  BY DEF Seen, Thing
<1>5. \A id \in Ids : Seen(s)[id] \in Things \cup {None}
  BY <1>1, <1>3, <1>4
<1>6. Seen(s) \in Views
  BY <1>5 DEF Seen, Views
<1> QED
  BY <1>1, <1>2, <1>3, <1>4, <1>6

(* An object is not nothing, and this is what is seen of it. *)
LEMMA ThingOf ==
  ASSUME NEW object \in Objects
  PROVE  object # None /\ Thing(object).data = object.data /\ Thing(object).children = ToSet(object.children)
BY ConstantsAssumption DEF Thing

(* What std::remove leaves of a list, entry by entry *)
IsWithoutFold(h, children, id) ==
  /\ h \in [SUBSET DOMAIN children -> Seq(Ids)]
  /\ Without(children, id) = h[DOMAIN children]
  /\ \A s \in SUBSET DOMAIN children :
       h[s] = IF s = {} THEN <<>>
              ELSE IF children[Max(s)] = id THEN h[s \ {Max(s)}]
              ELSE Append(h[s \ {Max(s)}], children[Max(s)])

(* It goes through lists. *)
LEMMA WithoutFold ==
  ASSUME NEW children, children \in Seq(Ids), NEW id
  PROVE  \E h : IsWithoutFold(h, children, id)
<1> DEFINE S == DOMAIN children
           W == Seq(Ids)
           Left(x, c) == IF c = id THEN x ELSE Append(x, c)
           pick == [s \in (SUBSET S) \ {{}} |-> Max(s)]
           step == [i \in S |-> [x \in W |-> Left(x, children[i])]]
           Solves(h) == h = [s \in SUBSET S |->
                               IF s = {} THEN <<>> ELSE Left(h[s \ {Max(s)}], children[Max(s)])]
           fold == CHOOSE h : Solves(h)
<1>1. IsFiniteSet(S) /\ S \subseteq Nat /\ (\A i \in S : children[i] \in Ids) /\ <<>> \in W
  BY FS_Interval
<1>2. \A s \in (SUBSET S) \ {{}} : Max(s) \in s
  <2>1. Len(children) \in Nat /\ S \subseteq 0 .. Len(children)
    OBVIOUS
  <2> QED
    BY <2>1, Greatest
<1>3. \A s \in (SUBSET S) \ {{}} : pick[s] \in s /\ pick[s] = Max(s) /\ Max(s) \in S
  BY <1>2
<1>4. pick \in [(SUBSET S) \ {{}} -> S]
  BY <1>3
<1>14. \A x \in W, c \in Ids : Left(x, c) \in W
  OBVIOUS
<1>5. step \in [S -> [W -> W]]
  BY <1>1, <1>14
<1>6. \A i \in S, x \in W : step[i][x] = Left(x, children[i])
  OBVIOUS
<1> HIDE DEF pick, step, S, W
<1>7. PICK g : IsFold(g, S, W, <<>>, step, pick)
  <2>1. IsFiniteSet(S) /\ <<>> \in W /\ Steps(step, S, W) /\ Picks(pick, S)
    BY <1>1, <1>3, <1>4, <1>5 DEF Steps, Picks
  <2> QED
    BY <2>1, Recursion
<1>8. Solves(g)
  <2> HIDE DEF Left
  <2>0. g \in [SUBSET S -> W] /\ g = [s \in SUBSET S |-> g[s]]
    BY <1>7 DEF IsFold
  <2>1. ASSUME NEW s \in SUBSET S, s # {}
        PROVE  step[pick[s]][g[s \ {pick[s]}]] = Left(g[s \ {Max(s)}], children[Max(s)])
    <3>1. pick[s] = Max(s) /\ Max(s) \in S /\ g[s \ {Max(s)}] \in W
      BY <1>3, <2>0, <2>1
    <3> QED
      BY <1>6, <3>1, Zenon
  <2>2. \A s \in SUBSET S : g[s] = IF s = {} THEN <<>> ELSE Left(g[s \ {Max(s)}], children[Max(s)])
    BY <1>7, <2>1, Zenon DEF IsFold
  <2> QED
    BY <2>0, <2>2, Zenon
<1>9. Solves(fold)
  BY <1>8, Zenon
<1>10. Without(children, id) = fold[S]
  BY DEF Without, FoldLeft, MapThenFoldSet, S
<1> HIDE DEF fold
<1>11. \A s \in SUBSET S :
         fold[s] = IF s = {} THEN <<>> ELSE Left(fold[s \ {Max(s)}], children[Max(s)])
  BY <1>9
<1> HIDE DEF Left
<1>12. \A s \in SUBSET S : fold[s] \in W
  <2> DEFINE T == {s \in SUBSET S : fold[s] \in W}
  <2>1. {} \in T
    BY <1>1, <1>11
  <2>2. ASSUME NEW s \in SUBSET S, s # {} PROVE \E x \in s : s \ {x} \in T => s \in T
    <3>1. Max(s) \in s /\ children[Max(s)] \in Ids
      BY <1>1, <1>2, <2>2
    <3>2. ASSUME s \ {Max(s)} \in T PROVE s \in T
      <4>1. fold[s \ {Max(s)}] \in W
        BY <3>2
      <4> QED
        BY <1>11, <1>14, <2>2, <3>1, <4>1
    <3> QED
      BY <3>1, <3>2
  <2> HIDE DEF T
  <2>3. \A s \in SUBSET S : s \in T
    BY <1>1, <2>1, <2>2, FiniteInduction
  <2> QED
    BY <2>3 DEF T
<1>13. fold \in [SUBSET S -> W]
  BY <1>9, <1>12
<1> QED
  BY <1>10, <1>11, <1>13 DEF S, W, Left, IsWithoutFold

(* Of the entries only that id is gone. *)
LEMMA WithoutEntries ==
  ASSUME NEW children, children \in Seq(Ids), NEW id
  PROVE  Without(children, id) \in Seq(Ids) /\ ToSet(Without(children, id)) = ToSet(children) \ {id}
<1>1. PICK h : IsWithoutFold(h, children, id)
  BY WithoutFold
<1>2. PICK S : S = DOMAIN children
  OBVIOUS
<1>3. /\ h \in [SUBSET S -> Seq(Ids)] /\ Without(children, id) = h[S] /\ h[{}] = <<>>
      /\ \A s \in SUBSET S : s # {} =>
           h[s] = IF children[Max(s)] = id THEN h[s \ {Max(s)}]
                  ELSE Append(h[s \ {Max(s)}], children[Max(s)])
  BY <1>1, <1>2 DEF IsWithoutFold
<1>4. IsFiniteSet(S) /\ \A s \in SUBSET S : s # {} => Max(s) \in s
  <2>1. PICK n \in Nat : S = 1 .. n /\ S \subseteq 0 .. n
    BY <1>2
  <2>2. IsFiniteSet(S)
    BY <2>1, FS_Interval
  <2>3. ASSUME NEW s \in SUBSET S, s # {} PROVE Max(s) \in s
    BY <2>1, <2>3, Greatest
  <2> QED
    BY <2>2, <2>3
<1> DEFINE At(s) == {children[i] : i \in s}
           T == {s \in SUBSET S : ToSet(h[s]) = At(s) \ {id}}
<1>5. {} \in T
  <2>1. ToSet(<<>>) = {}
    BY DEF ToSet
  <2> QED
    BY <1>3, <2>1
<1>6. ASSUME NEW s \in SUBSET S, s # {} PROVE \E x \in s : s \ {x} \in T => s \in T
  <2>1. PICK m : m = Max(s)
    OBVIOUS
  <2>2. PICK t : t = s \ {m}
    OBVIOUS
  <2>3. m \in s /\ t \in SUBSET S /\ s = t \cup {m} /\ h[t] \in Seq(Ids) /\ children[m] \in Ids
    BY <1>2, <1>3, <1>4, <1>6, <2>1, <2>2
  <2>4. h[s] = IF children[m] = id THEN h[t] ELSE Append(h[t], children[m])
    BY <1>3, <1>6, <2>1, <2>2
  <2>5. At(s) = At(t) \cup {children[m]}
    BY <2>3
  <2>6. ToSet(Append(h[t], children[m])) = ToSet(h[t]) \cup {children[m]}
    <3>1. PICK l, c : l = h[t] /\ c = children[m]
      OBVIOUS
    <3>2. l \in Seq(Ids) /\ c \in Ids
      BY <2>3, <3>1
    <3>3. ToSet(Append(l, c)) = ToSet(l) \cup {c}
      BY <3>2, EndEntries
    <3> QED
      BY <3>1, <3>3
  <2> HIDE DEF At
  <2>7. ASSUME t \in T PROVE s \in T
    <3>1. ToSet(h[t]) = At(t) \ {id}
      BY <2>7
    <3>2. ToSet(h[s]) = At(s) \ {id}
      <4>1. CASE children[m] = id
        BY <2>4, <2>5, <3>1, <4>1
      <4>2. CASE children[m] # id
        BY <2>4, <2>5, <2>6, <3>1, <4>2
      <4> QED
        BY <4>1, <4>2
    <3> QED
      BY <3>2
  <2> QED
    BY <2>2, <2>3, <2>7
<1> HIDE DEF T
<1>7. S \in T
  <2>1. \A s \in SUBSET S : s \in T
    BY <1>4, <1>5, <1>6, FiniteInduction
  <2> QED
    BY <2>1
<1>8. ToSet(h[S]) = At(S) \ {id}
  BY <1>7 DEF T
<1>9. At(S) = ToSet(children)
  BY <1>2 DEF ToSet
<1> QED
  BY <1>3, <1>8, <1>9

(* A delta does to what is seen of a scene what it does to the scene. *)
LEMMA SeenWrite ==
  ASSUME NEW s \in Scenes, NEW id \in Ids,
         NEW updates \in UNION {[S -> Cells] : S \in SUBSET Props}
  PROVE  Write(s, id, updates) \in Scenes /\ Seen(Write(s, id, updates)) = ViewWrite(Seen(s), id, updates)
<1>1. PICK x : x = Seen(s)
  OBVIOUS
<1>2. \A j \in Ids : (x[j] = IF s[j] = None THEN None ELSE Thing(s[j])) /\ (x[j] = None <=> s[j] = None)
  BY <1>1, SeenIsView
<1>3. \A j \in Ids : s[j] # None => s[j].data \in [Props -> Cells] /\ s[j].children \in Seq(Ids)
  BY DEF Scenes, Objects
<1>4. CASE s[id] = None
  <2>1. Write(s, id, updates) = s
    BY <1>4 DEF Write, Exists
  <2>2. x = [j \in Ids |-> x[j]] /\ x[id] = None
    BY <1>1, <1>2, <1>4 DEF Seen
  <2>3. ViewWrite(x, id, updates) = x
    BY <2>2 DEF ViewWrite
  <2> QED
    BY <1>1, <2>1, <2>3
<1>5. CASE s[id] # None
  <2>1. PICK data : data = [p \in Props |-> IF p \in DOMAIN updates THEN updates[p] ELSE s[id].data[p]]
    OBVIOUS
  <2>2. PICK object : object = [s[id] EXCEPT !.data = data]
    OBVIOUS
  <2>3. data \in [Props -> Cells]
    <3>1. \A p \in DOMAIN updates : updates[p] \in Cells
      OBVIOUS
    <3> QED
      BY <1>3, <1>5, <2>1, <3>1
  <2>4. s[id] \in Objects
    BY <1>5 DEF Scenes
  <2>5. object \in Objects /\ object.data = data /\ object.children = s[id].children
    BY <2>2, <2>3, <2>4 DEF Objects
  <2>6. Write(s, id, updates) = [s EXCEPT ![id] = object]
    BY <1>5, <2>1, <2>2 DEF Write, Exists, Scenes
  <2>7. PICK t : t = [s EXCEPT ![id] = object]
    OBVIOUS
  <2>8. t \in Scenes /\ t[id] = object /\ \A j \in Ids \ {id} : t[j] = s[j]
    BY <2>5, <2>7 DEF Scenes
  <2>9. object # None /\ x[id] # None /\ x[id].data = s[id].data /\ x[id].children = ToSet(object.children)
    <3>1. x[id] = Thing(s[id]) /\ x[id] # None
      BY <1>2, <1>5
    <3> QED
      BY <2>4, <2>5, <3>1, ThingOf
  <2>10. Seen(t) = [j \in Ids |-> IF j = id THEN [data |-> data, children |-> x[id].children] ELSE x[j]]
    <3>1. \A j \in Ids : Seen(t)[j] = IF j = id THEN [data |-> data, children |-> x[id].children] ELSE x[j]
      BY <1>2, <2>5, <2>8, <2>9 DEF Seen, Thing
    <3>2. Seen(t) = [j \in Ids |-> Seen(t)[j]]
      BY DEF Seen
    <3> QED
      BY <3>1, <3>2
  <2>11. ViewWrite(x, id, updates) = [j \in Ids |-> IF j = id THEN [data |-> data, children |-> x[id].children] ELSE x[j]]
    BY <2>1, <2>9 DEF ViewWrite
  <2> QED
    BY <1>1, <2>6, <2>7, <2>8, <2>10, <2>11
<1> QED
  BY <1>4, <1>5

(* y is x with an object, or nothing, at id and a list of children at parent. *)
IsPlaced(x, y, id, object, parent, children) ==
  y = [j \in Ids |-> IF j = parent /\ x[j] # None
                     THEN [data |-> x[j].data, children |-> ToSet(children)]
                     ELSE IF j = id THEN (IF object = None THEN None ELSE Thing(object))
                     ELSE x[j]]

(* The parent's list is written over what else changed. *)
LEMMA SeenParent ==
  ASSUME NEW s \in Scenes, NEW id \in Ids, NEW object \in Objects \cup {None}, NEW parent \in Ids \cup {None},
         NEW children, Exists(s, parent) => children \in Seq(Ids),
         NEW t, t = WithParent(s, [s EXCEPT ![id] = object], parent, children)
  PROVE  t \in Scenes /\ IsPlaced(Seen(s), Seen(t), id, object, parent, children)
<1> USE DEF IsPlaced
<1>1. PICK x : x = Seen(s)
  OBVIOUS
<1>2. \A j \in Ids : (x[j] = IF s[j] = None THEN None ELSE Thing(s[j])) /\ (x[j] = None <=> s[j] = None)
  BY <1>1, SeenIsView
<1>3. PICK after : after = [s EXCEPT ![id] = object]
  OBVIOUS
<1>4. after \in Scenes /\ after[id] = object /\ \A j \in Ids \ {id} : after[j] = s[j]
  BY <1>3 DEF Scenes
<1>5. \A z : Seen(z) = [j \in Ids |-> IF z[j] = None THEN None ELSE Thing(z[j])]
  BY DEF Seen, Thing
<1>6. CASE Exists(s, parent)
  <2>1. parent \in Ids /\ s[parent] \in Objects /\ s[parent] # None /\ x[parent] # None /\ children \in Seq(Ids)
    BY <1>2, <1>6 DEF Exists, Scenes
  <2>2. PICK family : family = [s[parent] EXCEPT !.children = children]
    OBVIOUS
  <2>3. family \in Objects /\ family.data = s[parent].data /\ family.children = children
    BY <2>1, <2>2 DEF Objects
  <2>4. t = [after EXCEPT ![parent] = family]
    BY <1>3, <1>6, <2>2 DEF WithParent
  <2>5. t \in Scenes /\ t[parent] = family /\ \A j \in Ids \ {parent} : t[j] = after[j]
    BY <1>4, <2>1, <2>3, <2>4 DEF Scenes
  <2>6. family # None /\ Thing(family) = [data |-> x[parent].data, children |-> ToSet(children)]
    <3>1. x[parent] = Thing(s[parent])
      BY <1>2, <2>1
    <3>2. x[parent].data = family.data
      BY <2>1, <2>3, <3>1, ThingOf
    <3> QED
      BY <2>3, <3>2, ThingOf DEF Thing
  <2>7. \A j \in Ids : (IF t[j] = None THEN None ELSE Thing(t[j]))
                       = IF j = parent /\ x[j] # None
                         THEN [data |-> x[j].data, children |-> ToSet(children)]
                         ELSE IF j = id THEN (IF object = None THEN None ELSE Thing(object))
                         ELSE x[j]
    BY <1>2, <1>4, <2>1, <2>5, <2>6, ZenonT(40)
  <2> QED
    BY <1>1, <1>5, <2>5, <2>7
<1>7. CASE ~Exists(s, parent)
  <2>1. t = after
    BY <1>3, <1>7 DEF WithParent
  <2>2. \A j \in Ids : ~(j = parent /\ x[j] # None)
    BY <1>2, <1>7 DEF Exists
  <2>3. \A j \in Ids : (IF t[j] = None THEN None ELSE Thing(t[j]))
                       = IF j = id THEN (IF object = None THEN None ELSE Thing(object)) ELSE x[j]
    BY <1>2, <1>4, <2>1
  <2> QED
    BY <1>1, <1>4, <1>5, <2>1, <2>2, <2>3
<1> QED
  BY <1>6, <1>7

(* Adding and taking away, seen *)
LEMMA SeenPlace ==
  ASSUME NEW s \in Scenes, NEW id \in Ids, NEW object \in Objects, NEW parent \in Ids \cup {None}
  PROVE  /\ Insert(s, id, object, parent) \in Scenes
         /\ Seen(Insert(s, id, object, parent)) = ViewInsert(Seen(s), id, Thing(object), parent)
         /\ Erase(s, id, parent) \in Scenes
         /\ Seen(Erase(s, id, parent)) = ViewErase(Seen(s), id, parent)
<1>1. PICK x : x = Seen(s)
  OBVIOUS
<1>2. \A j \in Ids : (x[j] = IF s[j] = None THEN None ELSE Thing(s[j])) /\ (x[j] = None <=> s[j] = None)
  BY <1>1, SeenIsView
<1>3. PICK list : list = Children(s, parent)
  OBVIOUS
<1>4. /\ list \in Seq(Ids)
      /\ \A j \in Ids : j = parent /\ x[j] # None => ToSet(list) = x[j].children
  <2>1. CASE Exists(s, parent)
    <3>1. parent \in Ids /\ s[parent] \in Objects /\ s[parent] # None
      BY <2>1 DEF Exists, Scenes
    <3>2. list = s[parent].children
      BY <1>3, <2>1 DEF Children
    <3>3. list \in Seq(Ids)
      BY <3>1, <3>2 DEF Objects
    <3>4. x[parent] = Thing(s[parent])
      BY <1>2, <3>1
    <3>5. x[parent].children = ToSet(list)
      BY <3>1, <3>2, <3>4, ThingOf
    <3> QED
      BY <3>3, <3>5
  <2>2. CASE ~Exists(s, parent)
    <3>1. list = <<>> /\ <<>> \in Seq(Ids)
      BY <1>3, <2>2, EmptySeq DEF Children
    <3>2. \A j \in Ids : ~(j = parent /\ x[j] # None)
      BY <1>2, <2>2 DEF Exists
    <3> QED
      BY <3>1, <3>2
  <2> QED
    BY <2>1, <2>2
<1>5. PICK more : more = Append(list, id)
  OBVIOUS
<1>6. more \in Seq(Ids) /\ ToSet(more) = ToSet(list) \cup {id}
  BY <1>4, <1>5, EndEntries
<1>7. PICK fewer : fewer = Without(list, id)
  OBVIOUS
<1>8. fewer \in Seq(Ids) /\ ToSet(fewer) = ToSet(list) \ {id}
  BY <1>4, <1>7, WithoutEntries
<1>9. object # None
  BY ConstantsAssumption
<1>10. Insert(s, id, object, parent) = WithParent(s, [s EXCEPT ![id] = object], parent, more)
  BY <1>3, <1>5 DEF Insert
<1>11. Erase(s, id, parent) = WithParent(s, [s EXCEPT ![id] = None], parent, fewer)
  BY <1>3, <1>7 DEF Erase
<1>12. PICK t : t = Insert(s, id, object, parent)
  OBVIOUS
<1>13. PICK u : u = Erase(s, id, parent)
  OBVIOUS
<1>14. /\ t \in Scenes
       /\ Seen(t) = [j \in Ids |-> IF j = parent /\ x[j] # None
                                   THEN [data |-> x[j].data, children |-> ToSet(more)]
                                   ELSE IF j = id THEN Thing(object) ELSE x[j]]
  <2>1. PICK o \in Objects \cup {None} : o = object
    OBVIOUS
  <2>2. t = WithParent(s, [s EXCEPT ![id] = o], parent, more)
    BY <1>10, <1>12, <2>1
  <2>3. t \in Scenes /\ IsPlaced(Seen(s), Seen(t), id, o, parent, more)
    BY <1>6, <2>2, SeenParent
  <2> QED
    BY <1>1, <1>9, <2>1, <2>3 DEF IsPlaced
<1>15. /\ u \in Scenes
       /\ Seen(u) = [j \in Ids |-> IF j = parent /\ x[j] # None
                                   THEN [data |-> x[j].data, children |-> ToSet(fewer)]
                                   ELSE IF j = id THEN None ELSE x[j]]
  <2>1. PICK o \in Objects \cup {None} : o = None
    OBVIOUS
  <2>2. u = WithParent(s, [s EXCEPT ![id] = o], parent, fewer)
    BY <1>11, <1>13, <2>1
  <2>3. u \in Scenes /\ IsPlaced(Seen(s), Seen(u), id, o, parent, fewer)
    BY <1>8, <2>2, SeenParent
  <2> QED
    BY <1>1, <2>1, <2>3 DEF IsPlaced
<1>16. Seen(t) = ViewInsert(x, id, Thing(object), parent)
  BY <1>4, <1>6, <1>14 DEF ViewInsert
<1>17. Seen(u) = ViewErase(x, id, parent)
  BY <1>4, <1>8, <1>15 DEF ViewErase
<1> QED
  BY <1>1, <1>12, <1>13, <1>14, <1>15, <1>16, <1>17

(* A delta, either way. *)
LEMMA SeenDelta ==
  ASSUME NEW s \in Scenes, NEW delta \in Deltas
  PROVE  /\ Apply(delta, s) \in Scenes /\ Seen(Apply(delta, s)) = ViewApply(delta, Seen(s))
         /\ Unapply(delta, s) \in Scenes /\ Seen(Unapply(delta, s)) = ViewUnapply(delta, Seen(s))
<1>1. CASE delta.kind = "set"
  <2>1. delta \in SetDeltas
    BY <1>1 DEF Deltas, PlaceDeltas
  <2>2. /\ delta.id \in Ids
        /\ delta.old \in UNION {[S -> Cells] : S \in SUBSET Props}
        /\ delta.new \in UNION {[S -> Cells] : S \in SUBSET Props}
    BY <2>1 DEF SetDeltas
  <2> QED
    BY <1>1, <2>2, SeenWrite DEF Apply, Unapply, ViewApply, ViewUnapply
<1>2. CASE delta.kind # "set"
  <2>1. delta \in PlaceDeltas
    BY <1>2 DEF Deltas, SetDeltas
  <2>2. /\ delta.id \in Ids /\ delta.object \in Objects /\ delta.parent \in Ids \cup {None}
        /\ delta.kind \in {"add", "remove"}
    BY <2>1 DEF PlaceDeltas
  <2> QED
    BY <2>2, SeenPlace DEF Apply, Unapply, ViewApply, ViewUnapply
<1> QED
  BY <1>1, <1>2
------------------------------------------------------------------------------
(* Folds of deltas *)

(* What the deltas of an entry, unapplied in reverse, go through: for each set of
   positions the scene after the deltas there *)
IsBackwardFold(h, scene, entry) ==
  /\ h \in [SUBSET DOMAIN entry -> Scenes]
  /\ UnapplyAll(entry, scene) = h[DOMAIN entry]
  /\ \A s \in SUBSET DOMAIN entry :
       h[s] = IF s = {} THEN scene ELSE Unapply(entry[Min(s)], h[s \ {Min(s)}])

(* They go through something. *)
LEMMA BackwardFold ==
  ASSUME NEW scene \in Scenes, NEW entry \in Entries
  PROVE  \E h : IsBackwardFold(h, scene, entry)
<1> DEFINE S == DOMAIN entry
           pick == [s \in (SUBSET S) \ {{}} |-> Min(s)]
           step == [i \in S |-> [x \in Scenes |-> Unapply(entry[i], x)]]
           Solves(h) == h = [s \in SUBSET S |->
                               IF s = {} THEN scene
                               ELSE Unapply(entry[Min(s)], h[s \ {Min(s)}])]
           fold == CHOOSE h : Solves(h)
<1>1. IsFiniteSet(S) /\ S \subseteq Nat /\ \A i \in S : entry[i] \in Deltas
  BY FS_Interval DEF Entries
<1>2. \A s \in (SUBSET S) \ {{}} : Min(s) \in s
  BY <1>1, Least
<1>3. \A s \in (SUBSET S) \ {{}} : pick[s] \in s /\ pick[s] = Min(s) /\ Min(s) \in S
  BY <1>2
<1>4. pick \in [(SUBSET S) \ {{}} -> S]
  BY <1>3
<1>14. \A x \in Scenes, c \in Deltas : Unapply(c, x) \in Scenes
  BY SeenDelta
<1>5. step \in [S -> [Scenes -> Scenes]]
  BY <1>1, <1>14
<1>6. \A i \in S, x \in Scenes : step[i][x] = Unapply(entry[i], x)
  OBVIOUS
<1> HIDE DEF pick, step, S
<1>7. PICK g : IsFold(g, S, Scenes, scene, step, pick)
  <2>1. IsFiniteSet(S) /\ scene \in Scenes /\ Steps(step, S, Scenes) /\ Picks(pick, S)
    BY <1>1, <1>3, <1>4, <1>5 DEF Steps, Picks
  <2> QED
    BY <2>1, Recursion
<1>8. Solves(g)
  <2>0. g \in [SUBSET S -> Scenes] /\ g = [s \in SUBSET S |-> g[s]]
    BY <1>7 DEF IsFold
  <2>1. ASSUME NEW s \in SUBSET S, s # {}
        PROVE  step[pick[s]][g[s \ {pick[s]}]]
                 = Unapply(entry[Min(s)], g[s \ {Min(s)}])
    <3>1. pick[s] = Min(s) /\ Min(s) \in S /\ g[s \ {Min(s)}] \in Scenes
      BY <1>3, <2>0, <2>1
    <3> QED
      BY <1>6, <3>1
  <2>2. \A s \in SUBSET S : g[s] = IF s = {} THEN scene
                               ELSE Unapply(entry[Min(s)], g[s \ {Min(s)}])
    BY <1>7, <2>1 DEF IsFold
  <2> QED
    BY <2>0, <2>2
<1>9. Solves(fold)
  BY <1>8
<1>10. UnapplyAll(entry, scene) = fold[S]
  BY DEF UnapplyAll, FoldRight, MapThenFoldSet, S
<1> HIDE DEF fold
<1>11. \A s \in SUBSET S :
         fold[s] = IF s = {} THEN scene
                   ELSE Unapply(entry[Min(s)], fold[s \ {Min(s)}])
  BY <1>9
<1>12. \A s \in SUBSET S : fold[s] \in Scenes
  <2> DEFINE T == {s \in SUBSET S : fold[s] \in Scenes}
  <2>1. {} \in T
    BY <1>11
  <2>2. ASSUME NEW s \in SUBSET S, s # {} PROVE \E x \in s : s \ {x} \in T => s \in T
    <3>1. Min(s) \in s /\ entry[Min(s)] \in Deltas
      BY <1>1, <1>2, <2>2
    <3>2. ASSUME s \ {Min(s)} \in T PROVE s \in T
      <4>1. fold[s \ {Min(s)}] \in Scenes
        BY <3>2
      <4> QED
        BY <1>11, <1>14, <2>2, <3>1, <4>1
    <3> QED
      BY <3>1, <3>2
  <2> HIDE DEF T
  <2>3. \A s \in SUBSET S : s \in T
    BY <1>1, <2>1, <2>2, FiniteInduction
  <2> QED
    BY <2>3 DEF T
<1>13. fold \in [SUBSET S -> Scenes]
  BY <1>9, <1>12
<1> QED
  BY <1>10, <1>11, <1>13 DEF S, IsBackwardFold

(* And what they go through, applied in order *)
IsForwardFold(h, scene, entry) ==
  /\ h \in [SUBSET DOMAIN entry -> Scenes]
  /\ ApplyAll(entry, scene) = h[DOMAIN entry]
  /\ \A s \in SUBSET DOMAIN entry :
       h[s] = IF s = {} THEN scene ELSE Apply(entry[Max(s)], h[s \ {Max(s)}])

(* So do they. *)
LEMMA ForwardFold ==
  ASSUME NEW scene \in Scenes, NEW entry \in Entries
  PROVE  \E h : IsForwardFold(h, scene, entry)
<1> DEFINE S == DOMAIN entry
           pick == [s \in (SUBSET S) \ {{}} |-> Max(s)]
           step == [i \in S |-> [x \in Scenes |-> Apply(entry[i], x)]]
           Solves(h) == h = [s \in SUBSET S |->
                               IF s = {} THEN scene
                               ELSE Apply(entry[Max(s)], h[s \ {Max(s)}])]
           fold == CHOOSE h : Solves(h)
<1>1. IsFiniteSet(S) /\ S \subseteq Nat /\ \A i \in S : entry[i] \in Deltas
  BY FS_Interval DEF Entries
<1>2. \A s \in (SUBSET S) \ {{}} : Max(s) \in s
  <2>1. Len(entry) \in Nat /\ S \subseteq 0 .. Len(entry)
    OBVIOUS
  <2> QED
    BY <2>1, Greatest
<1>3. \A s \in (SUBSET S) \ {{}} : pick[s] \in s /\ pick[s] = Max(s) /\ Max(s) \in S
  BY <1>2
<1>4. pick \in [(SUBSET S) \ {{}} -> S]
  BY <1>3
<1>14. \A x \in Scenes, c \in Deltas : Apply(c, x) \in Scenes
  BY SeenDelta
<1>5. step \in [S -> [Scenes -> Scenes]]
  BY <1>1, <1>14
<1>6. \A i \in S, x \in Scenes : step[i][x] = Apply(entry[i], x)
  OBVIOUS
<1> HIDE DEF pick, step, S
<1>7. PICK g : IsFold(g, S, Scenes, scene, step, pick)
  <2>1. IsFiniteSet(S) /\ scene \in Scenes /\ Steps(step, S, Scenes) /\ Picks(pick, S)
    BY <1>1, <1>3, <1>4, <1>5 DEF Steps, Picks
  <2> QED
    BY <2>1, Recursion
<1>8. Solves(g)
  <2>0. g \in [SUBSET S -> Scenes] /\ g = [s \in SUBSET S |-> g[s]]
    BY <1>7 DEF IsFold
  <2>1. ASSUME NEW s \in SUBSET S, s # {}
        PROVE  step[pick[s]][g[s \ {pick[s]}]]
                 = Apply(entry[Max(s)], g[s \ {Max(s)}])
    <3>1. pick[s] = Max(s) /\ Max(s) \in S /\ g[s \ {Max(s)}] \in Scenes
      BY <1>3, <2>0, <2>1
    <3> QED
      BY <1>6, <3>1
  <2>2. \A s \in SUBSET S : g[s] = IF s = {} THEN scene
                               ELSE Apply(entry[Max(s)], g[s \ {Max(s)}])
    BY <1>7, <2>1 DEF IsFold
  <2> QED
    BY <2>0, <2>2
<1>9. Solves(fold)
  BY <1>8
<1>10. ApplyAll(entry, scene) = fold[S]
  BY DEF ApplyAll, FoldLeft, MapThenFoldSet, S
<1> HIDE DEF fold
<1>11. \A s \in SUBSET S :
         fold[s] = IF s = {} THEN scene
                   ELSE Apply(entry[Max(s)], fold[s \ {Max(s)}])
  BY <1>9
<1>12. \A s \in SUBSET S : fold[s] \in Scenes
  <2> DEFINE T == {s \in SUBSET S : fold[s] \in Scenes}
  <2>1. {} \in T
    BY <1>11
  <2>2. ASSUME NEW s \in SUBSET S, s # {} PROVE \E x \in s : s \ {x} \in T => s \in T
    <3>1. Max(s) \in s /\ entry[Max(s)] \in Deltas
      BY <1>1, <1>2, <2>2
    <3>2. ASSUME s \ {Max(s)} \in T PROVE s \in T
      <4>1. fold[s \ {Max(s)}] \in Scenes
        BY <3>2
      <4> QED
        BY <1>11, <1>14, <2>2, <3>1, <4>1
    <3> QED
      BY <3>1, <3>2
  <2> HIDE DEF T
  <2>3. \A s \in SUBSET S : s \in T
    BY <1>1, <2>1, <2>2, FiniteInduction
  <2> QED
    BY <2>3 DEF T
<1>13. fold \in [SUBSET S -> Scenes]
  BY <1>9, <1>12
<1> QED
  BY <1>10, <1>11, <1>13 DEF S, IsForwardFold

------------------------------------------------------------------------------
(* Views and the deltas between them *)

(* The delta stands between the views x and y: it takes the one to the other and
   back. *)
Fits(x, delta, y) == ViewApply(delta, x) = y /\ ViewUnapply(delta, y) = x

(* An entry stands between two views if views in between can be found. *)
Way(mid, x, entry, y) ==
  /\ mid \in [1 .. Len(entry) + 1 -> Views]
  /\ mid[1] = x /\ mid[Len(entry) + 1] = y
  /\ \A i \in 1 .. Len(entry) : Fits(mid[i], entry[i], mid[i + 1])
Leads(x, entry, y) == \E mid : Way(mid, x, entry, y)

(* No deltas lead from a view to itself and nowhere else. *)
LEMMA LeadsNowhere ==
  ASSUME NEW x
  PROVE  (x \in Views => Leads(x, <<>>, x)) /\ \A y : Leads(x, <<>>, y) => x = y
<1>1. Len(<<>>) = 0 /\ 1 .. 0 = {} /\ 1 .. 1 = {1}
  OBVIOUS
<1>2. ASSUME x \in Views PROVE Leads(x, <<>>, x)
  <2>1. Way([i \in 1 .. 1 |-> x], x, <<>>, x)
    BY <1>1, <1>2 DEF Way
  <2> QED
    BY <2>1 DEF Leads
<1>3. ASSUME NEW y, Leads(x, <<>>, y) PROVE x = y
  BY <1>1, <1>3 DEF Leads, Way
<1> QED
  BY <1>2, <1>3

(* One more delta leads one view further. *)
LEMMA LeadsOn ==
  ASSUME NEW C, NEW entry \in Seq(C), NEW c \in C,
         NEW x, NEW y, NEW z \in Views, Leads(x, entry, y), Fits(y, c, z)
  PROVE  Leads(x, Append(entry, c), z)
<1> DEFINE n == Len(entry)
<1>1. n \in Nat
  OBVIOUS
<1>2. PICK mid : Way(mid, x, entry, y)
  BY DEF Leads
<1>3. PICK more : more = Append(entry, c)
  OBVIOUS
<1>4. Len(more) = n + 1 /\ more[n + 1] = c /\ \A i \in 1 .. n : more[i] = entry[i]
  BY <1>3
<1>5. /\ mid \in [1 .. n + 1 -> Views] /\ mid[1] = x /\ mid[n + 1] = y
      /\ \A i \in 1 .. n : Fits(mid[i], entry[i], mid[i + 1])
  BY <1>2 DEF Way
<1> HIDE DEF n
<1>6. PICK far : far = [i \in 1 .. n + 2 |-> IF i = n + 2 THEN z ELSE mid[i]]
  OBVIOUS
<1>7. /\ far \in [1 .. n + 2 -> Views] /\ far[1] = x /\ far[n + 2] = z
      /\ \A i \in 1 .. n + 1 : far[i] = mid[i]
  <2>1. \A i \in 1 .. n + 2 : i # n + 2 => i \in 1 .. n + 1
    BY <1>1
  <2>2. 1 \in 1 .. n + 1 /\ n + 2 \in 1 .. n + 2 /\ \A i \in 1 .. n + 1 : i \in 1 .. n + 2 /\ i # n + 2
    BY <1>1
  <2> QED
    BY <1>5, <1>6, <2>1, <2>2
<1>8. ASSUME NEW i \in 1 .. n + 1 PROVE Fits(far[i], more[i], far[i + 1])
  <2>1. CASE i = n + 1
    <3>1. i + 1 = n + 2 /\ far[i] = y
      BY <1>1, <1>5, <1>7, <2>1
    <3> QED
      BY <1>4, <1>7, <2>1, <3>1
  <2>2. CASE i # n + 1
    <3>1. i \in 1 .. n /\ i + 1 \in 1 .. n + 1
      BY <1>1, <2>2
    <3> QED
      BY <1>4, <1>5, <1>7, <3>1
  <2> QED
    BY <2>1, <2>2
<1>9. Len(more) + 1 = n + 2
  BY <1>1, <1>4
<1>10. Way(far, x, more, z)
  BY <1>4, <1>7, <1>8, <1>9 DEF Way
<1> QED
  BY <1>3, <1>10 DEF Leads

(* A single delta leads where it fits. *)
LEMMA LeadsOnce ==
  ASSUME NEW c, NEW x \in Views, NEW z \in Views, Fits(x, c, z)
  PROVE  Leads(x, <<c>>, z)
<1>1. <<>> \in Seq({c}) /\ c \in {c}
  BY EmptySeq
<1>2. Leads(x, <<>>, x)
  BY LeadsNowhere
<1>3. Leads(x, Append(<<>>, c), z)
  BY <1>1, <1>2, LeadsOn
<1>4. Append(<<>>, c) = <<c>>
  OBVIOUS
<1> QED
  BY <1>3, <1>4


(* Unapplying an entry that leads from one view to another takes a scene seen as
   the other to one seen as the first. *)
LEMMA BackwardLeads ==
  ASSUME NEW scene \in Scenes, NEW entry \in Entries
  PROVE  /\ UnapplyAll(entry, scene) \in Scenes
         /\ \A x : Leads(x, entry, Seen(scene)) => Seen(UnapplyAll(entry, scene)) = x
<1> DEFINE k == Len(entry)
<1>1. k \in Nat /\ DOMAIN entry = 1 .. k /\ \A i \in 1 .. k : entry[i] \in Deltas
  BY DEF Entries
<1>2. PICK h : IsBackwardFold(h, scene, entry)
  BY BackwardFold
<1> HIDE DEF k
<1>3. /\ h \in [SUBSET (1 .. k) -> Scenes] /\ UnapplyAll(entry, scene) = h[1 .. k] /\ h[{}] = scene
      /\ \A s \in SUBSET (1 .. k) : s # {} => h[s] = Unapply(entry[Min(s)], h[s \ {Min(s)}])
  BY <1>1, <1>2 DEF IsBackwardFold
<1>4. h[1 .. k] \in Scenes
  BY <1>3
<1>5. ASSUME NEW x, Leads(x, entry, Seen(scene)) PROVE Seen(h[1 .. k]) = x
  <2>1. PICK mid : Way(mid, x, entry, Seen(scene))
    BY <1>5 DEF Leads
  <2>2. /\ mid \in [1 .. k + 1 -> Views] /\ mid[1] = x /\ mid[k + 1] = Seen(scene)
        /\ \A i \in 1 .. k : Fits(mid[i], entry[i], mid[i + 1])
    BY <2>1 DEF Way, k
  <2> DEFINE T == {i \in 0 .. k : Seen(h[i + 1 .. k]) = mid[i + 1]}
  <2>3. k \in T
    <3>1. k + 1 .. k = {} /\ k \in 0 .. k
      BY <1>1
    <3>2. Seen(h[k + 1 .. k]) = mid[k + 1]
      BY <1>3, <2>2, <3>1
    <3> QED
      BY <3>1, <3>2
  <2>4. ASSUME NEW i \in 0 .. k - 1, i + 1 \in T PROVE i \in T
    <3>1. i + 1 \in 1 .. k /\ i \in 0 .. k
      BY <1>1
    <3>2. PICK j \in 1 .. k : j = i + 1
      BY <3>1
    <3>3. /\ j .. k \in SUBSET (1 .. k) /\ j .. k # {} /\ Min(j .. k) = j /\ (j .. k) \ {j} = j + 1 .. k
          /\ j + 1 .. k \in SUBSET (1 .. k)
      <4>1. j \in 1 .. k + 1 /\ j + 1 \in 1 .. k + 1
        BY <1>1
      <4> QED
        BY <1>1, <4>1, Interval, FromBelow
    <3>4. h[j .. k] = Unapply(entry[j], h[j + 1 .. k])
      BY <1>3, <3>3
    <3>5. Seen(h[j + 1 .. k]) = mid[j + 1]
      BY <2>4, <3>2
    <3>6. PICK z : z = h[j + 1 .. k]
      OBVIOUS
    <3>7. z \in Scenes /\ entry[j] \in Deltas
      BY <1>1, <1>3, <3>3, <3>6
    <3>8. ViewUnapply(entry[j], Seen(z)) = mid[j]
      BY <2>2, <3>5, <3>6 DEF Fits
    <3>9. Seen(Unapply(entry[j], z)) = mid[j]
      BY <3>7, <3>8, SeenDelta
    <3>10. Seen(h[j .. k]) = mid[j]
      BY <3>4, <3>6, <3>9
    <3> QED
      BY <3>1, <3>2, <3>10
  <2> HIDE DEF T
  <2>5. 0 \in T
    <3>1. \A i \in 0 .. k : i \in T
      BY <1>1, <2>3, <2>4, Downwards
    <3> QED
      BY <1>1, <3>1
  <2> QED
    BY <2>2, <2>5 DEF T
<1> QED
  BY <1>3, <1>4, <1>5

(* Applying one that leads somewhere leads there. *)
LEMMA ForwardLeads ==
  ASSUME NEW scene \in Scenes, NEW entry \in Entries
  PROVE  /\ ApplyAll(entry, scene) \in Scenes
         /\ \A y : Leads(Seen(scene), entry, y) => Seen(ApplyAll(entry, scene)) = y
<1> DEFINE k == Len(entry)
<1>1. k \in Nat /\ DOMAIN entry = 1 .. k /\ \A i \in 1 .. k : entry[i] \in Deltas
  BY DEF Entries
<1>2. PICK h : IsForwardFold(h, scene, entry)
  BY ForwardFold
<1> HIDE DEF k
<1>3. /\ h \in [SUBSET (1 .. k) -> Scenes] /\ ApplyAll(entry, scene) = h[1 .. k] /\ h[{}] = scene
      /\ \A s \in SUBSET (1 .. k) : s # {} => h[s] = Apply(entry[Max(s)], h[s \ {Max(s)}])
  BY <1>1, <1>2 DEF IsForwardFold
<1>4. h[1 .. k] \in Scenes
  BY <1>3
<1>5. ASSUME NEW y, Leads(Seen(scene), entry, y) PROVE Seen(h[1 .. k]) = y
  <2>1. PICK mid : Way(mid, Seen(scene), entry, y)
    BY <1>5 DEF Leads
  <2>2. /\ mid \in [1 .. k + 1 -> Views] /\ mid[1] = Seen(scene) /\ mid[k + 1] = y
        /\ \A i \in 1 .. k : Fits(mid[i], entry[i], mid[i + 1])
    BY <2>1 DEF Way, k
  <2> DEFINE T == {i \in 0 .. k : Seen(h[1 .. i]) = mid[i + 1]}
  <2>3. 0 \in T
    <3>1. 1 .. 0 = {} /\ 0 \in 0 .. k
      BY <1>1
    <3>2. Seen(h[1 .. 0]) = mid[0 + 1]
      BY <1>3, <2>2, <3>1
    <3> QED
      BY <3>1, <3>2
  <2>4. ASSUME NEW i \in 0 .. k - 1, i \in T PROVE i + 1 \in T
    <3>1. PICK j \in 1 .. k : j = i + 1
      BY <1>1
    <3>2. j - 1 = i /\ j \in 0 .. k /\ j - 1 \in 0 .. k /\ j \in Nat /\ j # 0
      BY <1>1, <3>1
    <3>3. /\ 1 .. j \in SUBSET (1 .. k) /\ 1 .. j # {} /\ Max(1 .. j) = j /\ (1 .. j) \ {j} = 1 .. j - 1
          /\ 1 .. j - 1 \in SUBSET (1 .. k)
      <4>1. 1 .. j \in SUBSET (1 .. k) /\ 1 .. j - 1 \in SUBSET (1 .. k)
        BY <1>1, <3>2, Interval
      <4>2. 1 .. j # {} /\ Max(1 .. j) = j /\ (1 .. j) \ {j} = 1 .. j - 1
        BY <3>2, FromAbove
      <4> QED
        BY <4>1, <4>2
    <3>4. h[1 .. j] = Apply(entry[j], h[1 .. j - 1])
      BY <1>3, <3>3
    <3>5. Seen(h[1 .. j - 1]) = mid[j]
      BY <2>4, <3>1, <3>2
    <3>6. PICK z : z = h[1 .. j - 1]
      OBVIOUS
    <3>7. z \in Scenes /\ entry[j] \in Deltas
      BY <1>1, <1>3, <3>3, <3>6
    <3>8. ViewApply(entry[j], Seen(z)) = mid[j + 1]
      BY <2>2, <3>5, <3>6 DEF Fits
    <3>9. Seen(Apply(entry[j], z)) = mid[j + 1]
      BY <3>7, <3>8, SeenDelta
    <3>10. Seen(h[1 .. j]) = mid[j + 1]
      BY <3>4, <3>6, <3>9
    <3> QED
      BY <3>1, <3>2, <3>10
  <2> HIDE DEF T
  <2>5. k \in T
    <3>1. \A i \in 0 .. k : i \in T
      BY <1>1, <2>3, <2>4, Upwards
    <3> QED
      BY <1>1, <3>1
  <2> QED
    BY <2>2, <2>5 DEF T
<1> QED
  BY <1>3, <1>4, <1>5

------------------------------------------------------------------------------
(* The line of views that the stacks stand for *)

Links == {t \in Views \X (Entries \ {<<>>}) \X Views : Leads(t[1], t[2], t[3])}

(* A link is an entry that leads from one view to the next, *)
LEMMA LinkLeads == ASSUME NEW x, NEW entry, NEW y, <<x, entry, y>> \in Links PROVE Leads(x, entry, y)
<1>1. PICK t \in Links : t = <<x, entry, y>>
  OBVIOUS
<1>2. Leads(t[1], t[2], t[3])
  BY DEF Links
<1> QED
  BY <1>1, <1>2

(* ... and any such entry is a link. *)
LEMMA LeadsLink ==
  ASSUME NEW x \in Views, NEW entry \in Entries \ {<<>>}, NEW y \in Views, Leads(x, entry, y)
  PROVE  <<x, entry, y>> \in Links
<1>1. PICK t \in Views \X (Entries \ {<<>>}) \X Views : t = <<x, entry, y>>
  OBVIOUS
<1>2. t \in Links
  BY <1>1 DEF Links
<1> QED
  BY <1>1, <1>2

(* Past and Future of any two stacks under any scene *)
PastOf(stack, scene) ==
  LET n == Len(stack)
      at[i \in 1 .. n + 1] == IF i > n THEN scene ELSE UnapplyAll(stack[i], at[i + 1])
  IN  [i \in 1 .. n |-> Seen(at[i])]

FutureOf(stack, scene) ==
  LET n == Len(stack)
      at[i \in 1 .. n + 1] == IF i > n THEN scene ELSE ApplyAll(stack[i], at[i + 1])
  IN  [i \in 1 .. n |-> Seen(at[i])]

(* If the entries stand between the views of a line, those are the views that
   running them finds. *)
LEMMA PastIs ==
  ASSUME NEW scene \in Scenes, NEW stack \in Seq(Entries \ {<<>>}),
         NEW past \in Seq(Views), Len(past) = Len(stack),
         \A i \in 1 .. Len(stack) :
           <<SceneAt(past, Seen(scene), i), stack[i], SceneAt(past, Seen(scene), i + 1)>> \in Links
  PROVE  PastOf(stack, scene) = past
<1> DEFINE n == Len(stack)
           Solves(f) == f = [i \in 1 .. n + 1 |-> IF i > n THEN scene ELSE UnapplyAll(stack[i], f[i + 1])]
           at == CHOOSE f : Solves(f)
           step == [i \in 1 .. n |-> [x \in Scenes |-> UnapplyAll(stack[i], x)]]
<1>1. n \in Nat /\ \A i \in 1 .. n : stack[i] \in Entries
  OBVIOUS
<1>2. \A x \in Scenes, i \in 1 .. n : UnapplyAll(stack[i], x) \in Scenes
  BY <1>1, BackwardLeads
<1>3. step \in [1 .. n -> [Scenes -> Scenes]]
  <2>1. ASSUME NEW i \in 1 .. n PROVE [x \in Scenes |-> UnapplyAll(stack[i], x)] \in [Scenes -> Scenes]
    BY <1>2
  <2> QED
    BY <2>1
<1>4. \A i \in 1 .. n, x \in Scenes : step[i][x] = UnapplyAll(stack[i], x)
  OBVIOUS
<1> HIDE DEF step
<1>5. PICK g \in [1 .. n + 1 -> Scenes] : g[n + 1] = scene /\ \A i \in 1 .. n : g[i] = step[i][g[i + 1]]
  <2>1. PICK C : C = Scenes
    OBVIOUS
  <2>2. n \in Nat /\ scene \in C /\ Steps(step, 1 .. n, C)
    BY <1>1, <1>3, <2>1 DEF Steps
  <2> HIDE DEF n
  <2>3. \E g : Descends(g, n, C, scene, step)
    BY <2>2, Ladder
  <2> QED
    BY <2>1, <2>3 DEF Descends
<1>6. Solves(g)
  <2> HIDE DEF n
  <2>1. g = [i \in 1 .. n + 1 |-> g[i]]
    OBVIOUS
  <2>2. ASSUME NEW i \in 1 .. n + 1 PROVE g[i] = IF i > n THEN scene ELSE UnapplyAll(stack[i], g[i + 1])
    <3>1. CASE i > n
      <4>1. i = n + 1
        BY <1>1, <3>1
      <4> QED
        BY <1>5, <3>1, <4>1
    <3>2. CASE ~(i > n)
      <4>1. i \in 1 .. n /\ i + 1 \in 1 .. n + 1
        BY <1>1, <3>2
      <4>2. g[i + 1] \in Scenes
        BY <4>1
      <4> QED
        BY <1>4, <1>5, <3>2, <4>1, <4>2
    <3> QED
      BY <3>1, <3>2
  <2> QED
    BY <2>1, <2>2
<1>7. Solves(at)
  BY <1>6
<1>8. PastOf(stack, scene) = [i \in 1 .. n |-> Seen(at[i])]
  BY DEF PastOf
<1>9. PICK a : a = at
  OBVIOUS
<1>10. /\ PastOf(stack, scene) = [i \in 1 .. n |-> Seen(a[i])]
       /\ \A i \in 1 .. n + 1 : a[i] = IF i > n THEN scene ELSE UnapplyAll(stack[i], a[i + 1])
  <2>1. a = [i \in 1 .. n + 1 |-> IF i > n THEN scene ELSE UnapplyAll(stack[i], a[i + 1])]
    BY <1>7, <1>9
  <2> QED
    BY <1>8, <1>9, <2>1
<1> HIDE DEF n, at, Solves
<1> DEFINE T == {i \in 0 .. n : a[i + 1] \in Scenes /\ Seen(a[i + 1]) = SceneAt(past, Seen(scene), i + 1)}
<1>11. Len(past) = n /\ \A i \in 1 .. n : Leads(SceneAt(past, Seen(scene), i), stack[i], SceneAt(past, Seen(scene), i + 1))
  BY LinkLeads DEF n
<1>12. n \in T
  <2>1. n + 1 \in 1 .. n + 1 /\ n + 1 > n /\ ~(n + 1 <= n) /\ n \in 0 .. n
    BY <1>1
  <2> QED
    BY <1>10, <1>11, <2>1 DEF SceneAt
<1>13. ASSUME NEW i \in 0 .. n - 1, i + 1 \in T PROVE i \in T
  <2>1. PICK j \in 1 .. n : j = i + 1
    BY <1>1
  <2>2. j \in 1 .. n + 1 /\ ~(j > n) /\ i \in 0 .. n
    BY <1>1, <2>1
  <2>3. a[j] = UnapplyAll(stack[j], a[j + 1])
    BY <1>10, <2>2
  <2>4. a[j + 1] \in Scenes /\ Seen(a[j + 1]) = SceneAt(past, Seen(scene), j + 1)
    BY <1>13, <2>1
  <2>6. PICK v : v = a[j + 1]
    OBVIOUS
  <2>7. PICK x : x = SceneAt(past, Seen(scene), j)
    OBVIOUS
  <2>8. v \in Scenes /\ stack[j] \in Entries /\ Leads(x, stack[j], Seen(v))
    BY <1>1, <1>11, <2>4, <2>6, <2>7
  <2>9. UnapplyAll(stack[j], v) \in Scenes /\ Seen(UnapplyAll(stack[j], v)) = x
    BY <2>8, BackwardLeads
  <2>5. a[j] \in Scenes /\ Seen(a[j]) = SceneAt(past, Seen(scene), j)
    BY <2>3, <2>6, <2>7, <2>9
  <2> QED
    BY <2>1, <2>2, <2>5
<1>14. \A i \in 0 .. n : i \in T
  <2> HIDE DEF T
  <2> QED
    BY <1>1, <1>12, <1>13, Downwards
<1>15. ASSUME NEW i \in 1 .. n PROVE Seen(a[i]) = past[i]
  <2>1. PICK j \in 0 .. n : j + 1 = i /\ j = i - 1
    BY <1>1
  <2>2. Seen(a[i]) = SceneAt(past, Seen(scene), i)
    BY <1>14, <2>1
  <2> QED
    BY <1>1, <1>11, <2>2 DEF SceneAt
<1>16. past = [i \in 1 .. n |-> past[i]]
  BY <1>1, <1>11
<1> QED
  BY <1>10, <1>15, <1>16

(* The future the mapping computes from the redo stack is the future of the line. *)
LEMMA FutureIs ==
  ASSUME NEW scene \in Scenes, NEW stack \in Seq(Entries \ {<<>>}),
         NEW future \in Seq(Views), Len(future) = Len(stack),
         \A i \in 1 .. Len(stack) :
           <<SceneAt(future, Seen(scene), i + 1), stack[i], SceneAt(future, Seen(scene), i)>> \in Links
  PROVE  FutureOf(stack, scene) = future
<1> DEFINE n == Len(stack)
           Solves(f) == f = [i \in 1 .. n + 1 |-> IF i > n THEN scene ELSE ApplyAll(stack[i], f[i + 1])]
           at == CHOOSE f : Solves(f)
           step == [i \in 1 .. n |-> [x \in Scenes |-> ApplyAll(stack[i], x)]]
<1>1. n \in Nat /\ \A i \in 1 .. n : stack[i] \in Entries
  OBVIOUS
<1>2. \A x \in Scenes, i \in 1 .. n : ApplyAll(stack[i], x) \in Scenes
  BY <1>1, ForwardLeads
<1>3. step \in [1 .. n -> [Scenes -> Scenes]]
  <2>1. ASSUME NEW i \in 1 .. n PROVE [x \in Scenes |-> ApplyAll(stack[i], x)] \in [Scenes -> Scenes]
    BY <1>2
  <2> QED
    BY <2>1
<1>4. \A i \in 1 .. n, x \in Scenes : step[i][x] = ApplyAll(stack[i], x)
  OBVIOUS
<1> HIDE DEF step
<1>5. PICK g \in [1 .. n + 1 -> Scenes] : g[n + 1] = scene /\ \A i \in 1 .. n : g[i] = step[i][g[i + 1]]
  <2>1. PICK C : C = Scenes
    OBVIOUS
  <2>2. n \in Nat /\ scene \in C /\ Steps(step, 1 .. n, C)
    BY <1>1, <1>3, <2>1 DEF Steps
  <2> HIDE DEF n
  <2>3. \E g : Descends(g, n, C, scene, step)
    BY <2>2, Ladder
  <2> QED
    BY <2>1, <2>3 DEF Descends
<1>6. Solves(g)
  <2> HIDE DEF n
  <2>1. g = [i \in 1 .. n + 1 |-> g[i]]
    OBVIOUS
  <2>2. ASSUME NEW i \in 1 .. n + 1 PROVE g[i] = IF i > n THEN scene ELSE ApplyAll(stack[i], g[i + 1])
    <3>1. CASE i > n
      <4>1. i = n + 1
        BY <1>1, <3>1
      <4> QED
        BY <1>5, <3>1, <4>1
    <3>2. CASE ~(i > n)
      <4>1. i \in 1 .. n /\ i + 1 \in 1 .. n + 1
        BY <1>1, <3>2
      <4>2. g[i + 1] \in Scenes
        BY <4>1
      <4> QED
        BY <1>4, <1>5, <3>2, <4>1, <4>2
    <3> QED
      BY <3>1, <3>2
  <2> QED
    BY <2>1, <2>2
<1>7. Solves(at)
  BY <1>6
<1>8. FutureOf(stack, scene) = [i \in 1 .. n |-> Seen(at[i])]
  BY DEF FutureOf
<1>9. PICK a : a = at
  OBVIOUS
<1>10. /\ FutureOf(stack, scene) = [i \in 1 .. n |-> Seen(a[i])]
       /\ \A i \in 1 .. n + 1 : a[i] = IF i > n THEN scene ELSE ApplyAll(stack[i], a[i + 1])
  <2>1. a = [i \in 1 .. n + 1 |-> IF i > n THEN scene ELSE ApplyAll(stack[i], a[i + 1])]
    BY <1>7, <1>9
  <2> QED
    BY <1>8, <1>9, <2>1
<1> HIDE DEF n, at, Solves
<1> DEFINE T == {i \in 0 .. n : a[i + 1] \in Scenes /\ Seen(a[i + 1]) = SceneAt(future, Seen(scene), i + 1)}
<1>11. Len(future) = n /\ \A i \in 1 .. n : Leads(SceneAt(future, Seen(scene), i + 1), stack[i], SceneAt(future, Seen(scene), i))
  BY LinkLeads DEF n
<1>12. n \in T
  <2>1. n + 1 \in 1 .. n + 1 /\ n + 1 > n /\ ~(n + 1 <= n) /\ n \in 0 .. n
    BY <1>1
  <2> QED
    BY <1>10, <1>11, <2>1 DEF SceneAt
<1>13. ASSUME NEW i \in 0 .. n - 1, i + 1 \in T PROVE i \in T
  <2>1. PICK j \in 1 .. n : j = i + 1
    BY <1>1
  <2>2. j \in 1 .. n + 1 /\ ~(j > n) /\ i \in 0 .. n
    BY <1>1, <2>1
  <2>3. a[j] = ApplyAll(stack[j], a[j + 1])
    BY <1>10, <2>2
  <2>4. a[j + 1] \in Scenes /\ Seen(a[j + 1]) = SceneAt(future, Seen(scene), j + 1)
    BY <1>13, <2>1
  <2>6. PICK v : v = a[j + 1]
    OBVIOUS
  <2>7. PICK x : x = SceneAt(future, Seen(scene), j)
    OBVIOUS
  <2>8. v \in Scenes /\ stack[j] \in Entries /\ Leads(Seen(v), stack[j], x)
    BY <1>1, <1>11, <2>4, <2>6, <2>7
  <2>9. ApplyAll(stack[j], v) \in Scenes /\ Seen(ApplyAll(stack[j], v)) = x
    BY <2>8, ForwardLeads
  <2>5. a[j] \in Scenes /\ Seen(a[j]) = SceneAt(future, Seen(scene), j)
    BY <2>3, <2>6, <2>7, <2>9
  <2> QED
    BY <2>1, <2>2, <2>5
<1>14. \A i \in 0 .. n : i \in T
  <2> HIDE DEF T
  <2> QED
    BY <1>1, <1>12, <1>13, Downwards
<1>15. ASSUME NEW i \in 1 .. n PROVE Seen(a[i]) = future[i]
  <2>1. PICK j \in 0 .. n : j + 1 = i /\ j = i - 1
    BY <1>1
  <2>2. Seen(a[i]) = SceneAt(future, Seen(scene), i)
    BY <1>14, <2>1
  <2> QED
    BY <1>1, <1>11, <2>2 DEF SceneAt
<1>16. future = [i \in 1 .. n |-> future[i]]
  BY <1>1, <1>11
<1> QED
  BY <1>10, <1>15, <1>16
(* The line the mapping computes is the one the stacks stand for. *)
LEMMA LineIs ==
  ASSUME NEW scene \in Scenes, NEW entry \in Entries,
         NEW undo \in Seq(Entries \ {<<>>}), NEW redo \in Seq(Entries \ {<<>>}),
         NEW past, NEW present, NEW future, IsLine(Views, Links, past, present, future, undo, redo),
         Leads(present, entry, Seen(scene))
  PROVE  /\ Seen(UnapplyAll(entry, scene)) = present
         /\ PastOf(undo, UnapplyAll(entry, scene)) = past
         /\ FutureOf(redo, UnapplyAll(entry, scene)) = future
<1>1. PICK c : c = UnapplyAll(entry, scene)
  OBVIOUS
<1>2. c \in Scenes /\ Seen(c) = present
  BY <1>1, BackwardLeads
<1>3. past \in Seq(Views) /\ Len(past) = Len(undo) /\ future \in Seq(Views) /\ Len(future) = Len(redo)
  BY DEF IsLine
<1>4. \A i \in 1 .. Len(undo) :
        <<SceneAt(past, Seen(c), i), undo[i], SceneAt(past, Seen(c), i + 1)>> \in Links
  BY <1>2 DEF IsLine
<1>5. \A i \in 1 .. Len(redo) :
        <<SceneAt(future, Seen(c), i + 1), redo[i], SceneAt(future, Seen(c), i)>> \in Links
  BY <1>2 DEF IsLine
<1>6. PastOf(undo, c) = past
  BY <1>2, <1>3, <1>4, PastIs
<1>7. FutureOf(redo, c) = future
  BY <1>2, <1>3, <1>5, FutureIs
<1> QED
  BY <1>1, <1>2, <1>6, <1>7

(* The invariant of the refinement: while the calls are those undo is meant for
   there is a line of views with the entries on the stacks between them, and the
   deltas of an open transaction between its present one and the scene. *)
HasLine(past, present, future) ==
  /\ IsLine(Views, Links, past, present, future, undoStack, redoStack)
  /\ Leads(present, pending, Seen(objects))

LineInv == regular => \E past, present, future : HasLine(past, present, future)

(* ... in this state, *)
LEMMA LineNow ==
  ASSUME TypeOK, NEW past, NEW present, NEW future, HasLine(past, present, future)
  PROVE  Past = past /\ Seen(Committed) = present /\ Future = future
<1>1. /\ objects \in Scenes /\ pending \in Entries
      /\ undoStack \in Seq(Entries \ {<<>>}) /\ redoStack \in Seq(Entries \ {<<>>})
  BY DEF TypeOK
<1>2. /\ Seen(UnapplyAll(pending, objects)) = present
      /\ PastOf(undoStack, UnapplyAll(pending, objects)) = past
      /\ FutureOf(redoStack, UnapplyAll(pending, objects)) = future
  BY <1>1, LineIs DEF HasLine
<1>3. Past = PastOf(undoStack, UnapplyAll(pending, objects)) /\ Future = FutureOf(redoStack, UnapplyAll(pending, objects))
  BY DEF Past, Future, PastOf, FutureOf, Committed
<1> QED
  BY <1>2, <1>3 DEF Committed

(* ... and in the next. *)
LEMMA LineNext ==
  ASSUME TypeOK', NEW past, NEW present, NEW future, HasLine(past, present, future)'
  PROVE  Past' = past /\ (Seen(Committed))' = present /\ Future' = future
<1>1. /\ objects' \in Scenes /\ pending' \in Entries
      /\ undoStack' \in Seq(Entries \ {<<>>}) /\ redoStack' \in Seq(Entries \ {<<>>})
  BY DEF TypeOK
<1>4. /\ IsLine(Views, Links, past, present, future, undoStack', redoStack')
      /\ Leads(present, pending', Seen(objects'))
  BY DEF HasLine
<1>2. /\ Seen(UnapplyAll(pending', objects')) = present
      /\ PastOf(undoStack', UnapplyAll(pending', objects')) = past
      /\ FutureOf(redoStack', UnapplyAll(pending', objects')) = future
  BY <1>1, <1>4, LineIs
<1>3. /\ Past' = PastOf(undoStack', UnapplyAll(pending', objects'))
      /\ Future' = FutureOf(redoStack', UnapplyAll(pending', objects'))
      /\ (Seen(Committed))' = Seen(UnapplyAll(pending', objects'))
  BY DEF Past, Future, PastOf, FutureOf, Committed
<1> QED
  BY <1>2, <1>3

(* What EditHistory lets happen to a line *)
Follows(p, q, f, r, s, g) ==
  \/ r = p /\ s = q /\ g \in {f, <<>>}
  \/ s \in Views /\ r = LatestOf(Append(p, q), MaxHistory) /\ g = <<>>
  \/ p # <<>> /\ s = p[Len(p)] /\ r = SubSeq(p, 1, Len(p) - 1) /\ g = Append(f, q)
  \/ f # <<>> /\ s = f[Len(f)] /\ g = SubSeq(f, 1, Len(f) - 1) /\ r = Append(p, q)
  \/ r = <<>> /\ g = <<>> /\ s = q
  \/ \E new \in SUBSET Ids :
       LET With(z) == [id \in Ids |-> IF id \in new THEN s[id] ELSE z[id]]
       IN  /\ s \in Views /\ s = With(q)
           /\ r = [i \in DOMAIN p |-> With(p[i])] /\ g = [i \in DOMAIN f |-> With(f[i])]

(* A step along the line is a step of EditHistory, or none. *)
LEMMA FollowsIsNext ==
  ASSUME NEW p, NEW q, NEW f, NEW r, NEW s, NEW g, Follows(p, q, f, r, s, g),
         Past = p, Seen(Committed) = q, Future = f,
         Past' = r, (Seen(Committed))' = s, Future' = g
  PROVE  Line!Next \/ UNCHANGED Line!history
<1>1. Line!Scenes = Views /\ \A line : Line!Latest(line) = LatestOf(line, MaxHistory)
  BY DEF Line!Scenes, Views, Line!Latest, LatestOf
<1>2. CASE r = p /\ s = q /\ g = f
  BY <1>2 DEF Line!history
<1>8. CASE r = p /\ s = q /\ g = <<>>
  BY <1>8 DEF Line!Next, Line!StartEdit
<1>3. CASE s \in Views /\ r = LatestOf(Append(p, q), MaxHistory) /\ g = <<>>
  BY <1>1, <1>3 DEF Line!Next, Line!Edit
<1>4. CASE p # <<>> /\ s = p[Len(p)] /\ r = SubSeq(p, 1, Len(p) - 1) /\ g = Append(f, q)
  BY <1>4 DEF Line!Next, Line!Undo
<1>5. CASE f # <<>> /\ s = f[Len(f)] /\ g = SubSeq(f, 1, Len(f) - 1) /\ r = Append(p, q)
  BY <1>5 DEF Line!Next, Line!Redo
<1>6. CASE r = <<>> /\ g = <<>> /\ s = q
  BY <1>6 DEF Line!Next, Line!Forget
<1>7. ASSUME NEW new \in SUBSET Ids,
             LET With(z) == [id \in Ids |-> IF id \in new THEN s[id] ELSE z[id]]
             IN  /\ s \in Views /\ s = With(q)
                 /\ r = [i \in DOMAIN p |-> With(p[i])] /\ g = [i \in DOMAIN f |-> With(f[i])]
      PROVE  Line!Next
  <2>1. Line!Load(new)
    BY <1>1, <1>7 DEF Line!Load
  <2> QED
    BY <2>1 DEF Line!Next
<1> QED
  BY <1>2, <1>3, <1>4, <1>5, <1>6, <1>7, <1>8 DEF Follows

------------------------------------------------------------------------------
(* What the user actions record *)

(* The values overwritten, written back, make the change undone. *)
LEMMA SetFits ==
  ASSUME NEW x \in Views, NEW id \in Ids, x[id] # None,
         NEW updates \in UNION {[S -> Cells] : S \in SUBSET Props},
         NEW old, old = [p \in DOMAIN updates |-> x[id].data[p]],
         NEW y \in Views, y = ViewWrite(x, id, updates)
  PROVE  ViewWrite(y, id, old) = x
<1>1. x[id] \in Things
  BY DEF Views
<1>2. PICK data : data = [p \in Props |-> IF p \in DOMAIN updates THEN updates[p] ELSE x[id].data[p]]
  OBVIOUS
<1>3. y[id] = [data |-> data, children |-> x[id].children] /\ \A j \in Ids \ {id} : y[j] = x[j]
  BY <1>2 DEF ViewWrite
<1>4. y[id].data = data /\ y[id].children = x[id].children
  BY <1>3
<1>5. y[id] # None
  <2>1. \A p \in DOMAIN updates : updates[p] \in Cells
    OBVIOUS
  <2>2. x[id].data \in [Props -> Cells] /\ x[id].children \in SUBSET Ids
    BY <1>1 DEF Things
  <2>3. data \in [Props -> Cells]
    BY <1>2, <2>1, <2>2
  <2>4. y[id] \in Things
    BY <1>3, <2>2, <2>3 DEF Things
  <2> QED
    BY <2>4, ConstantsAssumption
<1>6. [p \in Props |-> IF p \in DOMAIN old THEN old[p] ELSE data[p]] = x[id].data
  <2>1. x[id].data = [p \in Props |-> x[id].data[p]]
    BY <1>1 DEF Things
  <2>2. DOMAIN old = DOMAIN updates /\ \A p \in DOMAIN old : old[p] = x[id].data[p]
    OBVIOUS
  <2>3. \A p \in Props : p \notin DOMAIN updates => data[p] = x[id].data[p]
    BY <1>2
  <2>4. \A p \in Props : (IF p \in DOMAIN old THEN old[p] ELSE data[p]) = x[id].data[p]
    BY <2>2, <2>3
  <2> QED
    BY <2>1, <2>4
<1>7. x[id] = [data |-> x[id].data, children |-> x[id].children]
  BY <1>1 DEF Things
<1>8. ViewWrite(y, id, old) = [j \in Ids |-> x[j]]
  BY <1>3, <1>4, <1>5, <1>6, <1>7 DEF ViewWrite
<1>9. x = [j \in Ids |-> x[j]]
  BY DEF Views
<1> QED
  BY <1>8, <1>9

(* What is added comes away again, if there was nothing and no list had it. *)
LEMMA AddFits ==
  ASSUME NEW x \in Views, NEW id \in Ids, x[id] = None, NEW thing \in Things,
         NEW parent \in Ids \cup {None}, parent # id,
         \A j \in Ids : j = parent /\ x[j] # None => id \notin x[j].children
  PROVE  ViewErase(ViewInsert(x, id, thing, parent), id, parent) = x
<1>1. PICK y : y = ViewInsert(x, id, thing, parent)
  OBVIOUS
<1>2. \A j \in Ids : x[j] # None => /\ x[j] \in Things /\ x[j].children \subseteq Ids
                                    /\ x[j] = [data |-> x[j].data, children |-> x[j].children]
                                    /\ x[j].data \in [Props -> Cells]
  BY DEF Views, Things
<1>3. ASSUME NEW j \in Ids PROVE ViewErase(y, id, parent)[j] = x[j]
  <2>1. CASE j = parent /\ x[j] # None
    <3>1. y[j] = [data |-> x[j].data, children |-> x[j].children \cup {id}]
      BY <1>1, <2>1 DEF ViewInsert
    <3>2. y[j] \in Things
      <4>1. PICK data, kids : data = x[j].data /\ kids = x[j].children \cup {id}
        OBVIOUS
      <4>2. data \in [Props -> Cells] /\ kids \in SUBSET Ids
        BY <1>2, <2>1, <4>1
      <4> QED
        BY <3>1, <4>1, <4>2 DEF Things
    <3>3. y[j] # None
      BY <3>2, ConstantsAssumption
    <3>4. ViewErase(y, id, parent)[j] = [data |-> y[j].data, children |-> y[j].children \ {id}]
      BY <2>1, <3>3 DEF ViewErase
    <3>5. y[j].data = x[j].data /\ y[j].children \ {id} = x[j].children
      <4>1. (x[j].children \cup {id}) \ {id} = x[j].children
        BY <2>1
      <4>2. y[j].data = x[j].data /\ y[j].children = x[j].children \cup {id}
        BY <3>1
      <4> QED
        BY <4>1, <4>2
    <3>6. x[j] = [data |-> x[j].data, children |-> x[j].children]
      BY <1>2, <2>1
    <3> QED
      BY <3>4, <3>5, <3>6
  <2>2. CASE j = parent /\ x[j] = None
    <3>1. j # id /\ y[j] = None
      BY <1>1, <2>2 DEF ViewInsert
    <3> QED
      BY <2>2, <3>1 DEF ViewErase
  <2>3. CASE j # parent
    BY <1>1, <2>3 DEF ViewInsert, ViewErase
  <2> QED
    BY <2>1, <2>2, <2>3
<1>4. x = [j \in Ids |-> x[j]] /\ ViewErase(y, id, parent) = [j \in Ids |-> ViewErase(y, id, parent)[j]]
  BY DEF Views, ViewErase
<1> QED
  BY <1>1, <1>3, <1>4

(* What is taken away comes back, if its parent was found and it was not its own. *)
LEMMA RemoveFits ==
  ASSUME NEW x \in Views, NEW id \in Ids, NEW thing \in Things, x[id] = thing,
         NEW parent \in Ids \cup {None}, parent # id,
         \A j \in Ids : j = parent => x[j] # None /\ id \in x[j].children
  PROVE  ViewInsert(ViewErase(x, id, parent), id, thing, parent) = x
<1>1. PICK y : y = ViewErase(x, id, parent)
  OBVIOUS
<1>2. \A j \in Ids : x[j] # None => /\ x[j] \in Things /\ x[j].children \subseteq Ids
                                    /\ x[j] = [data |-> x[j].data, children |-> x[j].children]
                                    /\ x[j].data \in [Props -> Cells]
  BY DEF Views, Things
<1>3. ASSUME NEW j \in Ids PROVE ViewInsert(y, id, thing, parent)[j] = x[j]
  <2>1. CASE j = parent
    <3>1. x[j] # None /\ id \in x[j].children /\ j # id
      BY <2>1
    <3>2. y[j] = [data |-> x[j].data, children |-> x[j].children \ {id}]
      BY <1>1, <2>1, <3>1 DEF ViewErase
    <3>3. y[j] \in Things
      <4>1. PICK data, kids : data = x[j].data /\ kids = x[j].children \ {id}
        OBVIOUS
      <4>2. data \in [Props -> Cells] /\ kids \in SUBSET Ids
        BY <1>2, <3>1, <4>1
      <4> QED
        BY <3>2, <4>1, <4>2 DEF Things
    <3>4. y[j] # None
      BY <3>3, ConstantsAssumption
    <3>5. ViewInsert(y, id, thing, parent)[j] = [data |-> y[j].data, children |-> y[j].children \cup {id}]
      BY <2>1, <3>4 DEF ViewInsert
    <3>6. y[j].data = x[j].data /\ y[j].children \cup {id} = x[j].children
      <4>1. (x[j].children \ {id}) \cup {id} = x[j].children
        BY <3>1
      <4>2. y[j].data = x[j].data /\ y[j].children = x[j].children \ {id}
        BY <3>2
      <4> QED
        BY <4>1, <4>2
    <3>7. x[j] = [data |-> x[j].data, children |-> x[j].children]
      BY <1>2, <3>1
    <3> QED
      BY <3>5, <3>6, <3>7
  <2>2. CASE j # parent
    BY <1>1, <2>2 DEF ViewInsert, ViewErase
  <2> QED
    BY <2>1, <2>2
<1>4. x = [j \in Ids |-> x[j]] /\ ViewInsert(y, id, thing, parent) = [j \in Ids |-> ViewInsert(y, id, thing, parent)[j]]
  BY DEF Views, ViewInsert
<1> QED
  BY <1>1, <1>3, <1>4

(* Every user action records one delta, and one that fits if it is a call undo is
   meant for. *)
LEMMA UserRecords ==
  ASSUME TypeOK, UserAction
  PROVE  /\ regular' \in BOOLEAN
         /\ \E delta \in Deltas :
              /\ Record(delta)
              /\ regular' => regular /\ Fits(Seen(objects), delta, Seen(objects'))
<1>1. PICK x : x = Seen(objects)
  OBVIOUS
<1>2. objects \in Scenes /\ regular \in BOOLEAN
  BY DEF TypeOK
<1>3. /\ x \in Views
      /\ \A id \in Ids : (x[id] = IF objects[id] = None THEN None ELSE Thing(objects[id]))
                         /\ (x[id] = None <=> objects[id] = None)
  BY <1>1, <1>2, SeenIsView
<1>4. \A id \in Ids : objects[id] # None => objects[id] \in Objects /\ x[id].data = objects[id].data
                                            /\ x[id].children = ToSet(objects[id].children) /\ x[id] \in Things
  <2>1. ASSUME NEW id \in Ids, objects[id] # None
        PROVE  objects[id] \in Objects /\ x[id] = Thing(objects[id]) /\ x[id] \in Things
    BY <1>2, <1>3, <2>1 DEF Scenes, Views
  <2> QED
    BY <2>1, ThingOf
<1>5. ASSUME NEW delta \in Deltas, Record(delta)
      PROVE  /\ Seen(objects') = ViewApply(delta, x) /\ ViewApply(delta, x) \in Views
             /\ ViewUnapply(delta, ViewApply(delta, x)) = x => Fits(x, delta, Seen(objects'))
  <2>1. objects' = Apply(delta, objects) /\ Apply(delta, objects) \in Scenes
    BY <1>2, <1>5, SeenDelta DEF Record
  <2>2. Seen(objects') = ViewApply(delta, x) /\ Seen(objects') \in Views
    BY <1>1, <1>2, <2>1, SeenDelta, SeenIsView
  <2> QED
    BY <2>2 DEF Fits
<1>6. ASSUME NEW id \in Ids, NEW S \in SUBSET Props, NEW updates \in [S -> Cells],
             Exists(objects, id), Record(SetDelta(id, updates)), UNCHANGED regular
      PROVE  \E delta \in Deltas : Record(delta) /\ Fits(x, delta, Seen(objects'))
  <2>1. objects[id] # None /\ updates \in UNION {[T -> Cells] : T \in SUBSET Props} /\ x[id] # None
    BY <1>3, <1>6 DEF Exists
  <2>2. PICK old : old = [p \in DOMAIN updates |-> objects[id].data[p]]
    OBVIOUS
  <2>3. old \in [S -> Cells] /\ old = [p \in DOMAIN updates |-> x[id].data[p]]
    BY <1>4, <2>1, <2>2 DEF Objects
  <2>4. PICK delta : delta = SetDelta(id, updates)
    OBVIOUS
  <2>5. delta = [kind |-> "set", id |-> id, new |-> updates, old |-> old]
    BY <2>2, <2>4 DEF SetDelta
  <2>6. old \in UNION {[T -> Cells] : T \in SUBSET Props}
    BY <2>3
  <2>7. delta \in Deltas
    BY <2>1, <2>5, <2>6 DEF Deltas, SetDeltas
  <2>8. Record(delta)
    BY <1>6, <2>4
  <2>9. delta.kind = "set" /\ delta.id = id /\ delta.new = updates /\ delta.old = old
    BY <2>5
  <2>10. ViewApply(delta, x) = ViewWrite(x, id, updates)
    BY <2>9 DEF ViewApply
  <2>11. ViewWrite(x, id, updates) \in Views
    BY <1>5, <2>7, <2>8, <2>10
  <2>12. ViewWrite(ViewWrite(x, id, updates), id, old) = x
    BY <1>3, <2>1, <2>3, <2>11, SetFits
  <2>13. ViewUnapply(delta, ViewApply(delta, x)) = x
    BY <2>9, <2>10, <2>12 DEF ViewUnapply
  <2> QED
    BY <1>5, <2>7, <2>8, <2>13
<1>7. ASSUME NEW id \in Ids, NEW p \in Props, NEW v \in Cells, SetProperty(id, p, v)
      PROVE  \E delta \in Deltas : Record(delta) /\ Fits(x, delta, Seen(objects'))
  <2>1. PICK S, updates : S = {p} /\ updates = [q \in {p} |-> v]
    OBVIOUS
  <2>2. S \in SUBSET Props /\ updates \in [S -> Cells]
    BY <2>1
  <2> QED
    BY <1>6, <1>7, <2>1, <2>2 DEF SetProperty
<1>8. ASSUME NEW id \in Ids, NEW S \in SUBSET Props, NEW updates \in [S -> Cells], SetProperties(id, updates)
      PROVE  \E delta \in Deltas : Record(delta) /\ Fits(x, delta, Seen(objects'))
  BY <1>6, <1>8 DEF SetProperties
<1>9. ASSUME NEW id \in Ids, NEW object \in Objects, NEW parent \in Ids \cup {None}, NEW kind \in {"add", "remove"},
             NEW delta, delta = [kind |-> kind, id |-> id, object |-> object, parent |-> parent]
      PROVE  /\ delta \in Deltas
             /\ delta.kind = kind /\ delta.id = id /\ delta.object = object /\ delta.parent = parent
  BY <1>9 DEF Deltas, PlaceDeltas
<1>10. ASSUME NEW object \in Objects PROVE Thing(object) \in Things
  <2>1. ToSet(object.children) \subseteq Ids /\ object.data \in [Props -> Cells]
    BY DEF Objects, ToSet
  <2> QED
    BY <2>1 DEF Thing, Things
<1>11. ASSUME NEW id \in Ids, NEW object \in NewObjects, NEW parent \in Ids \cup {None}, AddObject(id, object, parent)
       PROVE  \E delta \in Deltas : Record(delta) /\ (regular' => regular /\ Fits(x, delta, Seen(objects')))
  <2>1. PICK delta : delta = [kind |-> "add", id |-> id, object |-> object, parent |-> parent]
    OBVIOUS
  <2>2. object \in Objects
    BY ConstantsAssumption
  <2>3. delta \in Deltas /\ delta.kind = "add" /\ delta.id = id /\ delta.object = object /\ delta.parent = parent
    BY <1>9, <2>1, <2>2
  <2>4. Record(delta)
    BY <1>11, <2>1 DEF AddObject
  <2>5. ASSUME regular' PROVE regular /\ ViewUnapply(delta, ViewApply(delta, x)) = x
    <3>1. /\ regular /\ ~Exists(objects, id) /\ parent # id
          /\ id \notin ToSet(Children(objects, parent))
      BY <1>11, <2>5 DEF AddObject
    <3>2. x[id] = None
      BY <1>3, <3>1 DEF Exists
    <3>3. \A j \in Ids : j = parent /\ x[j] # None => id \notin x[j].children
      BY <1>3, <1>4, <3>1 DEF Exists, Children
    <3>4. ViewErase(ViewInsert(x, id, Thing(object), parent), id, parent) = x
      BY <1>3, <1>10, <2>2, <3>1, <3>2, <3>3, AddFits
    <3> QED
      BY <2>3, <3>1, <3>4 DEF ViewApply, ViewUnapply
  <2> QED
    BY <1>5, <2>3, <2>4, <2>5
<1>12. ASSUME NEW id \in Ids, RemoveObject(id)
       PROVE  \E delta \in Deltas : Record(delta) /\ (regular' => regular /\ Fits(x, delta, Seen(objects')))
  <2>1. PICK parent \in IF Parents(id) = {} THEN {None} ELSE Parents(id) :
          Record([kind |-> "remove", id |-> id, object |-> objects[id], parent |-> parent])
    BY <1>12 DEF RemoveObject
  <2>2. PICK object : object = objects[id]
    OBVIOUS
  <2>3. objects[id] # None /\ object \in Objects
    BY <1>4, <1>12, <2>2 DEF RemoveObject, Exists
  <2>4. parent \in Ids \cup {None} /\ (parent = None \/ parent \in Parents(id))
    BY <2>1 DEF Parents
  <2>5. PICK delta : delta = [kind |-> "remove", id |-> id, object |-> object, parent |-> parent]
    OBVIOUS
  <2>6. delta \in Deltas /\ delta.kind = "remove" /\ delta.id = id /\ delta.object = object /\ delta.parent = parent
    BY <1>9, <2>3, <2>4, <2>5
  <2>7. Record(delta)
    BY <2>1, <2>2, <2>5
  <2>8. ASSUME regular' PROVE regular /\ ViewUnapply(delta, ViewApply(delta, x)) = x
    <3>1. regular /\ id \notin Parents(id)
      BY <1>12, <2>8 DEF RemoveObject
    <3>2. parent # id
      BY <2>4, <3>1, ConstantsAssumption
    <3>3. x[id] = Thing(object) /\ Thing(object) \in Things
      BY <1>3, <1>10, <2>2, <2>3
    <3>4. \A j \in Ids : j = parent => x[j] # None /\ id \in x[j].children
      BY <1>3, <1>4, <2>4, ConstantsAssumption DEF Parents, Exists
    <3>5. ViewInsert(ViewErase(x, id, parent), id, Thing(object), parent) = x
      BY <1>3, <2>4, <3>2, <3>3, <3>4, RemoveFits
    <3> QED
      BY <2>6, <3>1, <3>5 DEF ViewApply, ViewUnapply
  <2> QED
    BY <1>5, <2>6, <2>7, <2>8
<1>13. regular' \in BOOLEAN
  BY <1>2 DEF UserAction, SetProperty, SetProperties, AddObject, RemoveObject
<1>14. \E delta \in Deltas : Record(delta) /\ (regular' => regular /\ Fits(x, delta, Seen(objects')))
  <2>1. CASE \E id \in Ids, p \in Props, v \in Cells : SetProperty(id, p, v)
    <3>1. PICK id \in Ids, p \in Props, v \in Cells : SetProperty(id, p, v)
      BY <2>1
    <3>2. regular' = regular
      BY <3>1 DEF SetProperty
    <3> QED
      BY <1>7, <3>1, <3>2
  <2>2. CASE \E id \in Ids, S \in SUBSET Props : \E updates \in [S -> Cells] : SetProperties(id, updates)
    <3>1. PICK id \in Ids, S \in SUBSET Props : \E updates \in [S -> Cells] : SetProperties(id, updates)
      BY <2>2
    <3>2. PICK updates \in [S -> Cells] : SetProperties(id, updates)
      BY <3>1
    <3>3. regular' = regular
      BY <3>2 DEF SetProperties
    <3> QED
      BY <1>8, <3>2, <3>3
  <2> QED
    BY <1>11, <1>12, <2>1, <2>2 DEF UserAction
<1> QED
  BY <1>1, <1>13, <1>14

------------------------------------------------------------------------------
(* Types *)

(* A push, trimmed, keeps the stack one of entries. *)
LEMMA PushStays ==
  ASSUME TypeOK, NEW entry \in Entries \ {<<>>}
  PROVE  /\ Pushed(entry) = LatestOf(Append(undoStack, entry), MaxHistory)
         /\ Pushed(entry) \in Seq(Entries \ {<<>>})
<1>1. Pushed(entry) = LatestOf(Append(undoStack, entry), MaxHistory)
  BY DEF Pushed, LatestOf
<1>2. Append(undoStack, entry) \in Seq(Entries \ {<<>>})
  BY DEF TypeOK
<1>3. MaxHistory \in Nat
  BY ConstantsAssumption
<1> QED
  BY <1>1, <1>2, <1>3, LatestEntries

(* Recording keeps the types. *)
LEMMA RecordStays ==
  ASSUME TypeOK, NEW delta \in Deltas, Record(delta), regular' \in BOOLEAN
  PROVE  TypeOK'
<1>1. objects' \in Scenes
  BY SeenDelta DEF TypeOK, Record
<1>2. edits' \in 0 .. MaxEdits
  BY ConstantsAssumption DEF TypeOK, Record, Edited
<1>3. redoStack' = <<>> /\ <<>> \in Seq(Entries \ {<<>>})
  BY EmptySeq DEF Record
<1>4. CASE open
  <2>1. pending' = Append(pending, delta) /\ UNCHANGED <<undoStack, open>>
    BY <1>4 DEF Record
  <2>2. Append(pending, delta) \in Entries
    BY DEF TypeOK, Entries
  <2> QED
    BY <1>1, <1>2, <1>3, <1>4, <2>1, <2>2 DEF TypeOK
<1>5. CASE ~open
  <2>1. undoStack' = Pushed(<<delta>>) /\ UNCHANGED <<pending, open>>
    BY <1>5 DEF Record
  <2>2. <<delta>> \in Entries \ {<<>>}
    BY DEF Entries
  <2>3. undoStack' \in Seq(Entries \ {<<>>})
    BY <2>1, <2>2, PushStays
  <2> QED
    BY <1>1, <1>2, <1>3, <1>5, <2>1, <2>3 DEF TypeOK
<1> QED
  BY <1>4, <1>5 DEF TypeOK

(* So do undo and redo: the scene is still one, and an entry changes its stack. *)
LEMMA RunStays ==
  ASSUME TypeOK, Undo \/ Redo
  PROVE  TypeOK'
<1>1. CASE Undo
  <2>1. Front(undoStack) \in Seq(Entries \ {<<>>}) /\ Last(undoStack) \in Entries \ {<<>>}
    BY <1>1, EndEntries DEF TypeOK, Undo
  <2>2. objects' \in Scenes
    BY <1>1, <2>1, BackwardLeads DEF TypeOK, Undo
  <2>3. redoStack' \in Seq(Entries \ {<<>>}) /\ undoStack' \in Seq(Entries \ {<<>>})
    BY <1>1, <2>1 DEF TypeOK, Undo
  <2> QED
    BY <1>1, <2>2, <2>3 DEF TypeOK, Undo
<1>2. CASE Redo
  <2>1. Front(redoStack) \in Seq(Entries \ {<<>>}) /\ Last(redoStack) \in Entries \ {<<>>}
    BY <1>2, EndEntries DEF TypeOK, Redo
  <2>2. objects' \in Scenes
    BY <1>2, <2>1, ForwardLeads DEF TypeOK, Redo
  <2>3. redoStack' \in Seq(Entries \ {<<>>}) /\ undoStack' \in Seq(Entries \ {<<>>})
    BY <1>2, <2>1 DEF TypeOK, Redo
  <2> QED
    BY <1>2, <2>2, <2>3 DEF TypeOK, Redo
<1> QED
  BY <1>1, <1>2

(* What the system brings is a scene. *)
LEMMA SystemStays ==
  ASSUME TypeOK, SystemAction
  PROVE  TypeOK'
<1>1. ASSUME objects' \in Scenes, Edited, regular' \in BOOLEAN, UNCHANGED <<undoStack, redoStack, open, pending>>
      PROVE  TypeOK'
  BY <1>1, ConstantsAssumption DEF TypeOK, Edited
<1>2. CASE SyncFromEngine
  BY <1>1, <1>2, ConstantsAssumption DEF SyncFromEngine, TypeOK
<1>3. ASSUME NEW S \in SUBSET Ids, NEW loaded \in [S -> NewObjects], LoadObjects(loaded) PROVE TypeOK'
  <2>1. objects \in Scenes /\ NewObjects \subseteq Objects
    BY ConstantsAssumption DEF TypeOK
  <2>2. objects' = [id \in Ids |-> IF id \in S THEN loaded[id] ELSE objects[id]]
    BY <1>3 DEF LoadObjects
  <2>3. objects' \in Scenes
    BY <2>1, <2>2 DEF Scenes
  <2> QED
    BY <1>1, <1>3, <2>3 DEF LoadObjects, TypeOK
<1> QED
  BY <1>2, <1>3 DEF SystemAction

(* What initialize leaves has them. *)
LEMMA Start == Init => TypeOK
<1>1. <<>> \in Seq(Entries \ {<<>>}) /\ <<>> \in Entries
  BY EmptySeq DEF Entries
<1>2. InitialScenes \subseteq Scenes /\ 0 \in 0 .. MaxEdits
  BY ConstantsAssumption
<1>3. ASSUME Init PROVE objects \in Scenes /\ undoStack = <<>> /\ redoStack = <<>> /\ pending = <<>>
  BY <1>2, <1>3 DEF Init
<1>4. ASSUME Init PROVE edits \in 0 .. MaxEdits /\ open \in BOOLEAN /\ regular \in BOOLEAN
  BY <1>2, <1>4 DEF Init
<1> QED
  BY <1>1, <1>3, <1>4 DEF TypeOK

(* Every step keeps the types. *)
LEMMA Step == ASSUME TypeOK, [Next]_vars PROVE TypeOK'
<1>1. <<>> \in Seq(Entries \ {<<>>}) /\ <<>> \in Entries
  BY EmptySeq DEF Entries
<1>2. CASE UserAction
  BY <1>2, UserRecords, RecordStays
<1>3. CASE ClearHistory
  BY <1>1, <1>3 DEF ClearHistory, TypeOK
<1>4. CASE BeginTransaction
  BY <1>1, <1>4 DEF BeginTransaction, TypeOK
<1>5. CASE EndTransaction
  <2>1. pending # <<>> => Pushed(pending) \in Seq(Entries \ {<<>>})
    BY PushStays DEF TypeOK
  <2> QED
    BY <1>1, <1>5, <2>1 DEF EndTransaction, TypeOK
<1>6. CASE UNCHANGED vars
  BY <1>6 DEF vars, TypeOK
<1> QED
  BY <1>2, <1>3, <1>4, <1>5, <1>6, RunStays, SystemStays DEF Next

(* Deltas, entries and scenes have their types, no entry of a stack is empty, and
   only an open transaction holds deltas. *)
THEOREM Typed == Spec => []TypeOK
BY Start, Step, PTL DEF Spec

------------------------------------------------------------------------------
(* The history fits, whatever the deltas do to the scene. *)

(* Both stacks are sequences, of whatever entries they happen to hold. *)
Stacks ==
  /\ undoStack \in Seq(ToSet(undoStack))
  /\ redoStack \in Seq(ToSet(redoStack))

BoundInv == Stacks /\ HistoryBounded

(* A push that trims leaves at most max_history entries. *)
LEMMA PushFits ==
  ASSUME NEW entry, Stacks, HistoryBounded
  PROVE  Pushed(entry) \in Seq(ToSet(Pushed(entry))) /\ Len(Pushed(entry)) <= MaxHistory
<1> DEFINE grown == Append(undoStack, entry)
<1>1. grown \in Seq(ToSet(grown)) /\ Len(grown) = Len(undoStack) + 1 /\ Len(undoStack) \in Nat
  BY Grow DEF Stacks
<1>2. Len(redoStack) \in Nat
  BY DEF Stacks
<1>3. Len(undoStack) <= MaxHistory /\ MaxHistory \in Nat
  BY <1>1, <1>2, ConstantsAssumption DEF HistoryBounded
<1>4. CASE Len(grown) > MaxHistory
  <2>1. grown # <<>>
    BY <1>1
  <2>2. Pushed(entry) = Tail(grown)
    BY <1>4 DEF Pushed
  <2>3. Tail(grown) \in Seq(ToSet(Tail(grown))) /\ Len(Tail(grown)) = Len(grown) - 1
    BY <1>1, <2>1, Drop
  <2> QED
    BY <1>1, <1>3, <2>2, <2>3
<1>5. CASE ~(Len(grown) > MaxHistory)
  BY <1>1, <1>3, <1>5 DEF Pushed
<1> QED
  BY <1>4, <1>5

(* The three ways a step may change the stacks. *)
Trims == \E entry : undoStack' = Pushed(entry) /\ redoStack' = <<>>
Moves ==
  \/ /\ undoStack # <<>>
     /\ undoStack' = Front(undoStack) /\ redoStack' = Append(redoStack, Last(undoStack))
  \/ /\ redoStack # <<>>
     /\ redoStack' = Front(redoStack) /\ undoStack' = Append(undoStack, Last(redoStack))
Drops == undoStack' \in {<<>>, undoStack} /\ redoStack' \in {<<>>, redoStack}

(* Every step is one of them. *)
LEMMA StackChanges == ASSUME [Next]_vars PROVE Trims \/ Moves \/ Drops
<1>1. ASSUME NEW delta, Record(delta) PROVE Trims \/ Drops
  BY <1>1 DEF Record, Trims, Drops
<1>2. CASE Undo
  BY <1>2 DEF Undo, Moves, Front, Last
<1>3. CASE Redo
  BY <1>3 DEF Redo, Moves, Front, Last
<1>4. CASE ClearHistory
  BY <1>4 DEF ClearHistory, Drops
<1>5. CASE UserAction
  BY <1>1, <1>5 DEF UserAction, SetProperty, SetProperties, AddObject, RemoveObject
<1>6. CASE BeginTransaction
  BY <1>6 DEF BeginTransaction, Drops
<1>7. CASE EndTransaction
  BY <1>7 DEF EndTransaction, Trims, Drops
<1>8. CASE SystemAction
  BY <1>8 DEF SystemAction, SyncFromEngine, LoadObjects, Drops
<1>9. CASE UNCHANGED vars
  BY <1>9 DEF vars, Drops
<1> QED
  BY <1>2, <1>3, <1>4, <1>5, <1>6, <1>7, <1>8, <1>9 DEF Next

(* The invariant is inductive. *)
LEMMA BoundStep == ASSUME BoundInv, [Next]_vars PROVE BoundInv'
<1> USE DEF BoundInv
<1>1. Len(undoStack) \in Nat /\ Len(redoStack) \in Nat /\ MaxHistory \in Nat
  BY ConstantsAssumption DEF Stacks
<1>2. CASE Trims
  <2>1. PICK entry : undoStack' = Pushed(entry) /\ redoStack' = <<>>
    BY <1>2 DEF Trims
  <2>2. undoStack' \in Seq(ToSet(undoStack')) /\ Len(undoStack') <= MaxHistory
    BY <2>1, PushFits
  <2>3. redoStack' \in Seq(ToSet(redoStack')) /\ Len(redoStack') = 0
    BY <2>1, Nothing
  <2>4. Len(undoStack') \in Nat
    BY <2>2
  <2> QED
    BY <1>1, <2>2, <2>3, <2>4 DEF Stacks, HistoryBounded
<1>3. CASE Moves
  <2>1. CASE /\ undoStack # <<>>
             /\ undoStack' = Front(undoStack) /\ redoStack' = Append(redoStack, Last(undoStack))
    <3>1. undoStack' \in Seq(ToSet(undoStack')) /\ Len(undoStack') = Len(undoStack) - 1
      BY <2>1, Drop DEF Stacks
    <3>2. redoStack' \in Seq(ToSet(redoStack')) /\ Len(redoStack') = Len(redoStack) + 1
      BY <2>1, Grow DEF Stacks
    <3> QED
      BY <1>1, <3>1, <3>2 DEF Stacks, HistoryBounded
  <2>2. CASE /\ redoStack # <<>>
             /\ redoStack' = Front(redoStack) /\ undoStack' = Append(undoStack, Last(redoStack))
    <3>1. redoStack' \in Seq(ToSet(redoStack')) /\ Len(redoStack') = Len(redoStack) - 1
      BY <2>2, Drop DEF Stacks
    <3>2. undoStack' \in Seq(ToSet(undoStack')) /\ Len(undoStack') = Len(undoStack) + 1
      BY <2>2, Grow DEF Stacks
    <3> QED
      BY <1>1, <3>1, <3>2 DEF Stacks, HistoryBounded
  <2> QED
    BY <1>3, <2>1, <2>2 DEF Moves
<1>4. CASE Drops
  <2>1. undoStack' \in Seq(ToSet(undoStack')) /\ Len(undoStack') \in Nat /\ Len(undoStack') <= Len(undoStack)
    BY <1>4, Shrink DEF Stacks, Drops
  <2>2. redoStack' \in Seq(ToSet(redoStack')) /\ Len(redoStack') \in Nat /\ Len(redoStack') <= Len(redoStack)
    BY <1>4, Shrink DEF Stacks, Drops
  <2> QED
    BY <1>1, <2>1, <2>2 DEF Stacks, HistoryBounded
<1> QED
  BY <1>2, <1>3, <1>4, StackChanges
(* The two stacks together never hold more than max_history steps, although
   Redo pushes without a check (delta_undo.cpp:308): it only moves an entry
   that Undo had moved, and every other push empties the redo stack. *)
THEOREM Bounded == Spec => []HistoryBounded
<1>1. Init => BoundInv
  BY Nothing, ConstantsAssumption DEF Init, BoundInv, Stacks, HistoryBounded
<1>2. BoundInv /\ [Next]_vars => BoundInv'
  BY BoundStep
<1>3. BoundInv => HistoryBounded
  BY DEF BoundInv
<1> QED
  BY <1>1, <1>2, <1>3, PTL DEF Spec

------------------------------------------------------------------------------
(* Every step goes along the line. *)

Advances(p, q, f) == \E r, s, g : HasLine(r, s, g)' /\ Follows(p, q, f, r, s, g)

(* What the lemmas below start from *)
OnLine(p, q, f) == TypeOK /\ TypeOK' /\ HasLine(p, q, f)

(* The types both states of a step have. *)
LEMMA OnLineTypes ==
  ASSUME NEW p, NEW q, NEW f, OnLine(p, q, f)
  PROVE  /\ undoStack \in Seq(Entries \ {<<>>}) /\ redoStack \in Seq(Entries \ {<<>>})
         /\ undoStack' \in Seq(Entries \ {<<>>}) /\ redoStack' \in Seq(Entries \ {<<>>})
         /\ pending \in Entries /\ pending' \in Entries
         /\ objects \in Scenes /\ objects' \in Scenes
         /\ Seen(objects) \in Views /\ Seen(objects') \in Views
         /\ q \in Views /\ p \in Seq(Views) /\ f \in Seq(Views)
         /\ IsLine(Views, Links, p, q, f, undoStack, redoStack) /\ Leads(q, pending, Seen(objects))
         /\ (~open => pending = <<>> /\ q = Seen(objects))
<1>1. objects \in Scenes /\ objects' \in Scenes
  BY DEF OnLine, TypeOK
<1>2. IsLine(Views, Links, p, q, f, undoStack, redoStack) /\ Leads(q, pending, Seen(objects))
  BY DEF OnLine, HasLine
<1>3. q \in Views /\ p \in Seq(Views) /\ f \in Seq(Views)
  BY <1>2 DEF IsLine
<1>4. ~open => pending = <<>> /\ q = Seen(objects)
  BY <1>2, LeadsNowhere DEF OnLine, TypeOK
<1>5. Seen(objects) \in Views /\ Seen(objects') \in Views
  BY <1>1, SeenIsView
<1> QED
  BY <1>1, <1>2, <1>3, <1>4, <1>5 DEF OnLine, TypeOK

(* The line stays, or only loses its future. *)
LEMMA Stay ==
  ASSUME NEW p, NEW q, NEW f, OnLine(p, q, f), UNCHANGED undoStack,
         redoStack' = redoStack \/ redoStack' = <<>>, Leads(q, pending', Seen(objects'))
  PROVE  Advances(p, q, f)
<1>1. CASE redoStack' = redoStack
  <2>1. HasLine(p, q, f)'
    BY <1>1, OnLineTypes DEF HasLine
  <2> QED
    BY <2>1 DEF Advances, Follows
<1>2. CASE redoStack' = <<>>
  <2>1. IsLine(Views, Links, p, q, f, undoStack, redoStack)
    BY OnLineTypes
  <2>2. <<>> \in Seq(Views) /\ Len(<<>>) = 0 /\ 1 .. 0 = {}
    BY EmptySeq
  <2>3. IsLine(Views, Links, p, q, <<>>, undoStack, <<>>)
    BY <2>1, <2>2 DEF IsLine
  <2>4. HasLine(p, q, <<>>)'
    BY <1>2, <2>3 DEF HasLine
  <2> QED
    BY <2>4 DEF Advances, Follows
<1> QED
  BY <1>1, <1>2

(* An entry is pushed: the line goes on from where it leads. *)
LEMMA PushAdvances ==
  ASSUME NEW p, NEW q, NEW f, OnLine(p, q, f),
         NEW entry \in Entries \ {<<>>}, NEW y \in Views, Leads(q, entry, y),
         undoStack' = Pushed(entry), redoStack' = <<>>, Leads(y, pending', Seen(objects'))
  PROVE  Advances(p, q, f)
<1>1. <<q, entry, y>> \in Links
  BY OnLineTypes, LeadsLink
<1>2. IsLine(Views, Links, LatestOf(Append(p, q), MaxHistory), y, <<>>, LatestOf(Append(undoStack, entry), MaxHistory), <<>>)
  <2>1. /\ IsLine(Views, Links, p, q, f, undoStack, redoStack) /\ MaxHistory \in Nat
        /\ undoStack \in Seq(Entries \ {<<>>}) /\ redoStack \in Seq(Entries \ {<<>>})
    BY OnLineTypes, ConstantsAssumption
  <2> QED
    BY <1>1, <2>1, LineEdit
<1>3. Pushed(entry) = LatestOf(Append(undoStack, entry), MaxHistory)
  BY PushStays DEF OnLine
<1>4. HasLine(LatestOf(Append(p, q), MaxHistory), y, <<>>)'
  BY <1>2, <1>3 DEF HasLine
<1>5. Follows(p, q, f, LatestOf(Append(p, q), MaxHistory), y, <<>>)
  BY DEF Follows
<1> QED
  BY <1>4, <1>5 DEF Advances

(* A delta that fits is recorded, in a transaction or on its own. *)
LEMMA RecordAdvances ==
  ASSUME NEW p, NEW q, NEW f, OnLine(p, q, f),
         NEW delta \in Deltas, Record(delta), Fits(Seen(objects), delta, Seen(objects'))
  PROVE  Advances(p, q, f)
<1>1. /\ pending \in Entries /\ Leads(q, pending, Seen(objects))
      /\ Seen(objects) \in Views /\ Seen(objects') \in Views
      /\ (~open => pending = <<>> /\ q = Seen(objects))
  BY OnLineTypes
<1>2. CASE open
  <2>1. pending' = Append(pending, delta) /\ UNCHANGED undoStack /\ redoStack' = <<>>
    BY <1>2 DEF Record
  <2>2. pending \in Seq(Deltas)
    BY <1>1 DEF Entries
  <2>3. Leads(q, Append(pending, delta), Seen(objects'))
    BY <1>1, <2>2, LeadsOn
  <2> QED
    BY <2>1, <2>3, Stay
<1>3. CASE ~open
  <2>1. pending' = <<>> /\ undoStack' = Pushed(<<delta>>) /\ redoStack' = <<>>
    BY <1>1, <1>3 DEF Record
  <2>2. Leads(q, <<delta>>, Seen(objects')) /\ Leads(Seen(objects'), <<>>, Seen(objects'))
    BY <1>1, <1>3, LeadsOnce, LeadsNowhere
  <2>3. <<delta>> \in Entries \ {<<>>}
    BY DEF Entries
  <2> QED
    BY <1>1, <2>1, <2>2, <2>3, PushAdvances
<1> QED
  BY <1>2, <1>3

(* Undo and redo, outside a transaction, walk along the line. *)
LEMMA RunAdvances ==
  ASSUME NEW p, NEW q, NEW f, OnLine(p, q, f), ~open, Undo \/ Redo
  PROVE  Advances(p, q, f)
<1>1. /\ undoStack \in Seq(Entries \ {<<>>}) /\ redoStack \in Seq(Entries \ {<<>>})
      /\ objects \in Scenes /\ pending = <<>> /\ q = Seen(objects) /\ q \in Views
      /\ p \in Seq(Views) /\ f \in Seq(Views) /\ Seen(objects') \in Views
      /\ IsLine(Views, Links, p, q, f, undoStack, redoStack)
  BY OnLineTypes
<1>2. Leads(Seen(objects'), <<>>, Seen(objects'))
  BY <1>1, LeadsNowhere
<1>3. CASE Undo
  <2>1. /\ undoStack # <<>> /\ objects' = UnapplyAll(Last(undoStack), objects) /\ pending' = <<>>
        /\ undoStack' = Front(undoStack) /\ redoStack' = Append(redoStack, Last(undoStack))
    BY <1>1, <1>3 DEF Undo
  <2>2. /\ p # <<>> /\ <<Last(p), Last(undoStack), q>> \in Links
        /\ IsLine(Views, Links, Front(p), Last(p), Append(f, q), Front(undoStack), Append(redoStack, Last(undoStack)))
    BY <1>1, <2>1, LineUndo
  <2>3. PICK entry : entry = Last(undoStack) /\ entry \in Entries
    BY <1>1, <2>1, EndEntries
  <2>4. Seen(objects') = Last(p)
    BY <1>1, <2>1, <2>2, <2>3, LinkLeads, BackwardLeads
  <2>5. HasLine(Front(p), Last(p), Append(f, q))'
    BY <1>2, <2>1, <2>2, <2>4 DEF HasLine
  <2>6. Follows(p, q, f, Front(p), Last(p), Append(f, q))
    BY <2>2 DEF Follows, Front, Last
  <2> QED
    BY <2>5, <2>6 DEF Advances
<1>4. CASE Redo
  <2>1. /\ redoStack # <<>> /\ objects' = ApplyAll(Last(redoStack), objects) /\ pending' = <<>>
        /\ redoStack' = Front(redoStack) /\ undoStack' = Append(undoStack, Last(redoStack))
    BY <1>1, <1>4 DEF Redo
  <2>7. Links \subseteq Views \X (Entries \ {<<>>}) \X Views
    BY DEF Links
  <2>2. /\ f # <<>> /\ <<q, Last(redoStack), Last(f)>> \in Links
        /\ IsLine(Views, Links, Append(p, q), Last(f), Front(f), Append(undoStack, Last(redoStack)), Front(redoStack))
    BY <1>1, <2>1, <2>7, LineRedo
  <2>3. PICK entry : entry = Last(redoStack) /\ entry \in Entries
    BY <1>1, <2>1, EndEntries
  <2>4. Seen(objects') = Last(f)
    BY <1>1, <2>1, <2>2, <2>3, LinkLeads, ForwardLeads
  <2>5. HasLine(Append(p, q), Last(f), Front(f))'
    BY <1>2, <2>1, <2>2, <2>4 DEF HasLine
  <2>6. Follows(p, q, f, Append(p, q), Last(f), Front(f))
    BY <2>2 DEF Follows, Front, Last
  <2> QED
    BY <2>5, <2>6 DEF Advances
<1> QED
  BY <1>3, <1>4

(* A transaction begins with nothing in it, and ends as one step or none. *)
LEMMA TransactionAdvances ==
  ASSUME NEW p, NEW q, NEW f, OnLine(p, q, f), regular', BeginTransaction \/ EndTransaction
  PROVE  Advances(p, q, f)
<1>1. /\ pending \in Entries /\ Leads(q, pending, Seen(objects)) /\ Seen(objects) \in Views
      /\ Leads(Seen(objects), <<>>, Seen(objects))
  BY OnLineTypes, LeadsNowhere
<1>2. objects' = objects /\ Seen(objects') = Seen(objects) /\ pending' = <<>>
  BY DEF BeginTransaction, EndTransaction
<1>3. CASE pending = <<>>
  <2>1. UNCHANGED <<undoStack, redoStack>>
    BY <1>3 DEF BeginTransaction, EndTransaction
  <2> QED
    BY <1>1, <1>2, <1>3, <2>1, Stay
<1>4. CASE pending # <<>>
  <2>1. undoStack' = Pushed(pending) /\ redoStack' = <<>>
    BY <1>4 DEF BeginTransaction, EndTransaction
  <2> QED
    BY <1>1, <1>2, <1>4, <2>1, PushAdvances
<1> QED
  BY <1>3, <1>4

(* After ClearHistory the line is the present alone. *)
LEMMA ClearAdvances ==
  ASSUME TypeOK, ClearHistory
  PROVE  /\ HasLine(<<>>, Seen(objects), <<>>)'
         /\ \A p, q, f : OnLine(p, q, f) /\ regular' => Advances(p, q, f)
<1>1. objects' = objects /\ undoStack' = <<>> /\ redoStack' = <<>> /\ pending' = <<>> /\ (regular' => ~open)
  BY DEF ClearHistory
<1>2. Seen(objects) \in Views
  BY SeenIsView DEF TypeOK
<1>3. IsLine(Views, Links, <<>>, Seen(objects), <<>>, <<>>, <<>>)
  <2>1. <<>> \in Seq(Views) /\ Len(<<>>) = 0 /\ 1 .. 0 = {}
    BY EmptySeq
  <2> QED
    BY <1>2, <2>1 DEF IsLine
<1>4. HasLine(<<>>, Seen(objects), <<>>)'
  BY <1>1, <1>2, <1>3, LeadsNowhere DEF HasLine
<1>5. ASSUME NEW p, NEW q, NEW f, OnLine(p, q, f), regular' PROVE Advances(p, q, f)
  <2>1. q = Seen(objects')
    BY <1>1, <1>5, OnLineTypes
  <2>2. HasLine(<<>>, q, <<>>)'
    BY <1>1, <1>3, <1>2, <2>1, LeadsNowhere DEF HasLine
  <2>3. Follows(p, q, f, <<>>, q, <<>>)
    BY DEF Follows
  <2> QED
    BY <2>2, <2>3 DEF Advances
<1> QED
  BY <1>4, <1>5

(* The views with some objects as they are now *)
Shift(touched, now, z) == [id \in Ids |-> IF id \in touched THEN now[id] ELSE z[id]]

(* A delta does the same beside what it does not look up, *)
LEMMA FitsShift ==
  ASSUME NEW touched \in SUBSET Ids, NEW now \in Views, NEW delta \in Deltas,
         delta.id \notin touched, delta.kind # "set" => delta.parent \notin touched,
         NEW x \in Views, NEW y \in Views, Fits(x, delta, y)
  PROVE  Fits(Shift(touched, now, x), delta, Shift(touched, now, y))
<1>1. ASSUME NEW z \in Views, NEW id \in Ids \ touched, NEW updates
      PROVE  ViewWrite(Shift(touched, now, z), id, updates) = Shift(touched, now, ViewWrite(z, id, updates))
  BY DEF ViewWrite, Shift
<1>2. ASSUME NEW z \in Views, NEW id \in Ids \ touched, NEW thing, NEW parent, parent \notin touched
      PROVE  /\ ViewInsert(Shift(touched, now, z), id, thing, parent)
                  = Shift(touched, now, ViewInsert(z, id, thing, parent))
             /\ ViewErase(Shift(touched, now, z), id, parent) = Shift(touched, now, ViewErase(z, id, parent))
  BY <1>2 DEF ViewInsert, ViewErase, Shift
<1>3. ASSUME NEW z \in Views
      PROVE  /\ ViewApply(delta, Shift(touched, now, z)) = Shift(touched, now, ViewApply(delta, z))
             /\ ViewUnapply(delta, Shift(touched, now, z)) = Shift(touched, now, ViewUnapply(delta, z))
  <2>1. delta.id \in Ids \ touched
    BY DEF Deltas, SetDeltas, PlaceDeltas
  <2>2. delta.kind \in {"set", "add", "remove"}
    BY DEF Deltas, SetDeltas, PlaceDeltas
  <2>3. CASE delta.kind = "set"
    BY <1>1, <2>1, <2>3 DEF ViewApply, ViewUnapply
  <2>4. CASE delta.kind = "add"
    BY <1>2, <2>1, <2>4 DEF ViewApply, ViewUnapply
  <2>5. CASE delta.kind = "remove"
    BY <1>2, <2>1, <2>5 DEF ViewApply, ViewUnapply
  <2> QED
    BY <2>2, <2>3, <2>4, <2>5
<1> QED
  BY <1>3 DEF Fits

(* ... and so does an entry. *)
LEMMA LeadsShift ==
  ASSUME NEW touched \in SUBSET Ids, NEW now \in Views, NEW entry \in Entries,
         \A i \in DOMAIN entry : /\ entry[i].id \notin touched
                                 /\ entry[i].kind # "set" => entry[i].parent \notin touched,
         NEW x, NEW y, Leads(x, entry, y)
  PROVE  Leads(Shift(touched, now, x), entry, Shift(touched, now, y))
<1> DEFINE n == Len(entry)
<1>1. n \in Nat /\ DOMAIN entry = 1 .. n /\ \A i \in 1 .. n : entry[i] \in Deltas
  BY DEF Entries
<1>2. PICK mid : Way(mid, x, entry, y)
  BY DEF Leads
<1> HIDE DEF n
<1>3. /\ mid \in [1 .. n + 1 -> Views] /\ mid[1] = x /\ mid[n + 1] = y
      /\ \A i \in 1 .. n : Fits(mid[i], entry[i], mid[i + 1])
  BY <1>2 DEF Way, n
<1>4. \A z \in Views : Shift(touched, now, z) \in Views
  BY DEF Shift, Views
<1>5. PICK far : far = [i \in 1 .. n + 1 |-> Shift(touched, now, mid[i])]
  OBVIOUS
<1>6. far \in [1 .. n + 1 -> Views] /\ \A i \in 1 .. n + 1 : far[i] = Shift(touched, now, mid[i])
  BY <1>3, <1>4, <1>5
<1>7. ASSUME NEW i \in 1 .. n PROVE Fits(far[i], entry[i], far[i + 1])
  <2>1. i \in 1 .. n + 1 /\ i + 1 \in 1 .. n + 1
    BY <1>1
  <2>2. PICK u, v, d : u = mid[i] /\ v = mid[i + 1] /\ d = entry[i]
    OBVIOUS
  <2>3. /\ u \in Views /\ v \in Views /\ d \in Deltas /\ Fits(u, d, v)
        /\ d.id \notin touched /\ (d.kind # "set" => d.parent \notin touched)
    BY <1>1, <1>3, <2>1, <2>2
  <2>4. Fits(Shift(touched, now, u), d, Shift(touched, now, v))
    BY <2>3, FitsShift
  <2> QED
    BY <1>6, <2>1, <2>2, <2>4
<1>8. 1 \in 1 .. n + 1 /\ n + 1 \in 1 .. n + 1
  BY <1>1
<1>9. Way(far, Shift(touched, now, x), entry, Shift(touched, now, y))
  BY <1>3, <1>6, <1>7, <1>8 DEF Way, n
<1> QED
  BY <1>9 DEF Leads

(* A change that is not recorded, of objects no recorded delta looks up *)
LEMMA UnrecordedAdvances ==
  ASSUME NEW p, NEW q, NEW f, OnLine(p, q, f),
         NEW touched \in SUBSET Ids, touched \cap Mentioned = {},
         UNCHANGED <<undoStack, redoStack, pending>>,
         \A id \in Ids \ touched : objects'[id] = objects[id]
  PROVE  Advances(p, q, f)
<1>1. /\ undoStack \in Seq(Entries \ {<<>>}) /\ redoStack \in Seq(Entries \ {<<>>}) /\ pending \in Entries
      /\ objects \in Scenes /\ objects' \in Scenes /\ Seen(objects) \in Views /\ Seen(objects') \in Views
      /\ q \in Views /\ p \in Seq(Views) /\ f \in Seq(Views)
      /\ IsLine(Views, Links, p, q, f, undoStack, redoStack) /\ Leads(q, pending, Seen(objects))
  BY OnLineTypes
<1>2. PICK now : now = Seen(objects') /\ now \in Views
  BY <1>1
<1>3. Shift(touched, now, Seen(objects)) = now
  <2>1. \A id \in Ids \ touched : Seen(objects')[id] = Seen(objects)[id]
    BY DEF Seen
  <2>2. now = [id \in Ids |-> now[id]]
    BY <1>2 DEF Views
  <2>3. \A id \in Ids : (IF id \in touched THEN now[id] ELSE Seen(objects)[id]) = now[id]
    BY <1>2, <2>1
  <2> QED
    BY <2>2, <2>3 DEF Shift
<1>4. \A z \in Views : Shift(touched, now, z) \in Views
  BY <1>2 DEF Shift, Views
<1>6. ASSUME NEW e \in ToSet(undoStack) \cup ToSet(redoStack) \cup {pending}, NEW i \in DOMAIN e
      PROVE  e[i].id \notin touched /\ (e[i].kind # "set" => e[i].parent \notin touched)
  <2>1. e[i].id \in Mentioned /\ (e[i].kind # "set" => e[i].parent \in Mentioned)
    BY DEF Mentioned
  <2> QED
    BY <2>1
<1>7. ASSUME NEW x, NEW y, NEW e \in ToSet(undoStack) \cup ToSet(redoStack) \cup {pending}, Leads(x, e, y)
      PROVE  Leads(Shift(touched, now, x), e, Shift(touched, now, y))
  <2>1. e \in Entries
    BY <1>1 DEF ToSet
  <2> QED
    BY <1>2, <1>6, <1>7, <2>1, LeadsShift
<1>8. PICK With : With = [z \in Views |-> Shift(touched, now, z)]
  OBVIOUS
<1>9. With \in [Views -> Views] /\ \A z \in Views : With[z] = Shift(touched, now, z)
  BY <1>4, <1>8
<1>10. ASSUME NEW x \in Views, NEW y \in Views, NEW e \in ToSet(undoStack) \cup ToSet(redoStack),
              <<x, e, y>> \in Links
       PROVE  <<With[x], e, With[y]>> \in Links
  <2>1. Leads(With[x], e, With[y])
    BY <1>7, <1>9, <1>10, LinkLeads
  <2>2. e \in Entries \ {<<>>}
    BY <1>1 DEF ToSet
  <2>3. With[x] \in Views /\ With[y] \in Views
    BY <1>9
  <2> QED
    BY <2>1, <2>2, <2>3, LeadsLink
<1>11. PICK r, s, g : /\ r = [i \in DOMAIN p |-> With[p[i]]] /\ s = With[q]
                      /\ g = [i \in DOMAIN f |-> With[f[i]]]
  OBVIOUS
<1>12. IsLine(Views, Links, r, s, g, undoStack, redoStack)
  <2>1. PICK C, S, L, u, d : C = Entries \ {<<>>} /\ S = Views /\ L = Links /\ u = undoStack /\ d = redoStack
    OBVIOUS
  <2>2. u \in Seq(C) /\ d \in Seq(C) /\ IsLine(S, L, p, q, f, u, d) /\ With \in [S -> S]
    BY <1>1, <1>9, <2>1
  <2>3. ASSUME NEW x \in S, NEW y \in S, NEW e \in ToSet(u) \cup ToSet(d), <<x, e, y>> \in L
        PROVE  <<With[x], e, With[y]>> \in L
    BY <1>10, <2>1, <2>3
  <2>4. IsLine(S, L, r, s, g, u, d)
    BY <1>11, <2>2, <2>3, LineLoad
  <2> QED
    BY <2>1, <2>4
<1>13. Leads(s, pending, now)
  <2>1. Leads(Shift(touched, now, q), pending, Shift(touched, now, Seen(objects)))
    BY <1>1, <1>7
  <2> QED
    BY <1>1, <1>3, <1>9, <1>11, <2>1
<1>14. HasLine(r, s, g)'
  BY <1>2, <1>12, <1>13 DEF HasLine
<1>15. Follows(p, q, f, r, s, g)
  <2>1. s = Shift(touched, now, q) /\ \A id \in touched : s[id] = now[id]
    BY <1>1, <1>9, <1>11 DEF Shift
  <2>2. \A z : [id \in Ids |-> IF id \in touched THEN s[id] ELSE z[id]] = Shift(touched, now, z)
    BY <2>1 DEF Shift
  <2>3. \A z \in Views : With[z] = [id \in Ids |-> IF id \in touched THEN s[id] ELSE z[id]]
    BY <1>9, <2>2
  <2>5. s \in Views /\ s = [id \in Ids |-> IF id \in touched THEN s[id] ELSE q[id]]
    BY <1>1, <1>9, <1>11, <2>3
  <2>6. \A t \in Seq(Views) : \A i \in DOMAIN t : t[i] \in Views
    OBVIOUS
  <2>7. r = [i \in DOMAIN p |-> [id \in Ids |-> IF id \in touched THEN s[id] ELSE p[i][id]]]
    <3>1. \A i \in DOMAIN p : With[p[i]] = [id \in Ids |-> IF id \in touched THEN s[id] ELSE p[i][id]]
      BY <1>1, <2>3, <2>6
    <3> QED
      BY <1>11, <3>1
  <2>8. g = [i \in DOMAIN f |-> [id \in Ids |-> IF id \in touched THEN s[id] ELSE f[i][id]]]
    <3>1. \A i \in DOMAIN f : With[f[i]] = [id \in Ids |-> IF id \in touched THEN s[id] ELSE f[i][id]]
      BY <1>1, <2>3, <2>6
    <3> QED
      BY <1>11, <3>1
  <2>4. /\ s \in Views /\ s = [id \in Ids |-> IF id \in touched THEN s[id] ELSE q[id]]
        /\ r = [i \in DOMAIN p |-> [id \in Ids |-> IF id \in touched THEN s[id] ELSE p[i][id]]]
        /\ g = [i \in DOMAIN f |-> [id \in Ids |-> IF id \in touched THEN s[id] ELSE f[i][id]]]
    BY <2>5, <2>7, <2>8, Zenon
  <2> QED
    BY <2>4 DEF Follows
<1> QED
  BY <1>14, <1>15 DEF Advances

(* What the system brings is in every view of the line at once. *)
LEMMA SystemAdvances ==
  ASSUME NEW p, NEW q, NEW f, OnLine(p, q, f), regular', SystemAction
  PROVE  Advances(p, q, f)
<1>1. CASE SyncFromEngine
  <2>1. undoStack = <<>> /\ redoStack = <<>> /\ ~open /\ UNCHANGED <<undoStack, redoStack, pending>>
    BY <1>1 DEF SyncFromEngine
  <2>2. pending = <<>>
    BY <2>1, OnLineTypes
  <2>3. ToSet(<<>>) = {} /\ DOMAIN <<>> = {}
    BY DEF ToSet
  <2>4. Mentioned = {}
    BY <2>1, <2>2, <2>3 DEF Mentioned
  <2>5. Ids \in SUBSET Ids /\ Ids \cap Mentioned = {} /\ \A id \in Ids \ Ids : objects'[id] = objects[id]
    BY <2>4
  <2> QED
    BY <2>1, <2>5, UnrecordedAdvances
<1>2. ASSUME NEW S \in SUBSET Ids, NEW loaded \in [S -> NewObjects], LoadObjects(loaded)
      PROVE  Advances(p, q, f)
  <2>1. S \cap Mentioned = {} /\ UNCHANGED <<undoStack, redoStack, pending>>
    BY <1>2 DEF LoadObjects
  <2>2. \A id \in Ids \ S : objects'[id] = objects[id]
    BY <1>2 DEF LoadObjects
  <2> QED
    BY <2>1, <2>2, UnrecordedAdvances
<1> QED
  BY <1>1, <1>2 DEF SystemAction

(* Every step moves on along the line, or stays. *)
LEMMA NextAdvances ==
  ASSUME NEW p, NEW q, NEW f, OnLine(p, q, f), regular', [Next]_vars
  PROVE  Advances(p, q, f)
<1>1. CASE UserAction
  <2>1. PICK delta \in Deltas : Record(delta) /\ Fits(Seen(objects), delta, Seen(objects'))
    BY <1>1, UserRecords DEF OnLine
  <2> QED
    BY <2>1, RecordAdvances
<1>2. CASE Undo \/ Redo
  <2>1. ~open
    BY <1>2 DEF Undo, Redo
  <2> QED
    BY <1>2, <2>1, RunAdvances
<1>3. CASE ClearHistory
  BY <1>3, ClearAdvances DEF OnLine
<1>4. CASE UNCHANGED vars
  BY <1>4, OnLineTypes, Stay DEF vars
<1> QED
  BY <1>1, <1>2, <1>3, <1>4, TransactionAdvances, SystemAdvances DEF Next

(* What initialize leaves is a line of one view. *)
LEMMA LineStart == Init => LineInv
<1> SUFFICES ASSUME Init PROVE LineInv
  OBVIOUS
<1>1. <<>> \in Seq(Views) /\ Len(<<>>) = 0 /\ 1 .. 0 = {}
  BY EmptySeq
<1>2. objects \in Scenes /\ undoStack = <<>> /\ redoStack = <<>> /\ pending = <<>>
  BY Start DEF TypeOK, Init
<1>3. Seen(objects) \in Views
  BY <1>2, SeenIsView
<1>4. IsLine(Views, Links, <<>>, Seen(objects), <<>>, undoStack, redoStack)
  BY <1>1, <1>2, <1>3 DEF IsLine
<1>5. HasLine(<<>>, Seen(objects), <<>>)
  BY <1>2, <1>3, <1>4, LeadsNowhere DEF HasLine
<1> QED
  BY <1>5 DEF LineInv

(* What is irregular stays so until the history is cleared. *)
LEMMA StillRegular == ASSUME TypeOK, [Next]_vars, regular' PROVE regular \/ ClearHistory
<1>1. regular \in BOOLEAN
  BY DEF TypeOK
<1>2. CASE UserAction
  BY <1>2, UserRecords
<1>3. CASE Undo \/ Redo \/ BeginTransaction \/ EndTransaction
  BY <1>1, <1>3 DEF Undo, Redo, BeginTransaction, EndTransaction
<1>4. CASE SystemAction
  BY <1>1, <1>4 DEF SystemAction, SyncFromEngine, LoadObjects
<1>5. CASE UNCHANGED vars
  BY <1>5 DEF vars
<1> QED
  BY <1>2, <1>3, <1>4, <1>5 DEF Next

(* The invariant of the line, and the step of EditHistory with it *)
LEMMA LineStep ==
  ASSUME TypeOK, TypeOK', LineInv, [Next]_vars
  PROVE  LineInv' /\ (regular /\ regular' => Line!Next \/ UNCHANGED Line!history)
<1>1. CASE ~regular'
  BY <1>1 DEF LineInv
<1>2. CASE regular' /\ regular
  <2>1. PICK p, q, f : HasLine(p, q, f)
    BY <1>2 DEF LineInv
  <2>2. Advances(p, q, f)
    BY <1>2, <2>1, NextAdvances DEF OnLine
  <2>3. PICK r, s, g : HasLine(r, s, g)' /\ Follows(p, q, f, r, s, g)
    BY <2>2 DEF Advances
  <2>4. LineInv'
    BY <2>3 DEF LineInv
  <2>5. Past = p /\ Seen(Committed) = q /\ Future = f
    BY <2>1, LineNow
  <2>6. Past' = r /\ (Seen(Committed))' = s /\ Future' = g
    BY <2>3, LineNext
  <2>7. Line!Next \/ UNCHANGED Line!history
    BY <2>3, <2>5, <2>6, FollowsIsNext
  <2> QED
    BY <2>4, <2>7
<1>3. CASE regular' /\ ~regular
  <2>1. ClearHistory
    BY <1>3, StillRegular
  <2>2. HasLine(<<>>, Seen(objects), <<>>)'
    BY <2>1, ClearAdvances
  <2> QED
    BY <1>3, <2>2 DEF LineInv
<1> QED
  BY <1>1, <1>2, <1>3

(* While the calls are the ones undo is meant for, undoing by deltas is the same
   as going back along a line of whole scenes, for any objects, properties and
   values, any number of calls and any max_history. Undo returns the scene before
   the last step, a transaction is one step, a new edit drops the future, what is
   past max_history is dropped from the far end, and what the system loads is in
   every scene of the line at once and persists through every Undo and Redo
   (delta_undo.h:15-25, 143, 162). *)
THEOREM Refines == Spec => AsAnEditHistory
<1>1. TypeOK /\ TypeOK' /\ LineInv /\ [Next]_vars => LineInv'
  BY LineStep
<1>2. TypeOK /\ TypeOK' /\ LineInv /\ [Next]_vars
        => [regular /\ regular' => Line!Next \/ UNCHANGED Line!history]_vars
  BY LineStep
<1>3. Spec => []LineInv
  BY <1>1, Typed, LineStart, PTL DEF Spec
<1> QED
  BY <1>2, <1>3, Typed, PTL DEF Spec, AsAnEditHistory
=============================================================================
