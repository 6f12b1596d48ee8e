------------------------- MODULE MultiStore_proofs --------------------------
(* The registry and the scene store of the multi-store architecture, for every
   set of objects, every max_history and whatever the commands hold: they list
   the same objects, none that is gone stays selected, and undo and redo walk
   along one line of scenes (the refinement of EditHistory). *)
EXTENDS MultiStore, SequenceLemmas, TLAPS

------------------------------------------------------------------------------
(* Folds of the restore functions *)

(* What the old states, restored in reverse, go through: for each set of
   positions the world after the commands there. *)
IsBackwardFold(h, W, w, commands) ==
  /\ h \in [SUBSET DOMAIN commands -> W]
  /\ Backward(w, commands) = h[DOMAIN commands]
  /\ \A s \in SUBSET DOMAIN commands :
       h[s] = IF s = {} THEN w
              ELSE Restore(h[s \ {Min(s)}], commands[Min(s)], commands[Min(s)].old)

(* They go through something. *)
LEMMA BackwardFold ==
  ASSUME NEW W, NEW w, w \in W, NEW C, NEW commands, commands \in Seq(C),
         \A x \in W, c \in C : Restore(x, c, c.old) \in W
  PROVE  \E h : IsBackwardFold(h, W, w, commands)
<1> DEFINE S == DOMAIN commands
           pick == [s \in (SUBSET S) \ {{}} |-> Min(s)]
           step == [i \in S |-> [x \in W |-> Restore(x, commands[i], commands[i].old)]]
           Solves(h) == h = [s \in SUBSET S |->
                               IF s = {} THEN w
                               ELSE Restore(h[s \ {Min(s)}], commands[Min(s)], commands[Min(s)].old)]
           fold == CHOOSE h : Solves(h)
<1>1. IsFiniteSet(S) /\ S \subseteq Nat /\ \A i \in S : commands[i] \in C
  BY FS_Interval
<1>2. \A s \in (SUBSET S) \ {{}} : Min(s) \in s
  BY <1>1, Least
<1>3. \A s \in (SUBSET S) \ {{}} : pick[s] \in s /\ pick[s] = Min(s) /\ Min(s) \in S
  BY <1>2
<1>4. pick \in [(SUBSET S) \ {{}} -> S]
  BY <1>3
<1>5. step \in [S -> [W -> W]]
  BY <1>1
<1>6. \A i \in S, x \in W : step[i][x] = Restore(x, commands[i], commands[i].old)
  OBVIOUS
<1> HIDE DEF pick, step, S
<1>7. PICK g : IsFold(g, S, W, w, step, pick)
  <2>1. IsFiniteSet(S) /\ w \in W /\ Steps(step, S, W) /\ Picks(pick, S)
    BY <1>1, <1>3, <1>4, <1>5 DEF Steps, Picks
  <2> QED
    BY <2>1, Recursion
<1>8. Solves(g)
  <2>0. g \in [SUBSET S -> W] /\ g = [s \in SUBSET S |-> g[s]]
    BY <1>7 DEF IsFold
  <2>1. ASSUME NEW s \in SUBSET S, s # {}
        PROVE  step[pick[s]][g[s \ {pick[s]}]]
                 = Restore(g[s \ {Min(s)}], commands[Min(s)], commands[Min(s)].old)
    <3>1. pick[s] = Min(s) /\ Min(s) \in S /\ g[s \ {Min(s)}] \in W
      BY <1>3, <2>0, <2>1
    <3> QED
      BY <1>6, <3>1
  <2>2. \A s \in SUBSET S : g[s] = IF s = {} THEN w
                               ELSE Restore(g[s \ {Min(s)}], commands[Min(s)], commands[Min(s)].old)
    BY <1>7, <2>1 DEF IsFold
  <2> QED
    BY <2>0, <2>2
<1>9. Solves(fold)
  BY <1>8
<1>10. Backward(w, commands) = fold[S]
  BY DEF Backward, FoldRight, MapThenFoldSet, S
<1> HIDE DEF fold
<1>11. \A s \in SUBSET S :
         fold[s] = IF s = {} THEN w
                   ELSE Restore(fold[s \ {Min(s)}], commands[Min(s)], commands[Min(s)].old)
  BY <1>9
<1>12. \A s \in SUBSET S : fold[s] \in W
  <2> DEFINE T == {s \in SUBSET S : fold[s] \in W}
  <2>1. {} \in T
    BY <1>11
  <2>2. ASSUME NEW s \in SUBSET S, s # {} PROVE \E x \in s : s \ {x} \in T => s \in T
    <3>1. Min(s) \in s /\ commands[Min(s)] \in C
      BY <1>1, <1>2, <2>2
    <3>2. ASSUME s \ {Min(s)} \in T PROVE s \in T
      <4>1. fold[s \ {Min(s)}] \in W
        BY <3>2
      <4> QED
        BY <1>11, <2>2, <3>1, <4>1
    <3> QED
      BY <3>1, <3>2
  <2> HIDE DEF T
  <2>3. \A s \in SUBSET S : s \in T
    BY <1>1, <2>1, <2>2, FiniteInduction
  <2> QED
    BY <2>3 DEF T
<1>13. fold \in [SUBSET S -> W]
  BY <1>9, <1>12
<1> QED
  BY <1>10, <1>11, <1>13 DEF S, IsBackwardFold

(* And what the new states go through, restored in order *)
IsForwardFold(h, W, w, commands) ==
  /\ h \in [SUBSET DOMAIN commands -> W]
  /\ Forward(w, commands) = h[DOMAIN commands]
  /\ \A s \in SUBSET DOMAIN commands :
       h[s] = IF s = {} THEN w
              ELSE Restore(h[s \ {Max(s)}], commands[Max(s)], commands[Max(s)].new)

(* So do they. *)
LEMMA ForwardFold ==
  ASSUME NEW W, NEW w, w \in W, NEW C, NEW commands, commands \in Seq(C),
         \A x \in W, c \in C : Restore(x, c, c.new) \in W
  PROVE  \E h : IsForwardFold(h, W, w, commands)
<1> DEFINE S == DOMAIN commands
           pick == [s \in (SUBSET S) \ {{}} |-> Max(s)]
           step == [i \in S |-> [x \in W |-> Restore(x, commands[i], commands[i].new)]]
           Solves(h) == h = [s \in SUBSET S |->
                               IF s = {} THEN w
                               ELSE Restore(h[s \ {Max(s)}], commands[Max(s)], commands[Max(s)].new)]
           fold == CHOOSE h : Solves(h)
<1>1. IsFiniteSet(S) /\ S \subseteq Nat /\ \A i \in S : commands[i] \in C
  BY FS_Interval
<1>2. \A s \in (SUBSET S) \ {{}} : Max(s) \in s
  <2>1. Len(commands) \in Nat /\ S \subseteq 0 .. Len(commands)
    OBVIOUS
  <2> QED
    BY <2>1, Greatest
<1>3. \A s \in (SUBSET S) \ {{}} : pick[s] \in s /\ pick[s] = Max(s) /\ Max(s) \in S
  BY <1>2
<1>4. pick \in [(SUBSET S) \ {{}} -> S]
  BY <1>3
<1>5. step \in [S -> [W -> W]]
  BY <1>1
<1>6. \A i \in S, x \in W : step[i][x] = Restore(x, commands[i], commands[i].new)
  OBVIOUS
<1> HIDE DEF pick, step, S
<1>7. PICK g : IsFold(g, S, W, w, step, pick)
  <2>1. IsFiniteSet(S) /\ w \in W /\ Steps(step, S, W) /\ Picks(pick, S)
    BY <1>1, <1>3, <1>4, <1>5 DEF Steps, Picks
  <2> QED
    BY <2>1, Recursion
<1>8. Solves(g)
  <2>0. g \in [SUBSET S -> W] /\ g = [s \in SUBSET S |-> g[s]]
    BY <1>7 DEF IsFold
  <2>1. ASSUME NEW s \in SUBSET S, s # {}
        PROVE  step[pick[s]][g[s \ {pick[s]}]]
                 = Restore(g[s \ {Max(s)}], commands[Max(s)], commands[Max(s)].new)
    <3>1. pick[s] = Max(s) /\ Max(s) \in S /\ g[s \ {Max(s)}] \in W
      BY <1>3, <2>0, <2>1
    <3> QED
      BY <1>6, <3>1
  <2>2. \A s \in SUBSET S : g[s] = IF s = {} THEN w
                               ELSE Restore(g[s \ {Max(s)}], commands[Max(s)], commands[Max(s)].new)
    BY <1>7, <2>1 DEF IsFold
  <2> QED
    BY <2>0, <2>2
<1>9. Solves(fold)
  BY <1>8
<1>10. Forward(w, commands) = fold[S]
  BY DEF Forward, FoldLeft, MapThenFoldSet, S
<1> HIDE DEF fold
<1>11. \A s \in SUBSET S :
         fold[s] = IF s = {} THEN w
                   ELSE Restore(fold[s \ {Max(s)}], commands[Max(s)], commands[Max(s)].new)
  BY <1>9
<1>12. \A s \in SUBSET S : fold[s] \in W
  <2> DEFINE T == {s \in SUBSET S : fold[s] \in W}
  <2>1. {} \in T
    BY <1>11
  <2>2. ASSUME NEW s \in SUBSET S, s # {} PROVE \E x \in s : s \ {x} \in T => s \in T
    <3>1. Max(s) \in s /\ commands[Max(s)] \in C
      BY <1>1, <1>2, <2>2
    <3>2. ASSUME s \ {Max(s)} \in T PROVE s \in T
      <4>1. fold[s \ {Max(s)}] \in W
        BY <3>2
      <4> QED
        BY <1>11, <2>2, <3>1, <4>1
    <3> QED
      BY <3>1, <3>2
  <2> HIDE DEF T
  <2>3. \A s \in SUBSET S : s \in T
    BY <1>1, <2>1, <2>2, FiniteInduction
  <2> QED
    BY <2>3 DEF T
<1>13. fold \in [SUBSET S -> W]
  BY <1>9, <1>12
<1> QED
  BY <1>10, <1>11, <1>13 DEF S, IsForwardFold

------------------------------------------------------------------------------
(* Worlds and commands *)

(* After n edits no version is above n. *)
Known(n) == [data : Fields \cup {Blob}, version : 0 .. n]

(* A placing command adds or removes; an edit is of an object there is, and the
   versions it leads from and to are not the same one. *)
Recorded(n) ==
  {c \in [kind : {"place", "edit"}, id : Ids, old : Known(n) \cup {None}, new : Known(n) \cup {None}] :
     /\ c.kind = "place" => (c.old = None <=> c.new # None)
     /\ c.kind = "edit" => c.old # None /\ c.new # None /\ Differ(c.old, c.new)}

Worlds(n) ==
  {w \in [stores : [Ids -> Known(n) \cup {None}], registered : SUBSET Ids, selected : Ids \cup {None}] :
     w.registered = {id \in Ids : w.stores[id] # None}}

Composites(n) == Seq(Recorded(n)) \ {<<>>}

(* What the theorems need to know of every state: the commands on the stacks hold
   what a restore function may put into a registry that agrees. *)
IInv ==
  /\ edits \in 0 .. MaxEdits
  /\ World \in Worlds(edits)
  /\ undoStack \in Seq(Composites(edits)) /\ redoStack \in Seq(Composites(edits))
  /\ active \in BOOLEAN
  /\ pending \in Seq(Recorded(edits)) /\ (~active => pending = <<>>)
  /\ regular \in BOOLEAN

(* The objects that are there are told from the absence of one. *)
LEMMA NoObject ==
  ASSUME NEW n \in 0 .. MaxEdits
  PROVE  None \notin Known(n) /\ None \notin Ids /\ Known(n) \subseteq Objects
BY ConstantsAssumption DEF Known, Objects

(* What is known stays known. *)
LEMMA KnownGrows ==
  ASSUME NEW n \in Nat
  PROVE  /\ Known(n) \subseteq Known(n + 1) /\ Recorded(n) \subseteq Recorded(n + 1)
         /\ Worlds(n) \subseteq Worlds(n + 1) /\ Composites(n) \subseteq Composites(n + 1)
         /\ Seq(Recorded(n)) \subseteq Seq(Recorded(n + 1))
         /\ Seq(Composites(n)) \subseteq Seq(Composites(n + 1))
<1>1. Known(n) \subseteq Known(n + 1)
  BY DEF Known
<1>2. Recorded(n) \subseteq Recorded(n + 1)
  BY <1>1 DEF Recorded
<1>3. Worlds(n) \subseteq Worlds(n + 1)
  BY <1>1 DEF Worlds
<1>4. Seq(Recorded(n)) \subseteq Seq(Recorded(n + 1))
  BY <1>2
<1>5. Composites(n) \subseteq Composites(n + 1)
  BY <1>4 DEF Composites
<1> HIDE DEF Composites
<1>6. Seq(Composites(n)) \subseteq Seq(Composites(n + 1))
  BY <1>5
<1> QED
  BY <1>1, <1>2, <1>3, <1>4, <1>5, <1>6

------------------------------------------------------------------------------
(* One restore function *)

(* A restore function run on a world that agrees leaves one: it keeps what was
   selected or clears it, and clears it if that object goes. *)
LEMMA RestoreAgrees ==
  ASSUME NEW n \in 0 .. MaxEdits, NEW w \in Worlds(n), NEW c, c.id \in Ids, c.kind \in {"place", "edit"},
         NEW object \in Known(n) \cup {None}, c.kind = "edit" => object # None
  PROVE  LET r == Restore(w, c, object)
         IN  /\ r \in Worlds(n)
             /\ r.selected \in {w.selected, None}
             /\ \A id \in w.registered \ r.registered : r.selected # id
<1> USE NoObject
<1>1. /\ c.id \in Ids /\ object \in Known(n) \cup {None}
      /\ c.kind \in {"place", "edit"} /\ (c.kind = "edit" => object # None)
  OBVIOUS
<1>2. /\ w = [stores |-> w.stores, registered |-> w.registered, selected |-> w.selected]
      /\ w.stores \in [Ids -> Known(n) \cup {None}] /\ w.selected \in Ids \cup {None}
      /\ w.registered = {id \in Ids : w.stores[id] # None}
  BY DEF Worlds
<1>3. CASE c.kind = "place" /\ object = None
  <2>1. PICK r : r = WithoutObject(w, c.id)
    OBVIOUS
  <2>2. Restore(w, c, object) = r
    BY <1>3, <2>1 DEF Restore
  <2>3. /\ r.stores = [w.stores EXCEPT ![c.id] = None] /\ r.registered = w.registered \ {c.id}
        /\ r.selected = IF w.selected = c.id THEN None ELSE w.selected
        /\ r \in [stores : [Ids -> Known(n) \cup {None}], registered : SUBSET Ids, selected : Ids \cup {None}]
    BY <1>1, <1>2, <2>1 DEF WithoutObject
  <2>4. r \in Worlds(n)
    BY <1>1, <1>2, <2>3 DEF Worlds
  <2>5. r.selected \in {w.selected, None} /\ \A id \in w.registered \ r.registered : r.selected # id
    BY <1>1, <1>2, <2>3
  <2> QED
    BY <2>2, <2>4, <2>5
<1>4. CASE c.kind = "place" /\ object # None /\ ~Present(w, c.id)
  <2>1. PICK r : r = WithObject(w, c.id, object)
    OBVIOUS
  <2>2. Restore(w, c, object) = r
    BY <1>4, <2>1 DEF Restore
  <2>3. /\ r.stores = [w.stores EXCEPT ![c.id] = object] /\ r.registered = w.registered \cup {c.id}
        /\ r.selected = w.selected
        /\ r \in [stores : [Ids -> Known(n) \cup {None}], registered : SUBSET Ids, selected : Ids \cup {None}]
    BY <1>1, <1>2, <2>1 DEF WithObject
  <2>4. r \in Worlds(n)
    BY <1>1, <1>2, <1>4, <2>3 DEF Worlds
  <2> QED
    BY <2>2, <2>3, <2>4
<1>5. CASE c.kind = "edit" /\ Present(w, c.id) /\ Differ(w.stores[c.id], object)
  <2>1. PICK r : r = [w EXCEPT !.stores[c.id] = object]
    OBVIOUS
  <2>2. Restore(w, c, object) = r
    BY <1>5, <2>1 DEF Restore, Store
  <2>3. /\ r.stores = [w.stores EXCEPT ![c.id] = object] /\ r.registered = w.registered
        /\ r.selected = w.selected
        /\ r \in [stores : [Ids -> Known(n) \cup {None}], registered : SUBSET Ids, selected : Ids \cup {None}]
    BY <1>1, <1>2, <2>1
  <2>4. r \in Worlds(n)
    BY <1>1, <1>2, <1>5, <2>3 DEF Worlds, Present
  <2> QED
    BY <2>2, <2>3, <2>4
<1>6. CASE \/ c.kind = "place" /\ object # None /\ Present(w, c.id)
           \/ c.kind = "edit" /\ ~(Present(w, c.id) /\ Differ(w.stores[c.id], object))
  <2>1. Restore(w, c, object) = w
    BY <1>6 DEF Restore, Store
  <2> QED
    BY <2>1
<1> QED
  BY <1>1, <1>3, <1>4, <1>5, <1>6

(* Some of the worlds a world may turn into: none where an object is gone and
   selected *)
Descendants(n, w) == {x \in Worlds(n) : \A id \in w.registered \ x.registered : x.selected # id}

(* Restoring leaves no object selected that it takes away. *)
LEMMA RestoreDescends ==
  ASSUME NEW n \in 0 .. MaxEdits, NEW w \in Worlds(n), NEW x \in Descendants(n, w),
         NEW c \in Recorded(n), NEW object, object = c.old \/ object = c.new
  PROVE  Restore(x, c, object) \in Descendants(n, w)
<1> USE NoObject
<1>1. PICK r : r = Restore(x, c, object)
  OBVIOUS
<1>2. x \in Worlds(n) /\ w.registered \subseteq Ids
  BY DEF Worlds, Descendants
<1>5. /\ c.id \in Ids /\ c.kind \in {"place", "edit"}
      /\ object \in Known(n) \cup {None} /\ (c.kind = "edit" => object # None)
  BY DEF Recorded
<1>3. /\ r \in Worlds(n) /\ r.selected \in {x.selected, None}
      /\ \A id \in x.registered \ r.registered : r.selected # id
  BY <1>1, <1>2, <1>5, RestoreAgrees
<1>4. ASSUME NEW id \in w.registered \ r.registered PROVE r.selected # id
  BY <1>2, <1>3, <1>4 DEF Descendants
<1> QED
  BY <1>1, <1>3, <1>4 DEF Descendants

(* What every restore preserves, undoing or redoing a list of commands does too. *)
LEMMA FoldsStay ==
  ASSUME NEW W, NEW w, w \in W, NEW C, NEW commands, commands \in Seq(C),
         \A x \in W, c \in C : Restore(x, c, c.old) \in W,
         \A x \in W, c \in C : Restore(x, c, c.new) \in W
  PROVE  Backward(w, commands) \in W /\ Forward(w, commands) \in W
<1>1. PICK h : IsBackwardFold(h, W, w, commands)
  BY BackwardFold
<1>2. PICK g : IsForwardFold(g, W, w, commands)
  BY ForwardFold
<1> QED
  BY <1>1, <1>2 DEF IsBackwardFold, IsForwardFold

(* So does a composite, in either direction. *)
LEMMA CommandsDescend ==
  ASSUME NEW n \in 0 .. MaxEdits, NEW w \in Worlds(n), NEW commands \in Seq(Recorded(n))
  PROVE  Backward(w, commands) \in Descendants(n, w) /\ Forward(w, commands) \in Descendants(n, w)
<1>1. w \in Descendants(n, w)
  BY DEF Descendants
<1>2. \A x \in Descendants(n, w), c \in Recorded(n) : Restore(x, c, c.old) \in Descendants(n, w)
  BY RestoreDescends
<1>3. \A x \in Descendants(n, w), c \in Recorded(n) : Restore(x, c, c.new) \in Descendants(n, w)
  BY RestoreDescends
<1> HIDE DEF Descendants
<1> QED
  BY <1>1, <1>2, <1>3, FoldsStay

------------------------------------------------------------------------------
(* Every step keeps the invariant. *)

(* A trimmed stack has entries of the stack. *)
LEMMA TrimmedStays ==
  ASSUME NEW n \in Nat, NEW s \in Seq(Composites(n)) PROVE Trimmed(s) \in Seq(Composites(n))
<1>1. Len(s) \in Nat /\ MaxHistory \in Nat \ {0}
  BY ConstantsAssumption
<1>2. ASSUME NEW i \in 1 .. Len(s) PROVE SubSeq(s, i, Len(s)) \in Seq(Composites(n))
  BY <1>1
<1>3. CASE Len(s) > MaxHistory
  <2>1. Len(s) - MaxHistory + 1 \in 1 .. Len(s)
    BY <1>1, <1>3
  <2> QED
    BY <1>2, <1>3, <2>1 DEF Trimmed
<1>4. CASE ~(Len(s) > MaxHistory)
  <2>1. SubSeq(s, 1, Len(s)) = s
    BY <1>1
  <2> QED
    BY <1>4, <2>1 DEF Trimmed
<1> QED
  BY <1>3, <1>4

(* A push keeps the types of both stacks. *)
LEMMA PushStays ==
  ASSUME NEW n \in Nat, NEW commands \in Seq(Recorded(n)), Push(commands),
         undoStack \in Seq(Composites(n)), redoStack \in Seq(Composites(n))
  PROVE  undoStack' \in Seq(Composites(n)) /\ redoStack' \in Seq(Composites(n))
<1>1. CASE commands = <<>>
  BY <1>1 DEF Push
<1>2. CASE commands # <<>>
  <2>1. commands \in Composites(n)
    BY <1>2 DEF Composites
  <2>2. Append(undoStack, commands) \in Seq(Composites(n))
    BY <2>1
  <2>3. undoStack' = Trimmed(Append(undoStack, commands)) /\ redoStack' = <<>>
    BY <1>2 DEF Push
  <2>4. undoStack' \in Seq(Composites(n))
    BY <2>2, <2>3, TrimmedStays
  <2> QED
    BY <2>3, <2>4
<1> QED
  BY <1>1, <1>2

(* ... and so does a command that is recorded or gathered. *)
LEMMA RecordStays ==
  ASSUME NEW n \in Nat, NEW cmd \in Recorded(n), Record(cmd),
         undoStack \in Seq(Composites(n)), redoStack \in Seq(Composites(n)),
         active \in BOOLEAN, pending \in Seq(Recorded(n)), ~active => pending = <<>>
  PROVE  /\ undoStack' \in Seq(Composites(n)) /\ redoStack' \in Seq(Composites(n))
         /\ active' \in BOOLEAN /\ pending' \in Seq(Recorded(n)) /\ (~active' => pending' = <<>>)
<1>1. CASE active
  <2>1. pending' = Append(pending, cmd) /\ UNCHANGED <<undoStack, redoStack, active>>
    BY <1>1 DEF Record
  <2>2. pending' \in Seq(Recorded(n))
    BY <2>1
  <2> QED
    BY <1>1, <2>1, <2>2
<1>2. CASE ~active
  <2>1. <<cmd>> \in Seq(Recorded(n)) /\ Push(<<cmd>>)
    BY <1>2 DEF Record
  <2> QED
    BY <1>2, <2>1, PushStays DEF Record
<1> QED
  BY <1>1, <1>2

(* The registry and the scene store as the next ones *)
LEMMA Became ==
  ASSUME NEW n, NEW w \in Worlds(n), Becomes(w)
  PROVE  World' = w
BY DEF Worlds, Becomes, World

(* Any single edit keeps the invariant. *)
LEMMA ChangeStays ==
  ASSUME IInv, Edited, NEW w \in Worlds(edits + 1), NEW cmd \in Recorded(edits + 1),
         NEW undoable \in BOOLEAN, Change(w, cmd, undoable)
  PROVE  IInv'
<1>1. edits \in Nat /\ edits' = edits + 1 /\ edits' \in 0 .. MaxEdits
  BY ConstantsAssumption DEF IInv, Edited
<1>2. World' \in Worlds(edits')
  BY <1>1, Became DEF Change
<1>3. /\ undoStack \in Seq(Composites(edits')) /\ redoStack \in Seq(Composites(edits'))
      /\ active \in BOOLEAN /\ pending \in Seq(Recorded(edits')) /\ (~active => pending = <<>>)
      /\ regular \in BOOLEAN
  BY <1>1, KnownGrows DEF IInv
<1>4. CASE undoable
  <2>1. Record(cmd) /\ UNCHANGED regular
    BY <1>4 DEF Change
  <2>2. /\ undoStack' \in Seq(Composites(edits')) /\ redoStack' \in Seq(Composites(edits'))
        /\ active' \in BOOLEAN /\ pending' \in Seq(Recorded(edits')) /\ (~active' => pending' = <<>>)
    <3>1. PICK n \in Nat : n = edits' /\ n = edits + 1
      BY <1>1
    <3> QED
      BY <1>3, <2>1, <3>1, RecordStays
  <2> QED
    BY <1>1, <1>2, <1>3, <2>1, <2>2 DEF IInv
<1>5. CASE ~undoable
  <2>1. UNCHANGED history /\ regular' \in BOOLEAN
    BY <1>3, <1>5 DEF Change, Unrecorded
  <2> QED
    BY <1>1, <1>2, <1>3, <2>1 DEF IInv, history
<1> QED
  BY <1>4, <1>5

(* What an edit makes of an object *)
LEMMA UpdateKnown ==
  ASSUME NEW n \in Nat, NEW object \in Known(n), NEW updates \in Updates(Props)
  PROVE  Updated(object, updates) \in Known(n + 1)
<1>1. PICK S \in SUBSET Props : updates \in [S -> Values]
  BY DEF Updates
<1>2. object.data \in Fields \cup {Blob} /\ object.version \in 0 .. n
  BY DEF Known
<1>3. ASSUME NEW p \in Props
      PROVE  (IF p \in DOMAIN updates THEN updates[p]
              ELSE IF object.data = Blob THEN Missing ELSE object.data[p]) \in Values \cup {Missing}
  BY <1>1, <1>2 DEF Fields
<1>4. [p \in Props |-> IF p \in DOMAIN updates THEN updates[p]
                       ELSE IF object.data = Blob THEN Missing ELSE object.data[p]] \in Fields
  BY <1>3 DEF Fields
<1>5. object.version + 1 \in 0 .. n + 1
  BY <1>2
<1> QED
  BY <1>4, <1>5 DEF Updated, Known

(* set_properties always yields an object the store takes for another one. *)
LEMMA UpdateDiffers ==
  ASSUME NEW n, NEW object \in Known(n), NEW updates PROVE Differ(object, Updated(object, updates))
BY DEF Known, Updated, Differ

(* A world after one object has come or has changed, and after one has gone *)
LEMMA PlacedWorld ==
  ASSUME NEW n \in 0 .. MaxEdits, NEW w \in Worlds(n), NEW id \in Ids, NEW object \in Known(n)
  PROVE  /\ WithObject(w, id, object) \in Worlds(n) /\ WithoutObject(w, id) \in Worlds(n)
         /\ Present(w, id) => Store(w, id, object) \in Worlds(n)
<1> USE NoObject
<1>1. PICK place : place = [kind |-> "place", id |-> id, old |-> None, new |-> object]
  OBVIOUS
<1>2. PICK edit : edit = [kind |-> "edit", id |-> id, old |-> object, new |-> object]
  OBVIOUS
<1>4. WithoutObject(w, id) \in Worlds(n)
  <2>1. Restore(w, place, None) = WithoutObject(w, id) /\ place.id = id /\ place.kind = "place"
    BY <1>1 DEF Restore
  <2> QED
    BY <2>1, RestoreAgrees
<1>5. Present(w, id) => Store(w, id, object) \in Worlds(n)
  <2>1. /\ Present(w, id) => Restore(w, edit, object) = Store(w, id, object)
        /\ edit.id = id /\ edit.kind = "edit"
    BY <1>2 DEF Restore
  <2> QED
    BY <2>1, RestoreAgrees
<1>6. WithObject(w, id, object) \in Worlds(n)
  <2>1. /\ w = [stores |-> w.stores, registered |-> w.registered, selected |-> w.selected]
        /\ w.stores \in [Ids -> Known(n) \cup {None}] /\ w.selected \in Ids \cup {None}
        /\ w.registered = {i \in Ids : w.stores[i] # None}
    BY DEF Worlds
  <2>2. PICK r : r = WithObject(w, id, object)
    OBVIOUS
  <2>3. /\ r.stores = [w.stores EXCEPT ![id] = object] /\ r.registered = w.registered \cup {id}
        /\ r.selected = w.selected
        /\ r \in [stores : [Ids -> Known(n) \cup {None}], registered : SUBSET Ids, selected : Ids \cup {None}]
    BY <2>1, <2>2 DEF WithObject
  <2>4. r \in Worlds(n)
    BY <2>1, <2>3 DEF Worlds
  <2> QED
    BY <2>2, <2>4
<1> QED
  BY <1>4, <1>5, <1>6

(* What an edit function of the controller comes to: one object of the registry
   goes from the old state of the command to the new one. *)
Changes(w, cmd, undoable) ==
  /\ Edited /\ w \in Worlds(edits + 1) /\ cmd \in Recorded(edits + 1)
  /\ Change(w, cmd, undoable)
  /\ stores[cmd.id] = cmd.old /\ w.stores = [stores EXCEPT ![cmd.id] = cmd.new]

(* Adding, removing and setting are a change of the world by one command. *)
LEMMA EditIsChange ==
  ASSUME IInv, NEW id \in Ids, NEW undoable \in BOOLEAN,
         \/ \E data \in InitialData : AddObject(id, data, undoable)
         \/ RemoveObject(id, undoable)
         \/ \E updates \in Updates(Props) : SetProperties(id, updates, undoable)
         \/ \E p \in Props, value \in Values : SetProperty(id, p, value, undoable)
  PROVE  \E w, cmd : Changes(w, cmd, undoable)
<1> USE NoObject
<1>1. edits \in Nat /\ World \in Worlds(edits)
  BY DEF IInv
<1>2. Edited => edits + 1 \in 0 .. MaxEdits
  BY <1>1, ConstantsAssumption DEF IInv, Edited
<1>3. /\ World \in Worlds(edits + 1) /\ Known(edits) \subseteq Known(edits + 1)
      /\ stores[id] \in Known(edits) \cup {None} /\ (Present(World, id) <=> stores[id] # None)
  BY <1>1, KnownGrows DEF Worlds, World, Present
<1>4. ASSUME NEW data \in InitialData, AddObject(id, data, undoable) PROVE \E w, cmd : Changes(w, cmd, undoable)
  <2>1. PICK object : object = [data |-> data, version |-> 0]
    OBVIOUS
  <2>2. object \in Known(edits + 1)
    BY <1>1, <2>1, ConstantsAssumption DEF Known
  <2>3. PICK cmd : cmd = [kind |-> "place", id |-> id, old |-> None, new |-> object]
    OBVIOUS
  <2>7. object # None
    <3>1. Edited
      BY <1>4 DEF AddObject
    <3> QED
      BY <1>2, <2>2, <3>1
  <2>4. cmd \in Recorded(edits + 1)
    BY <2>2, <2>3, <2>7 DEF Recorded
  <2>5. Edited /\ Change(WithObject(World, id, object), cmd, undoable)
    BY <1>4, <2>1, <2>3 DEF AddObject
  <2>6. WithObject(World, id, object) \in Worlds(edits + 1)
    BY <1>2, <1>3, <2>2, <2>5, PlacedWorld
  <2>8. WithObject(World, id, object).stores = [stores EXCEPT ![id] = object] /\ stores[id] = None
    BY <1>3, <1>4 DEF WithObject, World, AddObject
  <2>9. Changes(WithObject(World, id, object), cmd, undoable)
    BY <2>3, <2>4, <2>5, <2>6, <2>8 DEF Changes
  <2> QED
    BY <2>9
<1>5. ASSUME RemoveObject(id, undoable) PROVE \E w, cmd : Changes(w, cmd, undoable)
  <2>1. PICK cmd : cmd = [kind |-> "place", id |-> id, old |-> stores[id], new |-> None]
    OBVIOUS
  <2>2. Edited /\ Present(World, id) /\ Change(WithoutObject(World, id), cmd, undoable)
    BY <1>5, <2>1 DEF RemoveObject
  <2>3. cmd \in Recorded(edits + 1)
    BY <1>3, <2>1, <2>2 DEF Recorded
  <2>4. stores[id] \in Known(edits + 1)
    BY <1>3, <2>2
  <2>5. WithoutObject(World, id) \in Worlds(edits + 1)
    BY <1>2, <1>3, <2>2, <2>4, PlacedWorld
  <2>6. WithoutObject(World, id).stores = [stores EXCEPT ![id] = None]
    BY DEF WithoutObject, World
  <2>7. Changes(WithoutObject(World, id), cmd, undoable)
    BY <2>1, <2>2, <2>3, <2>5, <2>6 DEF Changes
  <2> QED
    BY <2>7
<1>6. ASSUME NEW updates \in Updates(Props), SetProperties(id, updates, undoable) PROVE \E w, cmd : Changes(w, cmd, undoable)
  <2>1. PICK cmd : cmd = EditCommand(id, updates)
    OBVIOUS
  <2>2. Edited /\ Present(World, id) /\ Change(Store(World, id, cmd.new), cmd, undoable)
    BY <1>6, <2>1 DEF SetProperties
  <2>3. stores[id] \in Known(edits) /\ stores[id] # None
    BY <1>3, <2>2
  <2>4. Updated(stores[id], updates) \in Known(edits + 1)
    BY <1>1, <2>3, UpdateKnown
  <2>5. /\ cmd = [kind |-> "edit", id |-> id, old |-> stores[id], new |-> cmd.new]
        /\ cmd.new \in Known(edits + 1)
    BY <2>1, <2>4 DEF EditCommand
  <2>6. None \notin Known(edits + 1)
    BY <1>2, <2>2
  <2>9. Differ(stores[id], cmd.new)
    BY <2>1, <2>3, UpdateDiffers DEF EditCommand
  <2>7. cmd \in Recorded(edits + 1)
    BY <1>3, <2>3, <2>5, <2>6, <2>9 DEF Recorded
  <2>8. Store(World, id, cmd.new) \in Worlds(edits + 1)
    BY <1>2, <1>3, <2>2, <2>5, PlacedWorld
  <2>10. Store(World, id, cmd.new).stores = [stores EXCEPT ![id] = cmd.new]
    BY <2>9 DEF Store, World
  <2>11. cmd.id = id /\ cmd.old = stores[id]
    BY <2>5
  <2>12. Changes(Store(World, id, cmd.new), cmd, undoable)
    BY <2>2, <2>7, <2>8, <2>10, <2>11 DEF Changes
  <2> QED
    BY <2>12
<1>7. ASSUME NEW p \in Props, NEW value \in Values, SetProperty(id, p, value, undoable) PROVE \E w, cmd : Changes(w, cmd, undoable)
  <2>1. {p} \in SUBSET Props /\ [x \in {p} |-> value] \in [{p} -> Values]
    OBVIOUS
  <2>2. [x \in {p} |-> value] \in Updates(Props)
    <3>1. PICK S, f : S = {p} /\ f = [x \in {p} |-> value]
      OBVIOUS
    <3> QED
      BY <2>1, <3>1 DEF Updates
  <2> QED
    BY <1>6, <1>7, <2>2 DEF SetProperty
<1> QED
  BY <1>4, <1>5, <1>6, <1>7

(* ... which keeps the invariant. *)
LEMMA EditStays ==
  ASSUME IInv, NEW w, NEW cmd, NEW undoable \in BOOLEAN, Changes(w, cmd, undoable)
  PROVE  IInv'
BY ChangeStays DEF Changes

(* What a batch records is one edit for each object there is, in some order. *)
BatchCommands(batch, found) ==
  [i \in 1 .. Len(SetToSeq(found)) |-> EditCommand(SetToSeq(found)[i], batch[SetToSeq(found)[i]])]

(* The commands of a batch are about known objects. *)
LEMMA BatchRecorded ==
  ASSUME IInv, edits + 1 \in 0 .. MaxEdits,
         NEW S \in SUBSET Ids, IsFiniteSet(S), NEW batch \in [S -> Updates(Props) \ {<<>>}],
         NEW found, found = {id \in S : Present(World, id)}
  PROVE  BatchCommands(batch, found) \in Seq(Recorded(edits + 1))
<1>1. edits \in Nat /\ World \in Worlds(edits) /\ IsFiniteSet(found)
  BY FS_Subset DEF IInv
<1>2. PICK order : order = SetToSeq(found)
  OBVIOUS
<1>3. order \in Seq(found)
  BY <1>1, <1>2, InSequence
<1>4. ASSUME NEW id \in found PROVE EditCommand(id, batch[id]) \in Recorded(edits + 1)
  <2>1. /\ id \in Ids /\ batch[id] \in Updates(Props) /\ stores[id] \in Known(edits) /\ stores[id] # None
    BY <1>1 DEF Worlds, World, Present
  <2>2. Updated(stores[id], batch[id]) \in Known(edits + 1) /\ Known(edits) \subseteq Known(edits + 1)
    BY <1>1, <2>1, UpdateKnown, KnownGrows
  <2>3. None \notin Known(edits + 1)
    BY NoObject
  <2>4. PICK new : new = Updated(stores[id], batch[id])
    OBVIOUS
  <2>6. Differ(stores[id], new)
    BY <2>1, <2>4, UpdateDiffers
  <2>5. EditCommand(id, batch[id]) = [kind |-> "edit", id |-> id, old |-> stores[id], new |-> new]
    BY <2>4 DEF EditCommand
  <2> QED
    BY <2>1, <2>2, <2>3, <2>4, <2>5, <2>6 DEF Recorded
<1>5. \A i \in 1 .. Len(order) : EditCommand(order[i], batch[order[i]]) \in Recorded(edits + 1)
  BY <1>3, <1>4
<1>6. Len(order) \in Nat
  BY <1>3
<1> QED
  BY <1>2, <1>5, <1>6 DEF BatchCommands

(* It keeps which objects there are. *)
Batched(batch, found) ==
  [World EXCEPT !.stores = [id \in Ids |-> IF id \in found THEN Updated(@[id], batch[id]) ELSE @[id]]]

(* A batch leaves registry and stores in agreement. *)
LEMMA BatchAgrees ==
  ASSUME IInv, edits + 1 \in 0 .. MaxEdits,
         NEW S \in SUBSET Ids, NEW batch \in [S -> Updates(Props) \ {<<>>}],
         NEW found, found = {id \in S : Present(World, id)}
  PROVE  Batched(batch, found) \in Worlds(edits + 1)
<1>1. PICK w : w = Batched(batch, found)
  OBVIOUS
<1>2. /\ edits \in Nat /\ stores \in [Ids -> Known(edits) \cup {None}]
      /\ registered = {id \in Ids : stores[id] # None} /\ selected \in Ids \cup {None}
  BY DEF IInv, Worlds, World
<1>3. /\ w.stores = [id \in Ids |-> IF id \in found THEN Updated(stores[id], batch[id]) ELSE stores[id]]
      /\ w.registered = registered /\ w.selected = selected
      /\ w = [stores |-> w.stores, registered |-> w.registered, selected |-> w.selected]
  BY <1>1 DEF Batched, World
<1>4. None \notin Known(edits + 1) /\ Known(edits) \subseteq Known(edits + 1)
  BY <1>2, NoObject, KnownGrows
<1>5. ASSUME NEW id \in Ids
      PROVE  w.stores[id] \in Known(edits + 1) \cup {None} /\ (w.stores[id] # None <=> stores[id] # None)
  <2>1. CASE id \in found
    <3>1. stores[id] \in Known(edits) /\ stores[id] # None /\ batch[id] \in Updates(Props)
      BY <1>2, <2>1 DEF Present, World
    <3>2. Updated(stores[id], batch[id]) \in Known(edits + 1)
      BY <1>2, <3>1, UpdateKnown
    <3> QED
      BY <1>3, <1>4, <2>1, <3>1, <3>2
  <2>2. CASE id \notin found
    BY <1>2, <1>3, <1>4, <2>2
  <2> QED
    BY <2>1, <2>2
<1>6. w.stores \in [Ids -> Known(edits + 1) \cup {None}]
  <2>1. w.stores = [id \in Ids |-> w.stores[id]]
    BY <1>3
  <2> QED
    BY <1>5, <2>1
<1>7. w.registered = {id \in Ids : w.stores[id] # None}
  BY <1>2, <1>3, <1>5
<1>8. w.registered \in SUBSET Ids
  BY <1>7
<1>9. w \in [stores : [Ids -> Known(edits + 1) \cup {None}], registered : SUBSET Ids, selected : Ids \cup {None}]
  BY <1>2, <1>3, <1>6, <1>8
<1> QED
  BY <1>1, <1>7, <1>9 DEF Worlds

(* A batch keeps the invariant. *)
LEMMA BatchStays ==
  ASSUME IInv, NEW S \in SUBSET Ids, IsFiniteSet(S), NEW undoable \in BOOLEAN,
         NEW batch \in [S -> Updates(Props) \ {<<>>}], BatchEdit(batch, undoable)
  PROVE  IInv'
<1>1. PICK found : found = {id \in S : Present(World, id)}
  OBVIOUS
<1>2. PICK commands : commands = BatchCommands(batch, found)
  OBVIOUS
<1>3. PICK closed : closed = IF pending = <<>> THEN undoStack ELSE Trimmed(Append(undoStack, pending))
  OBVIOUS
<1>4. /\ Edited /\ Becomes(Batched(batch, found))
      /\ IF ~undoable THEN Unrecorded(found)
         ELSE /\ undoStack' = IF commands = <<>> THEN closed ELSE Trimmed(Append(closed, commands))
              /\ redoStack' = IF commands = <<>> /\ pending = <<>> THEN redoStack ELSE <<>>
              /\ active' = FALSE /\ pending' = <<>>
              /\ regular' = (regular /\ (pending = <<>> \/ commands = <<>>))
  <2>1. DOMAIN batch = S
    OBVIOUS
  <2>2. found = {id \in DOMAIN batch : Present(World, id)}
    BY <1>1, <2>1
  <2> QED
    BY <1>2, <1>3, <2>2 DEF BatchEdit, BatchCommands, Batched
<1>5. PICK n \in Nat : n = edits + 1 /\ edits' = n /\ n \in 0 .. MaxEdits
  BY <1>4, ConstantsAssumption DEF IInv, Edited
<1>6. World' \in Worlds(n)
  <2>1. Batched(batch, found) \in Worlds(n)
    BY <1>1, <1>5, BatchAgrees
  <2> QED
    BY <1>4, <2>1, Became
<1>7. /\ undoStack \in Seq(Composites(n)) /\ redoStack \in Seq(Composites(n))
      /\ active \in BOOLEAN /\ pending \in Seq(Recorded(n)) /\ (~active => pending = <<>>)
      /\ regular \in BOOLEAN
  <2>1. edits \in Nat
    BY DEF IInv
  <2> QED
    BY <1>5, <2>1, KnownGrows DEF IInv
<1>8. CASE undoable
  <2>1. commands \in Seq(Recorded(n))
    BY <1>1, <1>2, <1>5, BatchRecorded
  <2>2. closed \in Seq(Composites(n))
    <3>1. pending # <<>> => pending \in Composites(n)
      BY <1>7 DEF Composites
    <3>2. pending # <<>> => Append(undoStack, pending) \in Seq(Composites(n))
      BY <1>7, <3>1
    <3> QED
      BY <1>3, <1>7, <3>2, TrimmedStays
  <2>3. commands # <<>> => Trimmed(Append(closed, commands)) \in Seq(Composites(n))
    <3>1. commands # <<>> => commands \in Composites(n)
      BY <2>1 DEF Composites
    <3>2. commands # <<>> => Append(closed, commands) \in Seq(Composites(n))
      BY <2>2, <3>1
    <3> QED
      BY <3>2, TrimmedStays
  <2>4. undoStack' \in Seq(Composites(n))
    BY <1>4, <1>8, <2>2, <2>3
  <2>5. redoStack' \in {redoStack, <<>>} /\ pending' = <<>>
    BY <1>4, <1>8
  <2>7. redoStack' \in Seq(Composites(n)) /\ pending' \in Seq(Recorded(n))
    BY <1>7, <2>5, EmptySeq
  <2>6. active' = FALSE /\ regular' \in BOOLEAN
    BY <1>4, <1>7, <1>8
  <2> QED
    BY <1>5, <1>6, <2>4, <2>5, <2>6, <2>7 DEF IInv
<1>9. CASE ~undoable
  <2>1. UNCHANGED history /\ regular' \in BOOLEAN
    BY <1>4, <1>7, <1>9 DEF Unrecorded
  <2> QED
    BY <1>5, <1>6, <1>7, <2>1 DEF IInv, history
<1> QED
  BY <1>8, <1>9

(* The stacks of the UndoManager, when it is asked to end, cancel, undo, redo or clear *)
LEMMA ManagerStays ==
  ASSUME IInv,
         BeginTransaction \/ EndTransaction \/ CancelTransaction \/ Undo \/ Redo \/ Clear
  PROVE  IInv' /\ World' \in Descendants(edits, World)
<1>1. PICK n : n = edits /\ n \in Nat /\ n \in 0 .. MaxEdits
  BY DEF IInv
<1>2. /\ undoStack \in Seq(Composites(n)) /\ redoStack \in Seq(Composites(n))
      /\ active \in BOOLEAN /\ pending \in Seq(Recorded(n)) /\ (~active => pending = <<>>)
      /\ regular \in BOOLEAN /\ World \in Worlds(n)
  BY <1>1 DEF IInv
<1>3. edits' = n
  BY <1>1 DEF BeginTransaction, EndTransaction, CancelTransaction, Undo, Redo, Clear
<1>4. ASSUME NEW w, w \in Descendants(n, World), Becomes(w)
      PROVE  World' \in Worlds(n) /\ World' \in Descendants(n, World)
  BY <1>4, Became DEF Descendants
<1>5. World \in Descendants(n, World) /\ (UNCHANGED scene => Becomes(World))
  BY <1>2 DEF Descendants, Becomes, World, scene
<1>6. CASE BeginTransaction
  <2>1. undoStack' \in Seq(Composites(n)) /\ redoStack' \in Seq(Composites(n))
    BY <1>1, <1>2, <1>6, PushStays DEF BeginTransaction
  <2>2. active' = TRUE /\ pending' = <<>> /\ regular' = regular /\ UNCHANGED scene
    BY <1>6 DEF BeginTransaction
  <2>3. pending' \in Seq(Recorded(n))
    BY <2>2, EmptySeq
  <2> QED
    BY <1>1, <1>2, <1>3, <1>4, <1>5, <2>1, <2>2, <2>3 DEF IInv
<1>7. CASE EndTransaction
  <2>1. undoStack' \in Seq(Composites(n)) /\ redoStack' \in Seq(Composites(n))
    BY <1>1, <1>2, <1>7, PushStays DEF EndTransaction
  <2>2. active' = FALSE /\ pending' = <<>> /\ regular' = regular /\ UNCHANGED scene
    BY <1>7 DEF EndTransaction
  <2>3. pending' \in Seq(Recorded(n))
    BY <2>2, EmptySeq
  <2> QED
    BY <1>1, <1>2, <1>3, <1>4, <1>5, <2>1, <2>2, <2>3 DEF IInv
<1>8. CASE CancelTransaction
  <2>1. Backward(World, pending) \in Descendants(n, World)
    BY <1>1, <1>2, CommandsDescend
  <2>2. /\ Becomes(Backward(World, pending)) /\ active' = FALSE /\ pending' = <<>>
        /\ regular' = regular /\ UNCHANGED <<undoStack, redoStack>>
    BY <1>8 DEF CancelTransaction
  <2>3. pending' \in Seq(Recorded(n))
    BY <2>2, EmptySeq
  <2> QED
    BY <1>1, <1>2, <1>3, <1>4, <2>1, <2>2, <2>3 DEF IInv
<1>9. CASE Undo
  <2>1. /\ undoStack # <<>> /\ Becomes(Backward(World, Last(undoStack)))
        /\ undoStack' = Front(undoStack) /\ redoStack' = Append(redoStack, Last(undoStack))
        /\ regular' = (regular /\ pending = <<>>) /\ UNCHANGED <<active, pending>>
    BY <1>9 DEF Undo
  <2> HIDE DEF Composites
  <2>2. PICK commands : commands = Last(undoStack) /\ commands \in Composites(n) /\ Front(undoStack) \in Seq(Composites(n))
    BY <1>2, <2>1, EndEntries
  <2>3. redoStack' \in Seq(Composites(n))
    BY <1>2, <2>1, <2>2
  <2>4. commands \in Seq(Recorded(n))
    BY <2>2 DEF Composites
  <2>5. Backward(World, commands) \in Descendants(n, World)
    BY <1>1, <1>2, <2>4, CommandsDescend
  <2> QED
    BY <1>1, <1>2, <1>3, <1>4, <2>1, <2>2, <2>3, <2>5 DEF IInv
<1>10. CASE Redo
  <2>1. /\ redoStack # <<>> /\ Becomes(Forward(World, Last(redoStack)))
        /\ redoStack' = Front(redoStack) /\ undoStack' = Append(undoStack, Last(redoStack))
        /\ regular' = (regular /\ pending = <<>>) /\ UNCHANGED <<active, pending>>
    BY <1>10 DEF Redo
  <2> HIDE DEF Composites
  <2>2. PICK commands : commands = Last(redoStack) /\ commands \in Composites(n) /\ Front(redoStack) \in Seq(Composites(n))
    BY <1>2, <2>1, EndEntries
  <2>3. undoStack' \in Seq(Composites(n))
    BY <1>2, <2>1, <2>2
  <2>4. commands \in Seq(Recorded(n))
    BY <2>2 DEF Composites
  <2>5. Forward(World, commands) \in Descendants(n, World)
    BY <1>1, <1>2, <2>4, CommandsDescend
  <2> QED
    BY <1>1, <1>2, <1>3, <1>4, <2>1, <2>2, <2>3, <2>5 DEF IInv
<1>11. CASE Clear
  <2>1. /\ undoStack' = <<>> /\ redoStack' = <<>> /\ active' = FALSE /\ pending' = <<>>
        /\ regular' \in BOOLEAN /\ UNCHANGED scene
    BY <1>2, <1>11 DEF Clear
  <2>2. /\ undoStack' \in Seq(Composites(n)) /\ redoStack' \in Seq(Composites(n))
        /\ pending' \in Seq(Recorded(n))
    BY <2>1, EmptySeq
  <2> QED
    BY <1>1, <1>2, <1>3, <1>4, <1>5, <2>1, <2>2 DEF IInv
<1> QED
  BY <1>6, <1>7, <1>8, <1>9, <1>10, <1>11

LEMMA Start == Init => IInv
<1> SUFFICES ASSUME Init PROVE IInv
  OBVIOUS
<1>1. /\ undoStack \in Seq(Composites(edits)) /\ redoStack \in Seq(Composites(edits))
      /\ pending \in Seq(Recorded(edits))
  BY EmptySeq DEF Init
<1>2. World \in Worlds(edits)
  BY DEF Init, World, Worlds
<1>3. MaxEdits \in Nat
  BY ConstantsAssumption
<1>4. edits \in 0 .. MaxEdits
  BY <1>3 DEF Init
<1>5. active \in BOOLEAN /\ pending = <<>> /\ regular \in BOOLEAN
  BY DEF Init
<1> QED
  BY <1>1, <1>2, <1>4, <1>5 DEF IInv

LEMMA Step == ASSUME IInv, [Next]_vars PROVE IInv'
<1>1. ASSUME NEW id \in Ids, SelectObject(id) PROVE IInv'
  <2>1. UNCHANGED <<stores, registered, history, edits, regular>> /\ selected' = id
    BY <1>1 DEF SelectObject
  <2>2. World' \in Worlds(edits)
    BY <2>1 DEF IInv, Worlds, World
  <2> QED
    BY <2>1, <2>2 DEF IInv, history
<1>2. CASE UNCHANGED vars
  BY <1>2 DEF IInv, World, vars, scene, history
<1>3. ASSUME NEW id \in Ids, NEW undoable \in BOOLEAN,
             \/ \E data \in InitialData : AddObject(id, data, undoable)
             \/ RemoveObject(id, undoable)
             \/ \E updates \in Updates(Props) : SetProperties(id, updates, undoable)
             \/ \E p \in Props, value \in Values : SetProperty(id, p, value, undoable)
      PROVE  IInv'
  <2>1. PICK w, cmd : Changes(w, cmd, undoable)
    BY <1>3, EditIsChange
  <2> QED
    BY <2>1, EditStays
<1> QED
  BY <1>1, <1>2, <1>3, BatchStays, ManagerStays DEF Next

------------------------------------------------------------------------------
(* The theorems *)

LEMMA Always == Spec => []IInv
  BY Start, Step, PTL DEF Spec

LEMMA IInvTypes == IInv => TypeOK
<1> SUFFICES ASSUME IInv PROVE TypeOK
  OBVIOUS
<1>1. PICK n : n = edits /\ n \in 0 .. MaxEdits
  BY DEF IInv
<1>2. Known(n) \subseteq Objects
  BY <1>1, NoObject
<1>3. Recorded(n) \subseteq Commands
  BY <1>2 DEF Recorded, Commands
<1>4. Seq(Recorded(n)) \subseteq Seq(Commands)
  BY <1>3
<1>5. Composites(n) \subseteq Seq(Commands) \ {<<>>}
  BY <1>4 DEF Composites
<1>6. Seq(Composites(n)) \subseteq Seq(Seq(Commands) \ {<<>>})
  <2> HIDE DEF Composites
  <2> QED
    BY <1>5
<1>7. stores \in [Ids -> Objects \cup {None}] /\ registered \subseteq Ids /\ selected \in Ids \cup {None}
  BY <1>1, <1>2 DEF IInv, Worlds, World
<1> QED
  BY <1>1, <1>4, <1>6, <1>7 DEF IInv, TypeOK

(* Types: no version passes the number of edits, whatever is undone and redone,
   and what a restore function is given to put back is an object. *)
THEOREM Typed == Spec => []TypeOK
  BY Always, IInvTypes, PTL

(* The scene store lists exactly the objects that have a store
   (multi_store.cpp): in every world that calls, undo, redo and cancelled
   transactions can reach, for every set of objects and any number of calls. *)
THEOREM Agrees == Spec => []RegistryAgrees
<1>1. IInv => RegistryAgrees
  BY DEF IInv, Worlds, World, RegistryAgrees
<1> QED
  BY <1>1, Always, PTL

(* What a step does to the selection *)
LEMMA SelectionStep ==
  ASSUME IInv, [Next]_vars
  PROVE  [\A id \in registered \ registered' : selected' # id]_vars
<1>1. /\ World \in Worlds(edits) /\ edits \in 0 .. MaxEdits
      /\ registered \subseteq Ids /\ None \notin Ids
  BY NoObject DEF IInv, Worlds, World
<1>2. ASSUME World' \in Descendants(edits, World)
      PROVE  \A id \in registered \ registered' : selected' # id
  BY <1>2 DEF Descendants, World
<1>3. ASSUME NEW id \in Ids, NEW undoable \in BOOLEAN, RemoveObject(id, undoable)
      PROVE  \A i \in registered \ registered' : selected' # i
  <2>1. Becomes(WithoutObject(World, id))
    BY <1>3 DEF RemoveObject, Change
  <2> QED
    BY <1>1, <2>1 DEF Becomes, WithoutObject, World
<1>4. ASSUME NEW id \in Ids, NEW undoable \in BOOLEAN, NEW data, AddObject(id, data, undoable)
      PROVE  registered \subseteq registered'
  BY <1>4 DEF AddObject, Change, Becomes, WithObject, World
<1>5. ASSUME NEW id \in Ids, NEW undoable \in BOOLEAN, NEW updates, SetProperties(id, updates, undoable)
      PROVE  registered \subseteq registered'
  BY <1>5 DEF SetProperties, Change, Becomes, Store, World
<1>6. ASSUME NEW id \in Ids, NEW undoable \in BOOLEAN, NEW p, NEW value, SetProperty(id, p, value, undoable)
      PROVE  registered \subseteq registered'
  BY <1>5, <1>6 DEF SetProperty
<1>7. ASSUME NEW batch, NEW undoable \in BOOLEAN, BatchEdit(batch, undoable)
      PROVE  registered \subseteq registered'
  BY <1>7 DEF BatchEdit, Becomes, World
<1>8. ASSUME NEW id \in Ids, SelectObject(id) PROVE registered \subseteq registered'
  BY <1>8 DEF SelectObject
<1>9. CASE BeginTransaction \/ EndTransaction \/ CancelTransaction \/ Undo \/ Redo \/ Clear
  BY <1>2, <1>9, ManagerStays
<1> QED
  BY <1>3, <1>4, <1>5, <1>6, <1>7, <1>8, <1>9 DEF Next

(* An object that goes does not stay selected: neither a call nor the restore
   functions of an undo, a redo or a cancelled transaction, however many they
   are, leave the scene store pointing at it. *)
THEOREM Deselects == Spec => SelectionGoesWithObject
<1>1. IInv /\ [Next]_vars => [\A id \in registered \ registered' : selected' # id]_vars
  BY SelectionStep
<1> QED
  BY <1>1, Always, PTL DEF Spec, SelectionGoesWithObject

------------------------------------------------------------------------------
(* Scenes and the commands between them *)

Scenes == [Ids -> Objects \cup {None}]

(* The command c stands between the scenes x and y. *)
Fits(x, c, y) ==
  /\ c.id \in Ids /\ x[c.id] = c.old /\ y = [x EXCEPT ![c.id] = c.new]
  /\ c.kind = "place" => (c.old = None <=> c.new # None)
  /\ c.kind = "edit" => c.old # None /\ c.new # None /\ Differ(c.old, c.new)

(* A composite stands between two scenes if scenes in between can be found. *)
Way(mid, x, commands, y) ==
  /\ mid \in [1 .. Len(commands) + 1 -> Scenes]
  /\ mid[1] = x /\ mid[Len(commands) + 1] = y
  /\ \A i \in 1 .. Len(commands) : Fits(mid[i], commands[i], mid[i + 1])
Leads(x, commands, y) == \E mid : Way(mid, x, commands, y)

(* An empty list of commands leads from a scene to itself and nowhere else. *)
LEMMA LeadsNowhere ==
  ASSUME NEW x
  PROVE  (x \in Scenes => Leads(x, <<>>, x)) /\ \A y : Leads(x, <<>>, y) => x = y
<1>1. Len(<<>>) = 0 /\ 1 .. 0 = {} /\ 1 .. 1 = {1}
  OBVIOUS
<1>2. ASSUME x \in Scenes PROVE Leads(x, <<>>, x)
  <2>1. Way([i \in 1 .. 1 |-> x], x, <<>>, x)
    BY <1>1, <1>2 DEF Way
  <2> QED
    BY <2>1 DEF Leads
<1>3. ASSUME NEW y, Leads(x, <<>>, y) PROVE x = y
  BY <1>1, <1>3 DEF Leads, Way
<1> QED
  BY <1>2, <1>3

(* One more command leads one scene further. *)
LEMMA LeadsOn ==
  ASSUME NEW C, NEW commands \in Seq(C), NEW c \in C,
         NEW x, NEW y, NEW z \in Scenes, Leads(x, commands, y), Fits(y, c, z)
  PROVE  Leads(x, Append(commands, c), z)
<1> DEFINE n == Len(commands)
<1>1. n \in Nat
  OBVIOUS
<1>2. PICK mid : Way(mid, x, commands, y)
  BY DEF Leads
<1>3. PICK more : more = Append(commands, c)
  OBVIOUS
<1>4. Len(more) = n + 1 /\ more[n + 1] = c /\ \A i \in 1 .. n : more[i] = commands[i]
  BY <1>3
<1>5. /\ mid \in [1 .. n + 1 -> Scenes] /\ mid[1] = x /\ mid[n + 1] = y
      /\ \A i \in 1 .. n : Fits(mid[i], commands[i], mid[i + 1])
  BY <1>2 DEF Way
<1> HIDE DEF n
<1>6. PICK far : far = [i \in 1 .. n + 2 |-> IF i = n + 2 THEN z ELSE mid[i]]
  OBVIOUS
<1>7. /\ far \in [1 .. n + 2 -> Scenes] /\ far[1] = x /\ far[n + 2] = z
      /\ \A i \in 1 .. n + 1 : far[i] = mid[i]
  <2>1. \A i \in 1 .. n + 2 : i # n + 2 => i \in 1 .. n + 1
    BY <1>1
  <2>2. 1 \in 1 .. n + 1 /\ n + 2 \in 1 .. n + 2 /\ \A i \in 1 .. n + 1 : i \in 1 .. n + 2 /\ i # n + 2
    BY <1>1
  <2> QED
    BY <1>5, <1>6, <2>1, <2>2
<1>8. ASSUME NEW i \in 1 .. n + 1 PROVE Fits(far[i], more[i], far[i + 1])
  <2>1. CASE i = n + 1
    <3>1. i + 1 = n + 2 /\ far[i] = y
      BY <1>1, <1>5, <1>7, <2>1
    <3> QED
      BY <1>4, <1>7, <2>1, <3>1
  <2>2. CASE i # n + 1
    <3>1. i \in 1 .. n /\ i + 1 \in 1 .. n + 1
      BY <1>1, <2>2
    <3> QED
      BY <1>4, <1>5, <1>7, <3>1
  <2> QED
    BY <2>1, <2>2
<1>9. Len(more) + 1 = n + 2
  BY <1>1, <1>4
<1>10. Way(far, x, more, z)
  BY <1>4, <1>7, <1>8, <1>9 DEF Way
<1> QED
  BY <1>3, <1>10 DEF Leads

(* A single command leads where it fits. *)
LEMMA LeadsOnce ==
  ASSUME NEW c, NEW x \in Scenes, NEW z \in Scenes, Fits(x, c, z)
  PROVE  Leads(x, <<c>>, z)
<1>1. <<>> \in Seq({c}) /\ c \in {c}
  BY EmptySeq
<1>2. Leads(x, <<>>, x)
  BY LeadsNowhere
<1>3. Leads(x, Append(<<>>, c), z)
  BY <1>1, <1>2, LeadsOn
<1>4. Append(<<>>, c) = <<c>>
  OBVIOUS
<1> QED
  BY <1>3, <1>4

(* The restore functions take a world from one scene to the other. *)
LEMMA RestoreFits ==
  ASSUME NEW n \in 0 .. MaxEdits, NEW w \in Worlds(n), NEW c \in Recorded(n), NEW z \in Scenes
  PROVE  /\ Fits(z, c, w.stores) => Restore(w, c, c.old).stores = z
         /\ Fits(w.stores, c, z) => Restore(w, c, c.new).stores = z
<1>1. /\ c.id \in Ids /\ c.kind \in {"place", "edit"} /\ w.stores \in Scenes
      /\ w = [stores |-> w.stores, registered |-> w.registered, selected |-> w.selected]
  BY NoObject DEF Recorded, Worlds, Scenes
<1>2. ASSUME NEW object, w.stores[c.id] # object,
             c.kind = "place" => (object = None <=> w.stores[c.id] # None),
             c.kind = "edit" => w.stores[c.id] # None /\ Differ(w.stores[c.id], object)
      PROVE  Restore(w, c, object).stores = [w.stores EXCEPT ![c.id] = object]
  <2>1. CASE c.kind = "place" /\ object = None
    BY <1>1, <2>1 DEF Restore, WithoutObject
  <2>2. CASE c.kind = "place" /\ object # None
    BY <1>1, <1>2, <2>2 DEF Restore, WithObject, Present
  <2>3. CASE c.kind = "edit"
    BY <1>1, <1>2, <2>3 DEF Restore, Store, Present
  <2> QED
    BY <1>1, <2>1, <2>2, <2>3
<1>3. ASSUME Fits(z, c, w.stores) PROVE Restore(w, c, c.old).stores = z
  <2>1. w.stores = [z EXCEPT ![c.id] = c.new] /\ z[c.id] = c.old /\ w.stores[c.id] = c.new
    BY <1>1, <1>3 DEF Fits, Scenes
  <2>2. /\ c.new # c.old /\ (c.kind = "place" => (c.old = None <=> c.new # None))
        /\ (c.kind = "edit" => c.new # None /\ Differ(c.new, c.old))
    BY <1>1, <1>3 DEF Fits, Differ
  <2>3. Restore(w, c, c.old).stores = [w.stores EXCEPT ![c.id] = c.old]
    BY <1>2, <2>1, <2>2
  <2>4. [w.stores EXCEPT ![c.id] = c.old] = z
    BY <1>1, <2>1 DEF Scenes
  <2> QED
    BY <2>3, <2>4
<1>4. ASSUME Fits(w.stores, c, z) PROVE Restore(w, c, c.new).stores = z
  <2>1. z = [w.stores EXCEPT ![c.id] = c.new] /\ w.stores[c.id] = c.old
    BY <1>4 DEF Fits
  <2>2. /\ c.new # c.old /\ (c.kind = "place" => (c.new = None <=> c.old # None))
        /\ (c.kind = "edit" => c.old # None /\ Differ(c.old, c.new))
    BY <1>1, <1>4 DEF Fits, Differ
  <2> QED
    BY <1>2, <2>1, <2>2
<1> QED
  BY <1>3, <1>4

(* So does a composite, whose old states are restored in reverse and whose new
   states are restored in order. *)
LEMMA BackwardLeads ==
  ASSUME NEW n \in 0 .. MaxEdits, NEW w \in Worlds(n), NEW commands \in Seq(Recorded(n)),
         NEW x, Leads(x, commands, w.stores)
  PROVE  Backward(w, commands) \in Worlds(n) /\ Backward(w, commands).stores = x
<1> DEFINE k == Len(commands)
<1>1. k \in Nat /\ DOMAIN commands = 1 .. k
  OBVIOUS
<1>2. PICK mid : Way(mid, x, commands, w.stores)
  BY DEF Leads
<1>3. /\ mid \in [1 .. k + 1 -> Scenes] /\ mid[1] = x /\ mid[k + 1] = w.stores
      /\ \A i \in 1 .. k : Fits(mid[i], commands[i], mid[i + 1]) /\ commands[i] \in Recorded(n)
  BY <1>2 DEF Way
<1>4. \A v \in Worlds(n), c \in Recorded(n) : Restore(v, c, c.old) \in Worlds(n)
  BY RestoreAgrees DEF Recorded
<1>5. PICK h : IsBackwardFold(h, Worlds(n), w, commands)
  BY <1>4, BackwardFold
<1> HIDE DEF k
<1>6. /\ h \in [SUBSET (1 .. k) -> Worlds(n)] /\ Backward(w, commands) = h[1 .. k]
      /\ h[{}] = w
      /\ \A s \in SUBSET (1 .. k) : s # {} =>
           h[s] = Restore(h[s \ {Min(s)}], commands[Min(s)], commands[Min(s)].old)
  BY <1>1, <1>5 DEF IsBackwardFold
<1> DEFINE T == {i \in 0 .. k : h[i + 1 .. k].stores = mid[i + 1]}
<1>7. k \in T
  <2>1. k + 1 .. k = {} /\ k \in 0 .. k
    BY <1>1
  <2>2. h[k + 1 .. k].stores = mid[k + 1]
    BY <1>3, <1>6, <2>1
  <2> QED
    BY <2>1, <2>2
<1>8. ASSUME NEW i \in 0 .. k - 1, i + 1 \in T PROVE i \in T
  <2>1. /\ i + 1 \in 1 .. k /\ i + 1 + 1 \in 1 .. k + 1 /\ i + 1 \in 1 .. k + 1 /\ i \in 0 .. k
    BY <1>1
  <2>2. PICK j \in 1 .. k : j = i + 1
    BY <2>1
  <2>3. /\ j .. k \in SUBSET (1 .. k) /\ j .. k # {} /\ Min(j .. k) = j /\ (j .. k) \ {j} = j + 1 .. k
        /\ j + 1 .. k \in SUBSET (1 .. k)
    <3>1. j \in 1 .. k + 1 /\ j + 1 \in 1 .. k + 1
      BY <1>1
    <3> QED
      BY <1>1, <3>1, Interval, FromBelow
  <2>4. h[j .. k] = Restore(h[j + 1 .. k], commands[j], commands[j].old)
    BY <1>6, <2>3
  <2>5. h[j + 1 .. k].stores = mid[j + 1]
    BY <1>8, <2>2
  <2>6. h[j + 1 .. k] \in Worlds(n) /\ mid[j] \in Scenes /\ commands[j] \in Recorded(n)
    BY <1>1, <1>3, <1>6, <2>3
  <2>7. Fits(mid[j], commands[j], h[j + 1 .. k].stores)
    BY <1>3, <2>5
  <2>8. h[j .. k].stores = mid[j]
    BY <2>4, <2>6, <2>7, RestoreFits
  <2> QED
    BY <2>1, <2>2, <2>8
<1> HIDE DEF T
<1>9. 0 \in T
  <2>1. \A i \in 0 .. k : i \in T
    BY <1>1, <1>7, <1>8, Downwards
  <2> QED
    BY <1>1, <2>1
<1>10. h[1 .. k].stores = x
  BY <1>3, <1>9 DEF T
<1>11. h[1 .. k] \in Worlds(n)
  BY <1>6
<1> QED
  BY <1>6, <1>10, <1>11

(* Redoing commands that lead somewhere leads there. *)
LEMMA ForwardLeads ==
  ASSUME NEW n \in 0 .. MaxEdits, NEW w \in Worlds(n), NEW commands \in Seq(Recorded(n)),
         NEW y, Leads(w.stores, commands, y)
  PROVE  Forward(w, commands) \in Worlds(n) /\ Forward(w, commands).stores = y
<1> DEFINE k == Len(commands)
<1>1. k \in Nat /\ DOMAIN commands = 1 .. k
  OBVIOUS
<1>2. PICK mid : Way(mid, w.stores, commands, y)
  BY DEF Leads
<1>3. /\ mid \in [1 .. k + 1 -> Scenes] /\ mid[1] = w.stores /\ mid[k + 1] = y
      /\ \A i \in 1 .. k : Fits(mid[i], commands[i], mid[i + 1]) /\ commands[i] \in Recorded(n)
  BY <1>2 DEF Way
<1>4. \A v \in Worlds(n), c \in Recorded(n) : Restore(v, c, c.new) \in Worlds(n)
  BY RestoreAgrees DEF Recorded
<1>5. PICK h : IsForwardFold(h, Worlds(n), w, commands)
  BY <1>4, ForwardFold
<1> HIDE DEF k
<1>6. /\ h \in [SUBSET (1 .. k) -> Worlds(n)] /\ Forward(w, commands) = h[1 .. k]
      /\ h[{}] = w
      /\ \A s \in SUBSET (1 .. k) : s # {} =>
           h[s] = Restore(h[s \ {Max(s)}], commands[Max(s)], commands[Max(s)].new)
  BY <1>1, <1>5 DEF IsForwardFold
<1> DEFINE T == {i \in 0 .. k : h[1 .. i].stores = mid[i + 1]}
<1>7. 0 \in T
  BY <1>1, <1>3, <1>6, Interval
<1>8. ASSUME NEW i \in 0 .. k - 1, i \in T PROVE i + 1 \in T
  <2>1. PICK j \in 1 .. k : j = i + 1
    BY <1>1
  <2>2. j - 1 = i /\ j \in 0 .. k /\ j - 1 \in 0 .. k /\ j \in 1 .. k + 1 /\ j + 1 \in 1 .. k + 1
    BY <1>1, <2>1
  <2>3. /\ 1 .. j \in SUBSET (1 .. k) /\ 1 .. j # {} /\ Max(1 .. j) = j /\ (1 .. j) \ {j} = 1 .. j - 1
        /\ 1 .. j - 1 \in SUBSET (1 .. k)
    <3>1. 1 .. j \in SUBSET (1 .. k) /\ 1 .. j - 1 \in SUBSET (1 .. k)
      BY <1>1, <2>2, Interval
    <3>2. 1 .. j # {} /\ Max(1 .. j) = j /\ (1 .. j) \ {j} = 1 .. j - 1
      <4>1. j \in Nat /\ j # 0
        BY <1>1
      <4> QED
        BY <4>1, FromAbove
    <3> QED
      BY <3>1, <3>2
  <2>4. h[1 .. j] = Restore(h[1 .. j - 1], commands[j], commands[j].new)
    BY <1>6, <2>3
  <2>5. h[1 .. j - 1].stores = mid[j]
    BY <1>8, <2>1, <2>2
  <2>6. h[1 .. j - 1] \in Worlds(n) /\ mid[j + 1] \in Scenes /\ commands[j] \in Recorded(n)
    BY <1>1, <1>3, <1>6, <2>2, <2>3
  <2>7. Fits(h[1 .. j - 1].stores, commands[j], mid[j + 1])
    BY <1>3, <2>5
  <2>8. h[1 .. j].stores = mid[j + 1]
    BY <2>4, <2>6, <2>7, RestoreFits
  <2> QED
    BY <2>1, <2>2, <2>8
<1> HIDE DEF T
<1>9. k \in T
  <2>1. \A i \in 0 .. k : i \in T
    BY <1>1, <1>7, <1>8, Upwards
  <2> QED
    BY <1>1, <2>1
<1>10. h[1 .. k].stores = y
  BY <1>3, <1>9 DEF T
<1>11. h[1 .. k] \in Worlds(n)
  BY <1>6
<1> QED
  BY <1>6, <1>10, <1>11

------------------------------------------------------------------------------
(* The line of scenes that the stacks stand for *)

Links == {t \in Scenes \X (Seq(Commands) \ {<<>>}) \X Scenes : Leads(t[1], t[2], t[3])}

(* Each link of the line is a composite that leads from one scene to the next. *)
LEMMA LinkLeads == ASSUME NEW x, NEW c, NEW y, <<x, c, y>> \in Links PROVE Leads(x, c, y)
<1>1. PICK t \in Links : t = <<x, c, y>>
  OBVIOUS
<1>2. Leads(t[1], t[2], t[3])
  BY DEF Links
<1> QED
  BY <1>1, <1>2

(* ... and any such composite is a link. *)
LEMMA LeadsLink ==
  ASSUME NEW n \in 0 .. MaxEdits, NEW x \in Scenes, NEW c \in Composites(n), NEW y \in Scenes, Leads(x, c, y)
  PROVE  <<x, c, y>> \in Links
<1>1. Known(n) \subseteq Objects
  BY NoObject
<1>2. Recorded(n) \subseteq Commands
  BY <1>1 DEF Recorded, Commands
<1>3. c \in Seq(Commands) \ {<<>>}
  BY <1>2 DEF Composites
<1>4. PICK t \in Scenes \X (Seq(Commands) \ {<<>>}) \X Scenes : t = <<x, c, y>>
  BY <1>3
<1>5. t \in Links
  BY <1>4 DEF Links
<1> QED
  BY <1>4, <1>5

(* Past and Future of any two stacks under any world *)
PastOf(stack, w) ==
  LET n == Len(stack)
      at[i \in 1 .. n + 1] == IF i > n THEN w ELSE Backward(at[i + 1], stack[i])
  IN  [i \in 1 .. n |-> at[i].stores]

FutureOf(stack, w) ==
  LET n == Len(stack)
      at[i \in 1 .. n + 1] == IF i > n THEN w ELSE Forward(at[i + 1], stack[i])
  IN  [i \in 1 .. n |-> at[i].stores]

(* If the commands stand between the scenes of a line, those are the scenes that
   running them finds. *)
LEMMA PastIs ==
  ASSUME NEW m \in 0 .. MaxEdits, NEW w \in Worlds(m), NEW stack \in Seq(Composites(m)),
         NEW past \in Seq(Scenes), Len(past) = Len(stack),
         \A i \in 1 .. Len(stack) :
           <<SceneAt(past, w.stores, i), stack[i], SceneAt(past, w.stores, i + 1)>> \in Links
  PROVE  PastOf(stack, w) = past
<1> DEFINE n == Len(stack)
           Solves(f) == f = [i \in 1 .. n + 1 |-> IF i > n THEN w ELSE Backward(f[i + 1], stack[i])]
           at == CHOOSE f : Solves(f)
           step == [i \in 1 .. n |-> [x \in Worlds(m) |-> Backward(x, stack[i])]]
<1>1. n \in Nat /\ \A i \in 1 .. n : stack[i] \in Seq(Recorded(m))
  BY DEF Composites
<1>2. \A x \in Worlds(m), i \in 1 .. n : Backward(x, stack[i]) \in Worlds(m)
  BY <1>1, CommandsDescend DEF Descendants
<1>3. step \in [1 .. n -> [Worlds(m) -> Worlds(m)]]
  <2>1. ASSUME NEW i \in 1 .. n PROVE [x \in Worlds(m) |-> Backward(x, stack[i])] \in [Worlds(m) -> Worlds(m)]
    BY <1>2
  <2> QED
    BY <2>1
<1>4. \A i \in 1 .. n, x \in Worlds(m) : step[i][x] = Backward(x, stack[i])
  OBVIOUS
<1> HIDE DEF step
<1>5. PICK g \in [1 .. n + 1 -> Worlds(m)] : g[n + 1] = w /\ \A i \in 1 .. n : g[i] = step[i][g[i + 1]]
  <2>1. PICK C : C = Worlds(m)
    OBVIOUS
  <2>2. n \in Nat /\ w \in C /\ Steps(step, 1 .. n, C)
    BY <1>1, <1>3, <2>1 DEF Steps
  <2> HIDE DEF n
  <2>3. \E g : Descends(g, n, C, w, step)
    BY <2>2, Ladder
  <2> QED
    BY <2>1, <2>3 DEF Descends
<1>6. Solves(g)
  <2> HIDE DEF n
  <2>1. g = [i \in 1 .. n + 1 |-> g[i]]
    OBVIOUS
  <2>2. ASSUME NEW i \in 1 .. n + 1 PROVE g[i] = IF i > n THEN w ELSE Backward(g[i + 1], stack[i])
    <3>1. CASE i > n
      <4>1. i = n + 1
        BY <1>1, <3>1
      <4> QED
        BY <1>5, <3>1, <4>1
    <3>2. CASE ~(i > n)
      <4>1. i \in 1 .. n /\ i + 1 \in 1 .. n + 1
        BY <1>1, <3>2
      <4>2. g[i + 1] \in Worlds(m)
        BY <4>1
      <4> QED
        BY <1>4, <1>5, <3>2, <4>1, <4>2
    <3> QED
      BY <3>1, <3>2
  <2> QED
    BY <2>1, <2>2
<1>7. Solves(at)
  BY <1>6
<1>8. PastOf(stack, w) = [i \in 1 .. n |-> at[i].stores]
  BY DEF PastOf
<1>9. PICK a : a = at
  OBVIOUS
<1>10. /\ PastOf(stack, w) = [i \in 1 .. n |-> a[i].stores]
       /\ \A i \in 1 .. n + 1 : a[i] = IF i > n THEN w ELSE Backward(a[i + 1], stack[i])
  <2>1. a = [i \in 1 .. n + 1 |-> IF i > n THEN w ELSE Backward(a[i + 1], stack[i])]
    BY <1>7, <1>9
  <2> QED
    BY <1>8, <1>9, <2>1
<1> HIDE DEF n, at, Solves
<1> DEFINE T == {i \in 0 .. n : a[i + 1] \in Worlds(m) /\ a[i + 1].stores = SceneAt(past, w.stores, i + 1)}
<1>11. Len(past) = n /\ \A i \in 1 .. n : Leads(SceneAt(past, w.stores, i), stack[i], SceneAt(past, w.stores, i + 1))
  BY LinkLeads DEF n
<1>12. n \in T
  <2>1. n + 1 \in 1 .. n + 1 /\ n + 1 > n /\ ~(n + 1 <= n) /\ n \in 0 .. n
    BY <1>1
  <2> QED
    BY <1>10, <1>11, <2>1 DEF SceneAt
<1>13. ASSUME NEW i \in 0 .. n - 1, i + 1 \in T PROVE i \in T
  <2>1. PICK j \in 1 .. n : j = i + 1
    BY <1>1
  <2>2. j \in 1 .. n + 1 /\ ~(j > n) /\ i \in 0 .. n
    BY <1>1, <2>1
  <2>3. a[j] = Backward(a[j + 1], stack[j])
    BY <1>10, <2>2
  <2>4. a[j + 1] \in Worlds(m) /\ a[j + 1].stores = SceneAt(past, w.stores, j + 1)
    BY <1>13, <2>1
  <2>6. PICK v : v = a[j + 1]
    OBVIOUS
  <2>7. PICK x : x = SceneAt(past, w.stores, j)
    OBVIOUS
  <2>8. v \in Worlds(m) /\ stack[j] \in Seq(Recorded(m)) /\ Leads(x, stack[j], v.stores)
    BY <1>1, <1>11, <2>4, <2>6, <2>7
  <2>9. Backward(v, stack[j]) \in Worlds(m) /\ Backward(v, stack[j]).stores = x
    BY <2>8, BackwardLeads
  <2>5. a[j] \in Worlds(m) /\ a[j].stores = SceneAt(past, w.stores, j)
    BY <2>3, <2>6, <2>7, <2>9
  <2> QED
    BY <2>1, <2>2, <2>5
<1>14. \A i \in 0 .. n : i \in T
  <2> HIDE DEF T
  <2> QED
    BY <1>1, <1>12, <1>13, Downwards
<1>15. ASSUME NEW i \in 1 .. n PROVE a[i].stores = past[i]
  <2>1. PICK j \in 0 .. n : j + 1 = i /\ j = i - 1
    BY <1>1
  <2>2. a[i].stores = SceneAt(past, w.stores, i)
    BY <1>14, <2>1
  <2> QED
    BY <1>1, <1>11, <2>2 DEF SceneAt
<1>16. past = [i \in 1 .. n |-> past[i]]
  BY <1>1, <1>11
<1> QED
  BY <1>10, <1>15, <1>16

(* The future the mapping computes from the redo stack is the future of the line. *)
LEMMA FutureIs ==
  ASSUME NEW m \in 0 .. MaxEdits, NEW w \in Worlds(m), NEW stack \in Seq(Composites(m)),
         NEW future \in Seq(Scenes), Len(future) = Len(stack),
         \A i \in 1 .. Len(stack) :
           <<SceneAt(future, w.stores, i + 1), stack[i], SceneAt(future, w.stores, i)>> \in Links
  PROVE  FutureOf(stack, w) = future
<1> DEFINE n == Len(stack)
           Solves(f) == f = [i \in 1 .. n + 1 |-> IF i > n THEN w ELSE Forward(f[i + 1], stack[i])]
           at == CHOOSE f : Solves(f)
           step == [i \in 1 .. n |-> [x \in Worlds(m) |-> Forward(x, stack[i])]]
<1>1. n \in Nat /\ \A i \in 1 .. n : stack[i] \in Seq(Recorded(m))
  BY DEF Composites
<1>2. \A x \in Worlds(m), i \in 1 .. n : Forward(x, stack[i]) \in Worlds(m)
  BY <1>1, CommandsDescend DEF Descendants
<1>3. step \in [1 .. n -> [Worlds(m) -> Worlds(m)]]
  <2>1. ASSUME NEW i \in 1 .. n PROVE [x \in Worlds(m) |-> Forward(x, stack[i])] \in [Worlds(m) -> Worlds(m)]
    BY <1>2
  <2> QED
    BY <2>1
<1>4. \A i \in 1 .. n, x \in Worlds(m) : step[i][x] = Forward(x, stack[i])
  OBVIOUS
<1> HIDE DEF step
<1>5. PICK g \in [1 .. n + 1 -> Worlds(m)] : g[n + 1] = w /\ \A i \in 1 .. n : g[i] = step[i][g[i + 1]]
  <2>1. PICK C : C = Worlds(m)
    OBVIOUS
  <2>2. n \in Nat /\ w \in C /\ Steps(step, 1 .. n, C)
    BY <1>1, <1>3, <2>1 DEF Steps
  <2> HIDE DEF n
  <2>3. \E g : Descends(g, n, C, w, step)
    BY <2>2, Ladder
  <2> QED
    BY <2>1, <2>3 DEF Descends
<1>6. Solves(g)
  <2> HIDE DEF n
  <2>1. g = [i \in 1 .. n + 1 |-> g[i]]
    OBVIOUS
  <2>2. ASSUME NEW i \in 1 .. n + 1 PROVE g[i] = IF i > n THEN w ELSE Forward(g[i + 1], stack[i])
    <3>1. CASE i > n
      <4>1. i = n + 1
        BY <1>1, <3>1
      <4> QED
        BY <1>5, <3>1, <4>1
    <3>2. CASE ~(i > n)
      <4>1. i \in 1 .. n /\ i + 1 \in 1 .. n + 1
        BY <1>1, <3>2
      <4>2. g[i + 1] \in Worlds(m)
        BY <4>1
      <4> QED
        BY <1>4, <1>5, <3>2, <4>1, <4>2
    <3> QED
      BY <3>1, <3>2
  <2> QED
    BY <2>1, <2>2
<1>7. Solves(at)
  BY <1>6
<1>8. FutureOf(stack, w) = [i \in 1 .. n |-> at[i].stores]
  BY DEF FutureOf
<1>9. PICK a : a = at
  OBVIOUS
<1>10. /\ FutureOf(stack, w) = [i \in 1 .. n |-> a[i].stores]
       /\ \A i \in 1 .. n + 1 : a[i] = IF i > n THEN w ELSE Forward(a[i + 1], stack[i])
  <2>1. a = [i \in 1 .. n + 1 |-> IF i > n THEN w ELSE Forward(a[i + 1], stack[i])]
    BY <1>7, <1>9
  <2> QED
    BY <1>8, <1>9, <2>1
<1> HIDE DEF n, at, Solves
<1> DEFINE T == {i \in 0 .. n : a[i + 1] \in Worlds(m) /\ a[i + 1].stores = SceneAt(future, w.stores, i + 1)}
<1>11. Len(future) = n /\ \A i \in 1 .. n : Leads(SceneAt(future, w.stores, i + 1), stack[i], SceneAt(future, w.stores, i))
  BY LinkLeads DEF n
<1>12. n \in T
  <2>1. n + 1 \in 1 .. n + 1 /\ n + 1 > n /\ ~(n + 1 <= n) /\ n \in 0 .. n
    BY <1>1
  <2> QED
    BY <1>10, <1>11, <2>1 DEF SceneAt
<1>13. ASSUME NEW i \in 0 .. n - 1, i + 1 \in T PROVE i \in T
  <2>1. PICK j \in 1 .. n : j = i + 1
    BY <1>1
  <2>2. j \in 1 .. n + 1 /\ ~(j > n) /\ i \in 0 .. n
    BY <1>1, <2>1
  <2>3. a[j] = Forward(a[j + 1], stack[j])
    BY <1>10, <2>2
  <2>4. a[j + 1] \in Worlds(m) /\ a[j + 1].stores = SceneAt(future, w.stores, j + 1)
    BY <1>13, <2>1
  <2>6. PICK v : v = a[j + 1]
    OBVIOUS
  <2>7. PICK x : x = SceneAt(future, w.stores, j)
    OBVIOUS
  <2>8. v \in Worlds(m) /\ stack[j] \in Seq(Recorded(m)) /\ Leads(v.stores, stack[j], x)
    BY <1>1, <1>11, <2>4, <2>6, <2>7
  <2>9. Forward(v, stack[j]) \in Worlds(m) /\ Forward(v, stack[j]).stores = x
    BY <2>8, ForwardLeads
  <2>5. a[j] \in Worlds(m) /\ a[j].stores = SceneAt(future, w.stores, j)
    BY <2>3, <2>6, <2>7, <2>9
  <2> QED
    BY <2>1, <2>2, <2>5
<1>14. \A i \in 0 .. n : i \in T
  <2> HIDE DEF T
  <2> QED
    BY <1>1, <1>12, <1>13, Downwards
<1>15. ASSUME NEW i \in 1 .. n PROVE a[i].stores = future[i]
  <2>1. PICK j \in 0 .. n : j + 1 = i /\ j = i - 1
    BY <1>1
  <2>2. a[i].stores = SceneAt(future, w.stores, i)
    BY <1>14, <2>1
  <2> QED
    BY <1>1, <1>11, <2>2 DEF SceneAt
<1>16. future = [i \in 1 .. n |-> future[i]]
  BY <1>1, <1>11
<1> QED
  BY <1>10, <1>15, <1>16

(* The line the mapping computes is the one the stacks stand for. *)
LEMMA LineIs ==
  ASSUME NEW n \in 0 .. MaxEdits, NEW w \in Worlds(n), NEW commands \in Seq(Recorded(n)),
         NEW undo \in Seq(Composites(n)), NEW redo \in Seq(Composites(n)),
         NEW past, NEW present, NEW future, IsLine(Scenes, Links, past, present, future, undo, redo),
         Leads(present, commands, w.stores)
  PROVE  /\ Backward(w, commands).stores = present
         /\ PastOf(undo, Backward(w, commands)) = past
         /\ FutureOf(redo, Backward(w, commands)) = future
<1>1. PICK c : c = Backward(w, commands)
  OBVIOUS
<1>2. c \in Worlds(n) /\ c.stores = present
  BY <1>1, BackwardLeads
<1>3. past \in Seq(Scenes) /\ Len(past) = Len(undo) /\ future \in Seq(Scenes) /\ Len(future) = Len(redo)
  BY DEF IsLine
<1>4. \A i \in 1 .. Len(undo) :
        <<SceneAt(past, c.stores, i), undo[i], SceneAt(past, c.stores, i + 1)>> \in Links
  BY <1>2 DEF IsLine
<1>5. \A i \in 1 .. Len(redo) :
        <<SceneAt(future, c.stores, i + 1), redo[i], SceneAt(future, c.stores, i)>> \in Links
  BY <1>2 DEF IsLine
<1>6. PastOf(undo, c) = past
  BY <1>2, <1>3, <1>4, PastIs
<1>7. FutureOf(redo, c) = future
  BY <1>2, <1>3, <1>5, FutureIs
<1> QED
  BY <1>1, <1>2, <1>6, <1>7

(* The invariant of the refinement: the history fits, and while the calls are
   those undo is meant for there is a line of scenes with the commands on the
   stacks between them, and those of the transaction between its present one and
   the stores. *)
HasLine(past, present, future) ==
  /\ IsLine(Scenes, Links, past, present, future, undoStack, redoStack)
  /\ Leads(present, pending, stores)

LineInv ==
  /\ Len(undoStack) + Len(redoStack) <= MaxHistory
  /\ regular => \E past, present, future : HasLine(past, present, future)

(* ... in this state, *)
LEMMA LineNow ==
  ASSUME IInv, NEW past, NEW present, NEW future, HasLine(past, present, future)
  PROVE  Past = past /\ Committed.stores = present /\ Future = future
<1>1. /\ edits \in 0 .. MaxEdits /\ World \in Worlds(edits) /\ World.stores = stores
      /\ pending \in Seq(Recorded(edits))
      /\ undoStack \in Seq(Composites(edits)) /\ redoStack \in Seq(Composites(edits))
  BY DEF IInv, World
<1>2. /\ Backward(World, pending).stores = present
      /\ PastOf(undoStack, Backward(World, pending)) = past
      /\ FutureOf(redoStack, Backward(World, pending)) = future
  BY <1>1, LineIs DEF HasLine
<1>3. Past = PastOf(undoStack, Backward(World, pending)) /\ Future = FutureOf(redoStack, Backward(World, pending))
  BY DEF Past, Future, PastOf, FutureOf, Committed
<1> QED
  BY <1>2, <1>3 DEF Committed

(* ... and in the next. *)
LEMMA LineNext ==
  ASSUME IInv', NEW past, NEW present, NEW future, HasLine(past, present, future)'
  PROVE  Past' = past /\ (Committed.stores)' = present /\ Future' = future
<1>1. /\ edits' \in 0 .. MaxEdits /\ World' \in Worlds(edits') /\ (World').stores = stores'
      /\ pending' \in Seq(Recorded(edits'))
      /\ undoStack' \in Seq(Composites(edits')) /\ redoStack' \in Seq(Composites(edits'))
  BY DEF IInv, World
<1>2. /\ Backward(World', pending').stores = present
      /\ PastOf(undoStack', Backward(World', pending')) = past
      /\ FutureOf(redoStack', Backward(World', pending')) = future
  BY <1>1, LineIs DEF HasLine
<1>3. /\ Past' = PastOf(undoStack', Backward(World', pending'))
      /\ Future' = FutureOf(redoStack', Backward(World', pending'))
  BY DEF Past, Future, PastOf, FutureOf, Committed
<1> QED
  BY <1>2, <1>3 DEF Committed

(* What EditHistory lets happen to a line *)
Follows(p, q, f, r, s, g) ==
  \/ r = p /\ s = q /\ g = f
  \/ s \in Scenes /\ r = LatestOf(Append(p, q), MaxHistory) /\ g = <<>>
  \/ p # <<>> /\ s = p[Len(p)] /\ r = SubSeq(p, 1, Len(p) - 1) /\ g = Append(f, q)
  \/ f # <<>> /\ s = f[Len(f)] /\ g = SubSeq(f, 1, Len(f) - 1) /\ r = Append(p, q)
  \/ r = <<>> /\ g = <<>> /\ s = q
  \/ \E new \in SUBSET Ids :
       LET With(z) == [id \in Ids |-> IF id \in new THEN s[id] ELSE z[id]]
       IN  /\ s \in Scenes /\ s = With(q)
           /\ r = [i \in DOMAIN p |-> With(p[i])] /\ g = [i \in DOMAIN f |-> With(f[i])]

(* A step along the line is a step of EditHistory, or none. *)
LEMMA FollowsIsNext ==
  ASSUME NEW p, NEW q, NEW f, NEW r, NEW s, NEW g, Follows(p, q, f, r, s, g),
         Past = p, Committed.stores = q, Future = f,
         Past' = r, (Committed.stores)' = s, Future' = g
  PROVE  Line!Next \/ UNCHANGED Line!history
<1>1. Line!Scenes = Scenes /\ \A line : Line!Latest(line) = LatestOf(line, MaxHistory)
  BY DEF Line!Scenes, Scenes, Line!Latest, LatestOf
<1>2. CASE r = p /\ s = q /\ g = f
  BY <1>2 DEF Line!history
<1>3. CASE s \in Scenes /\ r = LatestOf(Append(p, q), MaxHistory) /\ g = <<>>
  BY <1>1, <1>3 DEF Line!Next, Line!Edit
<1>4. CASE p # <<>> /\ s = p[Len(p)] /\ r = SubSeq(p, 1, Len(p) - 1) /\ g = Append(f, q)
  BY <1>4 DEF Line!Next, Line!Undo
<1>5. CASE f # <<>> /\ s = f[Len(f)] /\ g = SubSeq(f, 1, Len(f) - 1) /\ r = Append(p, q)
  BY <1>5 DEF Line!Next, Line!Redo
<1>6. CASE r = <<>> /\ g = <<>> /\ s = q
  BY <1>6 DEF Line!Next, Line!Forget
<1>7. ASSUME NEW new \in SUBSET Ids,
             LET With(z) == [id \in Ids |-> IF id \in new THEN s[id] ELSE z[id]]
             IN  /\ s \in Scenes /\ s = With(q)
                 /\ r = [i \in DOMAIN p |-> With(p[i])] /\ g = [i \in DOMAIN f |-> With(f[i])]
      PROVE  Line!Next
  <2>1. Line!Load(new)
    BY <1>1, <1>7 DEF Line!Load
  <2> QED
    BY <2>1 DEF Line!Next
<1> QED
  BY <1>2, <1>3, <1>4, <1>5, <1>6, <1>7 DEF Follows

------------------------------------------------------------------------------
(* Every step goes along the line. *)

Advances(p, q, f) == \E r, s, g : HasLine(r, s, g)' /\ Follows(p, q, f, r, s, g)

(* What the lemmas below start from *)
OnLine(p, q, f) ==
  /\ IInv /\ IInv' /\ HasLine(p, q, f)
  /\ Len(undoStack) + Len(redoStack) <= MaxHistory

(* The types both states of a step have. *)
LEMMA OnLineTypes ==
  ASSUME NEW p, NEW q, NEW f, OnLine(p, q, f), edits' = edits \/ edits' = edits + 1
  PROVE  \E n \in 0 .. MaxEdits :
           /\ n = edits'
           /\ undoStack \in Seq(Composites(n)) /\ redoStack \in Seq(Composites(n))
           /\ undoStack' \in Seq(Composites(n)) /\ redoStack' \in Seq(Composites(n))
           /\ pending \in Seq(Recorded(n)) /\ pending' \in Seq(Recorded(n))
           /\ World \in Worlds(n) /\ stores \in Scenes /\ stores' \in Scenes
           /\ q \in Scenes /\ p \in Seq(Scenes) /\ f \in Seq(Scenes)
<1>1. edits \in 0 .. MaxEdits /\ edits' \in 0 .. MaxEdits
  BY DEF OnLine, IInv
<1>2. /\ undoStack \in Seq(Composites(edits')) /\ redoStack \in Seq(Composites(edits'))
      /\ pending \in Seq(Recorded(edits')) /\ World \in Worlds(edits')
  <2>1. CASE edits' = edits
    BY <2>1 DEF OnLine, IInv
  <2>2. CASE edits' = edits + 1
    <3>1. PICK m \in Nat : m = edits
      BY <1>1
    <3> QED
      BY <2>2, <3>1, KnownGrows DEF OnLine, IInv
  <2> QED
    BY <2>1, <2>2
<1>3. /\ undoStack' \in Seq(Composites(edits')) /\ redoStack' \in Seq(Composites(edits'))
      /\ pending' \in Seq(Recorded(edits')) /\ World' \in Worlds(edits')
  BY DEF OnLine, IInv
<1>4. \A m \in 0 .. MaxEdits : \A w \in Worlds(m) : w.stores \in Scenes
  BY NoObject DEF Worlds, Scenes
<1>5. World.stores = stores /\ (World').stores = stores'
  BY DEF World
<1>6. stores \in Scenes /\ stores' \in Scenes
  BY <1>1, <1>2, <1>3, <1>4, <1>5
<1>7. q \in Scenes /\ p \in Seq(Scenes) /\ f \in Seq(Scenes)
  BY DEF OnLine, HasLine, IsLine
<1> QED
  BY <1>1, <1>2, <1>3, <1>6, <1>7

(* Nothing of the line changes. *)
LEMMA Stay ==
  ASSUME NEW p, NEW q, NEW f, HasLine(p, q, f), UNCHANGED <<undoStack, redoStack>>,
         Leads(q, pending', stores')
  PROVE  Advances(p, q, f)
<1>1. HasLine(p, q, f)'
  BY DEF HasLine
<1> QED
  BY <1>1 DEF Advances, Follows

(* The trim takes at most one entry, as every push adds at most one. *)
LEMMA TrimmedFits ==
  ASSUME NEW C, NEW s \in Seq(C)
  PROVE  /\ Len(Trimmed(s)) \in Nat /\ Len(Trimmed(s)) <= MaxHistory
         /\ Len(s) <= MaxHistory + 1 => Trimmed(s) = LatestOf(s, MaxHistory)
<1>1. Len(s) \in Nat /\ MaxHistory \in Nat \ {0}
  BY ConstantsAssumption
<1>2. CASE Len(s) > MaxHistory
  <2>1. PICK k \in 2 .. Len(s) : k = Len(s) - MaxHistory + 1
    BY <1>1, <1>2
  <2>2. Trimmed(s) = SubSeq(s, k, Len(s))
    BY <1>2, <2>1 DEF Trimmed
  <2>3. SubSeq(s, k, Len(s)) \in Seq(C) /\ Len(SubSeq(s, k, Len(s))) = Len(s) - k + 1
    BY <1>1, <2>1
  <2>4. Len(s) <= MaxHistory + 1 => k = 2 /\ LatestOf(s, MaxHistory) = Tail(s)
    BY <1>1, <1>2, <2>1 DEF LatestOf
  <2>5. s # <<>> /\ SubSeq(s, 2, Len(s)) = Tail(s)
    BY <1>1, <1>2
  <2>6. Len(Trimmed(s)) = Len(s) - k + 1 /\ Len(s) - k + 1 = MaxHistory
    BY <1>1, <2>1, <2>2, <2>3
  <2>7. Len(s) <= MaxHistory + 1 => Trimmed(s) = LatestOf(s, MaxHistory)
    BY <2>2, <2>4, <2>5
  <2>8. Len(Trimmed(s)) = MaxHistory
    BY <2>6
  <2> QED
    BY <1>1, <2>7, <2>8
<1>3. CASE ~(Len(s) > MaxHistory)
  <2>1. Trimmed(s) = SubSeq(s, 1, Len(s)) /\ LatestOf(s, MaxHistory) = s
    BY <1>3 DEF Trimmed, LatestOf
  <2>2. SubSeq(s, 1, Len(s)) = s
    BY <1>1
  <2> QED
    BY <1>1, <1>3, <2>1, <2>2
<1> QED
  BY <1>2, <1>3

(* A composite is pushed: the line goes on from where it leads. *)
LEMMA PushAdvances ==
  ASSUME NEW p, NEW q, NEW f, OnLine(p, q, f), edits' = edits \/ edits' = edits + 1,
         NEW c \in Composites(edits'), NEW y \in Scenes, Leads(q, c, y),
         undoStack' = Trimmed(Append(undoStack, c)), redoStack' = <<>>,
         Leads(y, pending', stores')
  PROVE  Advances(p, q, f)
<1>1. PICK n \in 0 .. MaxEdits :
        /\ n = edits'
        /\ undoStack \in Seq(Composites(n)) /\ redoStack \in Seq(Composites(n))
        /\ q \in Scenes
  BY OnLineTypes
<1>2. <<q, c, y>> \in Links
  BY <1>1, LeadsLink
<1>3. IsLine(Scenes, Links, LatestOf(Append(p, q), MaxHistory), y, <<>>, LatestOf(Append(undoStack, c), MaxHistory), <<>>)
  <2>1. IsLine(Scenes, Links, p, q, f, undoStack, redoStack)
    BY DEF OnLine, HasLine
  <2> QED
    BY <1>1, <1>2, <2>1, LineEdit, ConstantsAssumption
<1>4. Trimmed(Append(undoStack, c)) = LatestOf(Append(undoStack, c), MaxHistory)
  <2>1. Append(undoStack, c) \in Seq(Composites(n)) /\ Len(Append(undoStack, c)) = Len(undoStack) + 1
    BY <1>1
  <2>2. Len(undoStack) \in Nat /\ Len(redoStack) \in Nat /\ MaxHistory \in Nat
    BY <1>1, ConstantsAssumption
  <2>3. Len(Append(undoStack, c)) <= MaxHistory + 1
    BY <2>1, <2>2 DEF OnLine
  <2> QED
    BY <2>1, <2>3, TrimmedFits
<1>5. HasLine(LatestOf(Append(p, q), MaxHistory), y, <<>>)'
  BY <1>3, <1>4 DEF HasLine
<1>6. Follows(p, q, f, LatestOf(Append(p, q), MaxHistory), y, <<>>)
  BY DEF Follows
<1> QED
  BY <1>5, <1>6 DEF Advances

(* A command is recorded, in a transaction or on its own. *)
LEMMA RecordAdvances ==
  ASSUME NEW p, NEW q, NEW f, OnLine(p, q, f), edits' = edits + 1,
         NEW cmd \in Recorded(edits'), Record(cmd), Fits(stores, cmd, stores')
  PROVE  Advances(p, q, f)
<1>1. PICK n \in 0 .. MaxEdits :
        n = edits' /\ pending \in Seq(Recorded(n)) /\ q \in Scenes /\ stores \in Scenes /\ stores' \in Scenes
  BY OnLineTypes
<1>2. Leads(q, pending, stores)
  BY DEF OnLine, HasLine
<1>3. CASE active
  <2>1. pending' = Append(pending, cmd) /\ UNCHANGED <<undoStack, redoStack>>
    BY <1>3 DEF Record
  <2>2. Leads(q, Append(pending, cmd), stores')
    BY <1>1, <1>2, LeadsOn
  <2> QED
    BY <2>1, <2>2, Stay DEF OnLine
<1>4. CASE ~active
  <2>1. pending = <<>> /\ pending' = <<>>
    BY <1>4 DEF OnLine, IInv, Record
  <2>2. q = stores
    BY <1>2, <2>1, LeadsNowhere
  <2>3. Leads(q, <<cmd>>, stores') /\ Leads(stores', <<>>, stores')
    BY <1>1, <2>2, LeadsOnce, LeadsNowhere
  <2>4. <<cmd>> \in Composites(edits') /\ <<cmd>> # <<>>
    BY DEF Composites
  <2>5. undoStack' = Trimmed(Append(undoStack, <<cmd>>)) /\ redoStack' = <<>>
    BY <1>4, <2>4 DEF Record, Push
  <2> QED
    BY <1>1, <2>1, <2>3, <2>4, <2>5, PushAdvances
<1> QED
  BY <1>3, <1>4

(* The scenes with some objects as they are now *)
Shift(touched, now, z) == [id \in Ids |-> IF id \in touched THEN now[id] ELSE z[id]]

(* Commands lead the same way beside what no command of theirs is about. *)
LEMMA LeadsShift ==
  ASSUME NEW touched \in SUBSET Ids, NEW now \in Scenes, NEW C, NEW commands \in Seq(C),
         NEW x, NEW y, Leads(x, commands, y),
         \A i \in DOMAIN commands : commands[i].id \notin touched
  PROVE  Leads(Shift(touched, now, x), commands, Shift(touched, now, y))
<1> DEFINE n == Len(commands)
<1>1. n \in Nat /\ DOMAIN commands = 1 .. n
  OBVIOUS
<1>2. PICK mid : Way(mid, x, commands, y)
  BY DEF Leads
<1> HIDE DEF n
<1>3. /\ mid \in [1 .. n + 1 -> Scenes] /\ mid[1] = x /\ mid[n + 1] = y
      /\ \A i \in 1 .. n : Fits(mid[i], commands[i], mid[i + 1])
  BY <1>2 DEF Way, n
<1>4. \A z \in Scenes : Shift(touched, now, z) \in Scenes
  BY DEF Shift, Scenes
<1>5. PICK far : far = [i \in 1 .. n + 1 |-> Shift(touched, now, mid[i])]
  OBVIOUS
<1>6. far \in [1 .. n + 1 -> Scenes] /\ \A i \in 1 .. n + 1 : far[i] = Shift(touched, now, mid[i])
  BY <1>3, <1>4, <1>5
<1>7. ASSUME NEW i \in 1 .. n PROVE Fits(far[i], commands[i], far[i + 1])
  <2>1. i \in 1 .. n + 1 /\ i + 1 \in 1 .. n + 1
    BY <1>1
  <2>2. PICK u, v, c : u = mid[i] /\ v = mid[i + 1] /\ c = commands[i]
    OBVIOUS
  <2>3. u \in Scenes /\ v \in Scenes /\ Fits(u, c, v) /\ c.id \notin touched
    BY <1>1, <1>3, <2>1, <2>2
  <2>4. Shift(touched, now, u)[c.id] = u[c.id]
    BY <2>3 DEF Fits, Shift
  <2>5. Shift(touched, now, v) = [Shift(touched, now, u) EXCEPT ![c.id] = c.new]
    BY <2>3 DEF Fits, Shift, Scenes
  <2>6. Fits(Shift(touched, now, u), c, Shift(touched, now, v))
    BY <2>3, <2>4, <2>5 DEF Fits
  <2> QED
    BY <1>6, <2>1, <2>2, <2>6
<1>8. 1 \in 1 .. n + 1 /\ n + 1 \in 1 .. n + 1
  BY <1>1
<1>9. Way(far, Shift(touched, now, x), commands, Shift(touched, now, y))
  BY <1>3, <1>6, <1>7, <1>8 DEF Way, n
<1> QED
  BY <1>9 DEF Leads

(* A change that is not recorded, of objects no command is about *)
LEMMA UnrecordedAdvances ==
  ASSUME NEW p, NEW q, NEW f, OnLine(p, q, f), edits' = edits + 1, regular',
         NEW touched \in SUBSET Ids, Unrecorded(touched),
         \A id \in Ids \ touched : stores'[id] = stores[id]
  PROVE  Advances(p, q, f)
<1>1. PICK n \in 0 .. MaxEdits :
        /\ n = edits' /\ pending \in Seq(Recorded(n)) /\ q \in Scenes /\ stores \in Scenes /\ stores' \in Scenes
        /\ undoStack \in Seq(Composites(n)) /\ redoStack \in Seq(Composites(n))
        /\ p \in Seq(Scenes) /\ f \in Seq(Scenes)
  BY OnLineTypes
<1>2. PICK now : now = stores' /\ now \in Scenes
  BY <1>1
<1>3. Shift(touched, now, stores) = now
  BY <1>1, <1>2 DEF Shift, Scenes
<1>4. \A z \in Scenes : Shift(touched, now, z) \in Scenes
  BY <1>2 DEF Shift, Scenes
<1>5. UNCHANGED <<undoStack, redoStack, pending>> /\ touched \cap Mentioned = {}
  BY DEF Unrecorded, history
<1>6. ASSUME NEW c \in ToSet(undoStack) \cup ToSet(redoStack) \cup {pending}, NEW i \in DOMAIN c
      PROVE  c[i].id \notin touched
  <2>1. c[i].id \in Mentioned
    BY DEF Mentioned
  <2> QED
    BY <1>5, <2>1
<1>7. ASSUME NEW x, NEW y, NEW c \in ToSet(undoStack) \cup ToSet(redoStack) \cup {pending},
             Leads(x, c, y)
      PROVE  Leads(Shift(touched, now, x), c, Shift(touched, now, y))
  <2>1. c \in Seq(Recorded(n))
    BY <1>1 DEF ToSet, Composites
  <2> QED
    BY <1>2, <1>6, <1>7, <2>1, LeadsShift
<1>8. PICK With : With = [z \in Scenes |-> Shift(touched, now, z)]
  OBVIOUS
<1>9. With \in [Scenes -> Scenes] /\ \A z \in Scenes : With[z] = Shift(touched, now, z)
  BY <1>4, <1>8
<1>10. ASSUME NEW x \in Scenes, NEW y \in Scenes, NEW c \in ToSet(undoStack) \cup ToSet(redoStack),
              <<x, c, y>> \in Links
       PROVE  <<With[x], c, With[y]>> \in Links
  <2>1. Leads(With[x], c, With[y])
    BY <1>7, <1>9, <1>10, LinkLeads
  <2>2. c \in Composites(n)
    BY <1>1 DEF ToSet
  <2>3. With[x] \in Scenes /\ With[y] \in Scenes
    BY <1>9
  <2> QED
    BY <2>1, <2>2, <2>3, LeadsLink
<1>11. PICK r, s, g : /\ r = [i \in DOMAIN p |-> With[p[i]]] /\ s = With[q]
                      /\ g = [i \in DOMAIN f |-> With[f[i]]]
  OBVIOUS
<1>12. IsLine(Scenes, Links, r, s, g, undoStack, redoStack)
  <2>1. IsLine(Scenes, Links, p, q, f, undoStack, redoStack)
    BY DEF OnLine, HasLine
  <2> HIDE DEF Composites
  <2> QED
    BY <1>1, <1>9, <1>10, <1>11, <2>1, LineLoad
<1>13. Leads(s, pending, now)
  <2>1. Leads(q, pending, stores)
    BY DEF OnLine, HasLine
  <2>2. Leads(Shift(touched, now, q), pending, Shift(touched, now, stores))
    BY <1>7, <2>1
  <2> QED
    BY <1>1, <1>3, <1>9, <1>11, <2>2
<1>14. HasLine(r, s, g)'
  BY <1>2, <1>5, <1>12, <1>13 DEF HasLine
<1>15. Follows(p, q, f, r, s, g)
  <2>1. s = Shift(touched, now, q) /\ \A id \in touched : s[id] = now[id]
    BY <1>1, <1>9, <1>11 DEF Shift
  <2>2. \A z : [id \in Ids |-> IF id \in touched THEN s[id] ELSE z[id]] = Shift(touched, now, z)
    BY <2>1 DEF Shift
  <2>3. \A z \in Scenes : With[z] = [id \in Ids |-> IF id \in touched THEN s[id] ELSE z[id]]
    BY <1>9, <2>2
  <2>5. s \in Scenes /\ s = [id \in Ids |-> IF id \in touched THEN s[id] ELSE q[id]]
    BY <1>1, <1>9, <1>11, <2>3
  <2>6. \A t \in Seq(Scenes) : \A i \in DOMAIN t : t[i] \in Scenes
    OBVIOUS
  <2>7. r = [i \in DOMAIN p |-> [id \in Ids |-> IF id \in touched THEN s[id] ELSE p[i][id]]]
    <3>1. \A i \in DOMAIN p : With[p[i]] = [id \in Ids |-> IF id \in touched THEN s[id] ELSE p[i][id]]
      BY <1>1, <2>3, <2>6
    <3> QED
      BY <1>11, <3>1
  <2>8. g = [i \in DOMAIN f |-> [id \in Ids |-> IF id \in touched THEN s[id] ELSE f[i][id]]]
    <3>1. \A i \in DOMAIN f : With[f[i]] = [id \in Ids |-> IF id \in touched THEN s[id] ELSE f[i][id]]
      BY <1>1, <2>3, <2>6
    <3> QED
      BY <1>11, <3>1
  <2>4. /\ s \in Scenes /\ s = [id \in Ids |-> IF id \in touched THEN s[id] ELSE q[id]]
        /\ r = [i \in DOMAIN p |-> [id \in Ids |-> IF id \in touched THEN s[id] ELSE p[i][id]]]
        /\ g = [i \in DOMAIN f |-> [id \in Ids |-> IF id \in touched THEN s[id] ELSE f[i][id]]]
    BY <2>5, <2>7, <2>8, Zenon
  <2> QED
    BY <2>4 DEF Follows
<1> QED
  BY <1>14, <1>15 DEF Advances

(* An edit, recorded or not, moves on along the line. *)
LEMMA ChangeAdvances ==
  ASSUME NEW p, NEW q, NEW f, OnLine(p, q, f), regular',
         NEW w, NEW cmd, NEW undoable \in BOOLEAN, Changes(w, cmd, undoable)
  PROVE  Advances(p, q, f)
<1>1. edits' = edits + 1 /\ cmd \in Recorded(edits') /\ Change(w, cmd, undoable)
  BY DEF Changes, Edited
<1>2. stores[cmd.id] = cmd.old /\ stores' = [stores EXCEPT ![cmd.id] = cmd.new] /\ cmd.id \in Ids
  BY <1>1 DEF Changes, Change, Becomes, Recorded
<1>3. CASE undoable
  <2>1. Record(cmd)
    BY <1>1, <1>3 DEF Change
  <2>2. Fits(stores, cmd, stores')
    BY <1>1, <1>2 DEF Fits, Recorded
  <2> QED
    BY <1>1, <2>1, <2>2, RecordAdvances
<1>4. CASE ~undoable
  <2>1. Unrecorded({cmd.id}) /\ {cmd.id} \in SUBSET Ids
    BY <1>1, <1>2, <1>4 DEF Change
  <2>2. \A id \in Ids \ {cmd.id} : stores'[id] = stores[id]
    <3>1. stores \in Scenes
      BY <1>1, OnLineTypes
    <3> QED
      BY <1>2, <3>1 DEF Scenes
  <2> QED
    BY <1>1, <2>1, <2>2, UnrecordedAdvances
<1> QED
  BY <1>3, <1>4

(* The commands of a batch, one object after the other, lead to where the batch does. *)
LEMMA BatchLeads ==
  ASSUME IInv, IInv', Edited, NEW S \in SUBSET Ids, IsFiniteSet(S),
         NEW batch \in [S -> Updates(Props) \ {<<>>}],
         NEW found, found = {id \in S : Present(World, id)}, Becomes(Batched(batch, found))
  PROVE  /\ Leads(stores, BatchCommands(batch, found), stores')
         /\ \A id \in Ids \ found : stores'[id] = stores[id]
<1>1. /\ edits \in Nat /\ stores \in Scenes /\ stores' \in Scenes /\ IsFiniteSet(found) /\ found \subseteq Ids
      /\ \A id \in found : stores[id] \in Known(edits) /\ stores[id] # None
  <2>1. edits \in 0 .. MaxEdits /\ edits' \in 0 .. MaxEdits /\ World \in Worlds(edits) /\ World' \in Worlds(edits')
    BY DEF IInv
  <2>2. stores \in [Ids -> Known(edits) \cup {None}] /\ stores' \in [Ids -> Known(edits') \cup {None}]
    BY <2>1 DEF Worlds, World
  <2>3. stores \in Scenes /\ stores' \in Scenes
    BY <2>1, <2>2, NoObject DEF Scenes
  <2>4. IsFiniteSet(found) /\ found \subseteq Ids
    BY FS_Subset
  <2>5. \A id \in found : stores[id] # None
    BY DEF Present, World
  <2> QED
    BY <2>1, <2>2, <2>3, <2>4, <2>5
<1>2. PICK after : after = stores'
  OBVIOUS
<1>3. after = [id \in Ids |-> IF id \in found THEN Updated(stores[id], batch[id]) ELSE stores[id]]
  BY <1>2 DEF Becomes, Batched, World
<1>4. PICK order : order = SetToSeq(found)
  OBVIOUS
<1>5. /\ order \in Seq(found) /\ ToSet(order) = found
      /\ \A i, j \in DOMAIN order : order[i] = order[j] => i = j
  BY <1>1, <1>4, InSequence
<1>6. PICK k \in Nat : k = Len(order) /\ DOMAIN order = 1 .. k
  BY <1>5
<1>7. PICK commands : commands = BatchCommands(batch, found)
  OBVIOUS
<1>8. /\ Len(commands) = k
      /\ \A i \in 1 .. k : commands[i] = EditCommand(order[i], batch[order[i]])
  BY <1>4, <1>6, <1>7 DEF BatchCommands
<1> DEFINE Done(i) == {order[j] : j \in 1 .. i - 1}
           mid == [i \in 1 .. k + 1 |-> Shift(Done(i), after, stores)]
<1>9. mid \in [1 .. k + 1 -> Scenes]
  <2>1. \A T : Shift(T, after, stores) \in Scenes
    BY <1>1, <1>2 DEF Shift, Scenes
  <2> QED
    BY <2>1
<1>10. mid[1] = stores
  <2>1. Done(1) = {} /\ 1 \in 1 .. k + 1
    BY <1>6
  <2>2. Shift({}, after, stores) = stores
    BY <1>1 DEF Shift, Scenes
  <2> QED
    BY <2>1, <2>2
<1>11. mid[k + 1] = after
  <2>1. Done(k + 1) = found /\ k + 1 \in 1 .. k + 1
    <3>1. k + 1 - 1 = k /\ k + 1 \in 1 .. k + 1
      BY <1>6
    <3>2. {order[j] : j \in 1 .. k} = ToSet(order)
      BY <1>6 DEF ToSet
    <3> QED
      BY <1>5, <3>1, <3>2
  <2>2. Shift(found, after, stores) = after
    BY <1>1, <1>2, <1>3 DEF Shift, Scenes
  <2> QED
    BY <2>1, <2>2
<1>12. ASSUME NEW i \in 1 .. k PROVE Fits(mid[i], commands[i], mid[i + 1])
  <2>1. PICK id : id = order[i]
    OBVIOUS
  <2>2. /\ id \in found /\ id \in Ids /\ stores[id] \in Known(edits) /\ stores[id] # None
        /\ i \in 1 .. k + 1 /\ i + 1 \in 1 .. k + 1 /\ after[id] = Updated(stores[id], batch[id])
    BY <1>1, <1>3, <1>5, <1>6, <2>1
  <2>3. id \notin Done(i)
    <3>1. \A j \in 1 .. i - 1 : j \in 1 .. k /\ j # i
      BY <1>6
    <3> QED
      BY <1>5, <1>6, <2>1, <3>1
  <2>4. Done(i + 1) = Done(i) \cup {id}
    <3>1. 1 .. (i + 1) - 1 = 1 .. i - 1 \cup {i}
      BY <1>6
    <3> QED
      BY <2>1, <3>1
  <2>5. PICK c : c = commands[i]
    OBVIOUS
  <2>6. c.kind = "edit" /\ c.id = id /\ c.old = stores[id] /\ c.new = after[id]
    BY <1>8, <2>1, <2>2, <2>5 DEF EditCommand
  <2> HIDE DEF Done
  <2>7. PICK D : D = Done(i)
    OBVIOUS
  <2>8. mid[i] = Shift(D, after, stores) /\ mid[i + 1] = Shift(D \cup {id}, after, stores) /\ id \notin D
    BY <2>2, <2>3, <2>4, <2>7
  <2>9. Shift(D, after, stores)[id] = stores[id]
    BY <2>2, <2>8 DEF Shift
  <2>10. Shift(D \cup {id}, after, stores) = [Shift(D, after, stores) EXCEPT ![id] = after[id]]
    BY <2>2 DEF Shift
  <2>11. after[id] # None /\ Differ(stores[id], after[id])
    <3>1. Differ(stores[id], after[id])
      BY <2>2, UpdateDiffers
    <3>2. edits' \in 0 .. MaxEdits /\ edits' = edits + 1
      BY DEF IInv, Edited
    <3>3. batch[id] \in Updates(Props)
      BY <2>2
    <3>4. after[id] \in Known(edits + 1)
      BY <1>1, <2>2, <3>3, UpdateKnown
    <3>5. None \notin Known(edits')
      BY <3>2, NoObject
    <3> QED
      BY <3>1, <3>2, <3>4, <3>5
  <2> QED
    BY <2>2, <2>5, <2>6, <2>8, <2>9, <2>10, <2>11 DEF Fits
<1> HIDE DEF mid
<1>13. Way(mid, stores, commands, after)
  BY <1>8, <1>9, <1>10, <1>11, <1>12 DEF Way
<1>14. Leads(stores, commands, after)
  BY <1>13 DEF Leads
<1>15. \A id \in Ids \ found : after[id] = stores[id]
  BY <1>3
<1> QED
  BY <1>2, <1>7, <1>14, <1>15

(* ... and so does a batch, *)
LEMMA BatchAdvances ==
  ASSUME NEW p, NEW q, NEW f, OnLine(p, q, f), regular',
         NEW S \in SUBSET Ids, IsFiniteSet(S), NEW undoable \in BOOLEAN,
         NEW batch \in [S -> Updates(Props) \ {<<>>}], BatchEdit(batch, undoable)
  PROVE  Advances(p, q, f)
<1>1. PICK found : found = {id \in S : Present(World, id)}
  OBVIOUS
<1>2. PICK commands : commands = BatchCommands(batch, found)
  OBVIOUS
<1>3. PICK closed : closed = IF pending = <<>> THEN undoStack ELSE Trimmed(Append(undoStack, pending))
  OBVIOUS
<1>4. /\ Edited /\ Becomes(Batched(batch, found))
      /\ IF ~undoable THEN Unrecorded(found)
         ELSE /\ undoStack' = IF commands = <<>> THEN closed ELSE Trimmed(Append(closed, commands))
              /\ redoStack' = IF commands = <<>> /\ pending = <<>> THEN redoStack ELSE <<>>
              /\ active' = FALSE /\ pending' = <<>>
              /\ regular' = (regular /\ (pending = <<>> \/ commands = <<>>))
  <2>1. DOMAIN batch = S
    OBVIOUS
  <2>2. found = {id \in DOMAIN batch : Present(World, id)}
    BY <1>1, <2>1
  <2> QED
    BY <1>2, <1>3, <2>2 DEF BatchEdit, BatchCommands, Batched
<1>5. /\ Leads(stores, commands, stores') /\ \A id \in Ids \ found : stores'[id] = stores[id]
      /\ found \in SUBSET Ids
  BY <1>1, <1>2, <1>4, BatchLeads DEF OnLine
<1>6. PICK n \in 0 .. MaxEdits :
        /\ n = edits' /\ edits' = edits + 1 /\ pending \in Seq(Recorded(n))
        /\ q \in Scenes /\ stores \in Scenes /\ stores' \in Scenes
  BY <1>4, OnLineTypes DEF Edited
<1>7. Leads(q, pending, stores) /\ HasLine(p, q, f)
  BY DEF OnLine, HasLine
<1>8. Leads(stores', <<>>, stores')
  BY <1>6, LeadsNowhere
<1>9. CASE undoable /\ pending = <<>> /\ commands = <<>>
  <2>1. UNCHANGED <<undoStack, redoStack>> /\ pending' = <<>>
    BY <1>3, <1>4, <1>9
  <2>2. q = stores /\ stores = stores'
    BY <1>5, <1>7, <1>9, LeadsNowhere
  <2> QED
    BY <1>7, <1>8, <2>1, <2>2, Stay
<1>10. CASE undoable /\ pending = <<>> /\ commands # <<>>
  <2>1. undoStack' = Trimmed(Append(undoStack, commands)) /\ redoStack' = <<>> /\ pending' = <<>>
    BY <1>3, <1>4, <1>10
  <2>2. q = stores
    BY <1>7, <1>10, LeadsNowhere
  <2>3. commands \in Composites(edits')
    <3>1. edits + 1 \in 0 .. MaxEdits
      BY <1>6
    <3>2. commands \in Seq(Recorded(edits + 1))
      BY <1>1, <1>2, <3>1, BatchRecorded DEF OnLine
    <3> QED
      BY <1>6, <1>10, <3>2 DEF Composites
  <2> QED
    BY <1>5, <1>6, <1>8, <2>1, <2>2, <2>3, PushAdvances
<1>11. CASE undoable /\ pending # <<>> /\ commands = <<>>
  <2>1. undoStack' = Trimmed(Append(undoStack, pending)) /\ redoStack' = <<>> /\ pending' = <<>>
    BY <1>3, <1>4, <1>11
  <2>2. stores = stores'
    BY <1>5, <1>11, LeadsNowhere
  <2>3. pending \in Composites(edits')
    BY <1>6, <1>11 DEF Composites
  <2> QED
    BY <1>6, <1>7, <1>8, <2>1, <2>2, <2>3, PushAdvances
<1>12. CASE ~undoable
  BY <1>4, <1>5, <1>6, <1>12, UnrecordedAdvances
<1> QED
  BY <1>4, <1>9, <1>10, <1>11, <1>12

(* ... and every call of the undo manager. *)
LEMMA ManagerAdvances ==
  ASSUME NEW p, NEW q, NEW f, OnLine(p, q, f), regular',
         BeginTransaction \/ EndTransaction \/ CancelTransaction \/ Undo \/ Redo \/ Clear
  PROVE  Advances(p, q, f)
<1>1. edits' = edits
  BY DEF BeginTransaction, EndTransaction, CancelTransaction, Undo, Redo, Clear
<1>2. PICK n \in 0 .. MaxEdits :
        /\ n = edits' /\ pending \in Seq(Recorded(n)) /\ World \in Worlds(n)
        /\ undoStack \in Seq(Composites(n)) /\ redoStack \in Seq(Composites(n))
        /\ q \in Scenes /\ stores \in Scenes /\ stores' \in Scenes /\ p \in Seq(Scenes) /\ f \in Seq(Scenes)
  BY <1>1, OnLineTypes
<1>3. /\ Leads(q, pending, stores) /\ HasLine(p, q, f)
      /\ IsLine(Scenes, Links, p, q, f, undoStack, redoStack)
  BY DEF OnLine, HasLine
<1>4. Leads(stores', <<>>, stores') /\ Leads(q, <<>>, q) /\ World.stores = stores
  BY <1>2, LeadsNowhere DEF World
<1>5. ASSUME Push(pending), UNCHANGED stores, pending' = <<>> PROVE Advances(p, q, f)
  <2>1. CASE pending = <<>>
    BY <1>3, <1>5, <2>1, Stay DEF Push
  <2>2. CASE pending # <<>>
    <3>1. undoStack' = Trimmed(Append(undoStack, pending)) /\ redoStack' = <<>>
      BY <1>5, <2>2 DEF Push
    <3>2. pending \in Composites(edits')
      BY <1>2, <2>2 DEF Composites
    <3>3. Leads(stores, pending', stores')
      BY <1>4, <1>5
    <3> QED
      BY <1>1, <1>2, <1>3, <3>1, <3>2, <3>3, PushAdvances
  <2> QED
    BY <2>1, <2>2
<1>6. CASE BeginTransaction
  BY <1>5, <1>6 DEF BeginTransaction, scene
<1>7. CASE EndTransaction
  BY <1>5, <1>7 DEF EndTransaction, scene
<1>8. CASE CancelTransaction
  <2>1. Becomes(Backward(World, pending)) /\ pending' = <<>> /\ UNCHANGED <<undoStack, redoStack>>
    BY <1>8 DEF CancelTransaction
  <2>2. Backward(World, pending).stores = q
    BY <1>2, <1>3, <1>4, BackwardLeads
  <2>3. stores' = q
    BY <2>1, <2>2 DEF Becomes
  <2> QED
    BY <1>3, <1>4, <2>1, <2>3, Stay
<1>9. CASE Undo
  <2>1. /\ undoStack # <<>> /\ Becomes(Backward(World, Last(undoStack)))
        /\ undoStack' = Front(undoStack) /\ redoStack' = Append(redoStack, Last(undoStack))
        /\ pending = <<>> /\ pending' = <<>>
    BY <1>9 DEF Undo
  <2>2. q = stores
    BY <1>3, <2>1, LeadsNowhere
  <2> HIDE DEF Composites
  <2>3. /\ p # <<>> /\ <<Last(p), Last(undoStack), q>> \in Links
        /\ IsLine(Scenes, Links, Front(p), Last(p), Append(f, q), Front(undoStack), Append(redoStack, Last(undoStack)))
    BY <1>2, <1>3, <2>1, LineUndo
  <2>4. Last(undoStack) \in Composites(n) /\ Last(p) \in Scenes
    BY <1>2, <2>1, <2>3, EndEntries
  <2>5. PICK c : c = Last(undoStack) /\ c \in Seq(Recorded(n))
    BY <2>4 DEF Composites
  <2>6. Leads(Last(p), c, World.stores)
    BY <1>4, <2>2, <2>3, <2>5, LinkLeads
  <2>7. Backward(World, c).stores = Last(p)
    BY <1>2, <2>5, <2>6, BackwardLeads
  <2>8. stores' = Last(p)
    BY <2>1, <2>5, <2>7 DEF Becomes
  <2>9. HasLine(Front(p), Last(p), Append(f, q))'
    BY <1>4, <2>1, <2>3, <2>8 DEF HasLine
  <2>10. Follows(p, q, f, Front(p), Last(p), Append(f, q))
    BY <2>3 DEF Follows, Front, Last
  <2> QED
    BY <2>9, <2>10 DEF Advances
<1>10. CASE Redo
  <2>1. /\ redoStack # <<>> /\ Becomes(Forward(World, Last(redoStack)))
        /\ redoStack' = Front(redoStack) /\ undoStack' = Append(undoStack, Last(redoStack))
        /\ pending = <<>> /\ pending' = <<>>
    BY <1>10 DEF Redo
  <2>2. q = stores
    BY <1>3, <2>1, LeadsNowhere
  <2>11. Links \subseteq Scenes \X (Seq(Commands) \ {<<>>}) \X Scenes
    BY DEF Links
  <2>12. Composites(n) \subseteq Seq(Commands) \ {<<>>}
    <3>1. Recorded(n) \subseteq Commands
      BY NoObject DEF Recorded, Commands
    <3> QED
      BY <3>1 DEF Composites
  <2> HIDE DEF Composites
  <2>13. undoStack \in Seq(Seq(Commands) \ {<<>>}) /\ redoStack \in Seq(Seq(Commands) \ {<<>>})
    BY <1>2, <2>12
  <2>3. /\ f # <<>> /\ <<q, Last(redoStack), Last(f)>> \in Links
        /\ IsLine(Scenes, Links, Append(p, q), Last(f), Front(f), Append(undoStack, Last(redoStack)), Front(redoStack))
    BY <1>3, <2>1, <2>11, <2>13, LineRedo
  <2>4. Last(redoStack) \in Composites(n) /\ Last(f) \in Scenes
    BY <1>2, <2>1, <2>3, EndEntries
  <2>5. PICK c : c = Last(redoStack) /\ c \in Seq(Recorded(n))
    BY <2>4 DEF Composites
  <2>6. Leads(World.stores, c, Last(f))
    BY <1>4, <2>2, <2>3, <2>5, LinkLeads
  <2>7. Forward(World, c).stores = Last(f)
    BY <1>2, <2>5, <2>6, ForwardLeads
  <2>8. stores' = Last(f)
    BY <2>1, <2>5, <2>7 DEF Becomes
  <2>9. HasLine(Append(p, q), Last(f), Front(f))'
    BY <1>4, <2>1, <2>3, <2>8 DEF HasLine
  <2>10. Follows(p, q, f, Append(p, q), Last(f), Front(f))
    BY <2>3 DEF Follows, Front, Last
  <2> QED
    BY <2>9, <2>10 DEF Advances
<1>11. CASE Clear
  <2>1. /\ undoStack' = <<>> /\ redoStack' = <<>> /\ pending = <<>> /\ pending' = <<>> /\ UNCHANGED stores
    BY <1>11 DEF Clear, scene
  <2>2. IsLine(Scenes, Links, <<>>, q, <<>>, <<>>, <<>>)
    <3>1. <<>> \in Seq(Scenes) /\ Len(<<>>) = 0 /\ 1 .. 0 = {}
      BY EmptySeq
    <3> QED
      BY <1>2, <3>1 DEF IsLine
  <2>3. q = stores
    BY <1>3, <2>1, LeadsNowhere
  <2>4. HasLine(<<>>, q, <<>>)'
    BY <1>4, <2>1, <2>2, <2>3 DEF HasLine
  <2>5. Follows(p, q, f, <<>>, q, <<>>)
    BY DEF Follows
  <2> QED
    BY <2>4, <2>5 DEF Advances
<1> QED
  BY <1>6, <1>7, <1>8, <1>9, <1>10, <1>11

(* Every step moves on along the line, or stays. *)
LEMMA NextAdvances ==
  ASSUME NEW p, NEW q, NEW f, OnLine(p, q, f), regular', [Next]_vars
  PROVE  Advances(p, q, f)
<1>1. ASSUME NEW id \in Ids, NEW undoable \in BOOLEAN,
             \/ \E data \in InitialData : AddObject(id, data, undoable)
             \/ RemoveObject(id, undoable)
             \/ \E updates \in Updates(Props) : SetProperties(id, updates, undoable)
             \/ \E prop \in Props, value \in Values : SetProperty(id, prop, value, undoable)
      PROVE  Advances(p, q, f)
  <2>1. PICK w, cmd : Changes(w, cmd, undoable)
    BY <1>1, EditIsChange DEF OnLine
  <2> QED
    BY <2>1, ChangeAdvances
<1>2. ASSUME UNCHANGED <<stores, undoStack, redoStack, pending>> PROVE Advances(p, q, f)
  BY <1>2, Stay DEF OnLine, HasLine
<1>3. ASSUME NEW id \in Ids, SelectObject(id) PROVE Advances(p, q, f)
  BY <1>2, <1>3 DEF SelectObject, history
<1>4. CASE UNCHANGED vars
  BY <1>2, <1>4 DEF vars, scene, history
<1> QED
  BY <1>1, <1>3, <1>4, BatchAdvances, ManagerAdvances DEF Next

------------------------------------------------------------------------------
(* The history fits, whatever the calls. *)

(* A push trims and leaves nothing to redo. *)
Pushes == redoStack' = <<>> /\ \E C : \E s \in Seq(C) : undoStack' = Trimmed(s)

(* A push of what was gathered. *)
LEMMA PendingPushes ==
  ASSUME IInv, NEW commands, commands \in Seq(Recorded(edits)) \/ \E cmd : commands = <<cmd>>, Push(commands)
  PROVE  UNCHANGED <<undoStack, redoStack>> \/ Pushes
<1>1. undoStack \in Seq(Composites(edits) \cup {commands})
  <2>1. undoStack \in Seq(Composites(edits))
    BY DEF IInv
  <2> HIDE DEF Composites
  <2> QED
    BY <2>1
<1>2. Append(undoStack, commands) \in Seq(Composites(edits) \cup {commands})
  BY <1>1
<1> QED
  BY <1>2 DEF Push, Pushes

(* A push of a batch. *)
LEMMA BatchPushes ==
  ASSUME IInv, NEW batch, NEW undoable \in BOOLEAN, BatchEdit(batch, undoable)
  PROVE  UNCHANGED <<undoStack, redoStack>> \/ Pushes
<1>1. PICK commands : commands = BatchCommands(batch, {id \in DOMAIN batch : Present(World, id)})
  OBVIOUS
<1>2. PICK closed : closed = IF pending = <<>> THEN undoStack ELSE Trimmed(Append(undoStack, pending))
  OBVIOUS
<1>3. IF ~undoable THEN UNCHANGED history
      ELSE /\ undoStack' = IF commands = <<>> THEN closed ELSE Trimmed(Append(closed, commands))
           /\ redoStack' = IF commands = <<>> /\ pending = <<>> THEN redoStack ELSE <<>>
  BY <1>1, <1>2 DEF BatchEdit, BatchCommands, Unrecorded
<1>4. PICK n \in Nat : n = edits /\ undoStack \in Seq(Composites(n)) /\ pending \in Seq(Recorded(n))
  BY DEF IInv
<1>5. pending # <<>> => Append(undoStack, pending) \in Seq(Composites(n))
  <2>1. pending # <<>> => pending \in Composites(n)
    BY <1>4 DEF Composites
  <2> HIDE DEF Composites
  <2> QED
    BY <1>4, <2>1
<1>6. closed \in Seq(Composites(n))
  BY <1>2, <1>4, <1>5, TrimmedStays
<1>7. Append(closed, commands) \in Seq(Composites(n) \cup {commands})
  <2> HIDE DEF Composites
  <2>1. closed \in Seq(Composites(n) \cup {commands})
    BY <1>6
  <2> QED
    BY <2>1
<1>8. CASE ~undoable
  BY <1>3, <1>8 DEF history
<1>11. CASE undoable /\ commands = <<>> /\ pending = <<>>
  BY <1>2, <1>3, <1>11
<1>9. CASE undoable /\ commands = <<>> /\ pending # <<>>
  <2>1. undoStack' = Trimmed(Append(undoStack, pending)) /\ redoStack' = <<>>
    BY <1>2, <1>3, <1>9
  <2>2. PICK C, s : C = Composites(n) /\ s = Append(undoStack, pending)
    OBVIOUS
  <2>3. s \in Seq(C) /\ undoStack' = Trimmed(s)
    BY <1>5, <1>9, <2>1, <2>2
  <2> QED
    BY <2>1, <2>3 DEF Pushes
<1>10. CASE undoable /\ commands # <<>>
  <2>1. undoStack' = Trimmed(Append(closed, commands)) /\ redoStack' = <<>>
    BY <1>3, <1>10
  <2>2. PICK C, s : C = Composites(n) \cup {commands} /\ s = Append(closed, commands)
    OBVIOUS
  <2>3. s \in Seq(C) /\ undoStack' = Trimmed(s)
    BY <1>7, <2>1, <2>2
  <2> QED
    BY <2>1, <2>3 DEF Pushes
<1> QED
  BY <1>8, <1>9, <1>10, <1>11

(* Both stacks together never outgrow max_history. *)
LEMMA BoundStep ==
  ASSUME IInv, IInv', Len(undoStack) + Len(redoStack) <= MaxHistory, [Next]_vars
  PROVE  Len(undoStack') + Len(redoStack') <= MaxHistory
<1>1. /\ Len(undoStack) \in Nat /\ Len(redoStack) \in Nat /\ Len(undoStack') \in Nat /\ Len(redoStack') \in Nat
      /\ MaxHistory \in Nat
  <2>1. \A C : \A s \in Seq(C) : Len(s) \in Nat
    OBVIOUS
  <2> QED
    BY <2>1, ConstantsAssumption DEF IInv
<1>2. CASE UNCHANGED <<undoStack, redoStack>>
  BY <1>2
<1>3. CASE Pushes
  <2>1. PICK C : \E s \in Seq(C) : undoStack' = Trimmed(s)
    BY <1>3 DEF Pushes
  <2>2. Len(undoStack') <= MaxHistory
    BY <2>1, TrimmedFits
  <2>3. Len(redoStack') = 0
    BY <1>3 DEF Pushes
  <2> QED
    BY <1>1, <2>2, <2>3
<1>4. ASSUME NEW C, NEW s \in Seq(C), NEW t \in Seq(C), s # <<>>
      PROVE  Len(Front(s)) = Len(s) - 1 /\ Len(Append(t, Last(s))) = Len(t) + 1
  <2>1. Len(s) \in Nat /\ Len(s) # 0
    BY <1>4
  <2>2. Last(s) \in C
    BY <2>1 DEF Last
  <2>3. Len(Front(s)) = Len(s) - 1
    <3>1. s \in Seq(ToSet(s))
      BY DEF ToSet
    <3> QED
      BY <1>4, <3>1, Drop
  <2>4. Len(Append(t, Last(s))) = Len(t) + 1
    BY <2>2
  <2> QED
    BY <2>3, <2>4
<1>5. undoStack \in Seq(Composites(edits)) /\ redoStack \in Seq(Composites(edits))
  BY DEF IInv
<1>6. CASE Undo
  <2>1. /\ undoStack # <<>> /\ undoStack' = Front(undoStack)
        /\ redoStack' = Append(redoStack, Last(undoStack))
    BY <1>6 DEF Undo
  <2>2. Len(undoStack') = Len(undoStack) - 1 /\ Len(redoStack') = Len(redoStack) + 1
    BY <1>4, <1>5, <2>1
  <2> QED
    BY <1>1, <2>2
<1>7. CASE Redo
  <2>1. /\ redoStack # <<>> /\ redoStack' = Front(redoStack)
        /\ undoStack' = Append(undoStack, Last(redoStack))
    BY <1>7 DEF Redo
  <2>2. Len(undoStack') = Len(undoStack) + 1 /\ Len(redoStack') = Len(redoStack) - 1
    BY <1>4, <1>5, <2>1
  <2> QED
    BY <1>1, <2>2
<1>8. CASE Clear
  BY <1>1, <1>8 DEF Clear
<1>9. ASSUME NEW w, NEW cmd, NEW undoable \in BOOLEAN, Change(w, cmd, undoable)
      PROVE  UNCHANGED <<undoStack, redoStack>> \/ Pushes
  <2>1. CASE undoable /\ ~active
    BY <1>9, <2>1, PendingPushes DEF Change, Record
  <2>2. CASE ~(undoable /\ ~active)
    BY <1>9, <2>2 DEF Change, Record, Unrecorded, history
  <2> QED
    BY <2>1, <2>2
<1>10. CASE BeginTransaction \/ EndTransaction
  <2>1. Push(pending) /\ pending \in Seq(Recorded(edits))
    BY <1>10 DEF BeginTransaction, EndTransaction, IInv
  <2> QED
    BY <1>2, <1>3, <2>1, PendingPushes
<1>11. CASE CancelTransaction
  BY <1>2, <1>11 DEF CancelTransaction
<1>12. ASSUME NEW id \in Ids, SelectObject(id) PROVE UNCHANGED <<undoStack, redoStack>>
  BY <1>12 DEF SelectObject, history
<1>13. CASE UNCHANGED vars
  BY <1>2, <1>13 DEF vars, history
<1>14. ASSUME NEW id \in Ids, NEW undoable \in BOOLEAN,
              \/ \E data \in InitialData : AddObject(id, data, undoable)
              \/ RemoveObject(id, undoable)
              \/ \E updates \in Updates(Props) : SetProperties(id, updates, undoable)
              \/ \E prop \in Props, value \in Values : SetProperty(id, prop, value, undoable)
       PROVE  UNCHANGED <<undoStack, redoStack>> \/ Pushes
  <2>1. PICK w, cmd : Changes(w, cmd, undoable)
    BY <1>14, EditIsChange
  <2> QED
    BY <1>9, <2>1 DEF Changes
<1> QED
  BY <1>2, <1>3, <1>6, <1>7, <1>8, <1>10, <1>11, <1>12, <1>13, <1>14, BatchPushes DEF Next

------------------------------------------------------------------------------
(* The refinement *)

(* At first the line is the empty scene. *)
LEMMA LineStart == Init => LineInv
<1> SUFFICES ASSUME Init PROVE LineInv
  OBVIOUS
<1>1. <<>> \in Seq(Scenes) /\ Len(<<>>) = 0 /\ 1 .. 0 = {}
  BY EmptySeq
<1>2. stores \in Scenes /\ undoStack = <<>> /\ redoStack = <<>> /\ pending = <<>>
  BY DEF Init, Scenes
<1>3. IsLine(Scenes, Links, <<>>, stores, <<>>, undoStack, redoStack)
  BY <1>1, <1>2 DEF IsLine
<1>4. HasLine(<<>>, stores, <<>>)
  BY <1>2, <1>3, LeadsNowhere DEF HasLine
<1>5. Len(undoStack) + Len(redoStack) <= MaxHistory
  BY <1>1, <1>2, ConstantsAssumption
<1> QED
  BY <1>4, <1>5 DEF LineInv

(* What is irregular stays so. *)
LEMMA StillRegular == ASSUME IInv, [Next]_vars, regular' PROVE regular
<1>1. regular \in BOOLEAN
  BY DEF IInv
<1>2. ASSUME NEW touched, Unrecorded(touched) PROVE regular
  BY <1>1, <1>2 DEF Unrecorded
<1>3. ASSUME NEW w, NEW cmd, NEW undoable \in BOOLEAN, Change(w, cmd, undoable) PROVE regular
  BY <1>2, <1>3 DEF Change
<1>4. ASSUME NEW batch, NEW undoable \in BOOLEAN, BatchEdit(batch, undoable) PROVE regular
  BY <1>1, <1>4 DEF BatchEdit, Unrecorded
<1>5. ASSUME NEW id \in Ids, NEW undoable \in BOOLEAN,
             \/ \E data \in InitialData : AddObject(id, data, undoable)
             \/ RemoveObject(id, undoable)
             \/ \E updates \in Updates(Props) : SetProperties(id, updates, undoable)
             \/ \E prop \in Props, value \in Values : SetProperty(id, prop, value, undoable)
      PROVE  regular
  <2>1. PICK w, cmd : Changes(w, cmd, undoable)
    BY <1>5, EditIsChange
  <2> QED
    BY <1>3, <2>1 DEF Changes
<1>6. CASE BeginTransaction \/ EndTransaction \/ CancelTransaction \/ Undo \/ Redo \/ Clear
  BY <1>1, <1>6 DEF BeginTransaction, EndTransaction, CancelTransaction, Undo, Redo, Clear
<1>7. ASSUME NEW id \in Ids, SelectObject(id) PROVE regular
  BY <1>7 DEF SelectObject
<1>8. CASE UNCHANGED vars
  BY <1>8 DEF vars
<1> QED
  BY <1>4, <1>5, <1>6, <1>7, <1>8 DEF Next

(* The invariant of the line, and the step of EditHistory with it. *)
LEMMA LineStep ==
  ASSUME IInv, IInv', LineInv, [Next]_vars
  PROVE  LineInv' /\ (regular /\ regular' => Line!Next \/ UNCHANGED Line!history)
<1>1. Len(undoStack) + Len(redoStack) <= MaxHistory
  BY DEF LineInv
<1>2. Len(undoStack') + Len(redoStack') <= MaxHistory
  BY <1>1, BoundStep
<1>3. CASE ~regular'
  BY <1>2, <1>3 DEF LineInv
<1>4. CASE regular'
  <2>1. regular
    BY <1>4, StillRegular
  <2>2. PICK p, q, f : HasLine(p, q, f)
    BY <2>1 DEF LineInv
  <2>3. Advances(p, q, f)
    BY <1>1, <1>4, <2>2, NextAdvances DEF OnLine
  <2>4. PICK r, s, g : HasLine(r, s, g)' /\ Follows(p, q, f, r, s, g)
    BY <2>3 DEF Advances
  <2>5. LineInv'
    BY <1>2, <2>4 DEF LineInv
  <2>6. Past = p /\ Committed.stores = q /\ Future = f
    BY <2>2, LineNow
  <2>7. Past' = r /\ (Committed.stores)' = s /\ Future' = g
    BY <2>4, LineNext
  <2>8. Line!Next \/ UNCHANGED Line!history
    BY <2>4, <2>6, <2>7, FollowsIsNext
  <2> QED
    BY <2>5, <2>8
<1> QED
  BY <1>3, <1>4

(* The multi-store architecture keeps the promise of an undo: while unrecorded
   changes keep to objects no command is about, its commands over many stores are
   a line of whole scenes, whatever the objects, the number of calls and
   max_history. Undo and redo walk along the line and versions come back with the
   data, a transaction or a batch is one step of it, a cancelled transaction never
   was, and what is past max_history is dropped from its far end. *)
THEOREM Refines == Spec => AsAnEditHistory
<1>1. IInv /\ IInv' /\ LineInv /\ [Next]_vars => LineInv'
  BY LineStep
<1>2. IInv /\ IInv' /\ LineInv /\ [Next]_vars
        => [regular /\ regular' => Line!Next \/ UNCHANGED Line!history]_vars
  BY LineStep
<1>3. Spec => []LineInv
  BY <1>1, Always, LineStart, PTL DEF Spec
<1> QED
  BY <1>2, <1>3, Always, PTL DEF Spec, AsAnEditHistory
=============================================================================
