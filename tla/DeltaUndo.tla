----------------------------- MODULE DeltaUndo -----------------------------
(* The reducer of the delta-based undo engine (delta_undo.cpp): user actions
   change the scene and record a reversible delta, Undo and Redo run a delta
   against the scene as it is now, system actions change the scene and record
   nothing. One action per alternative of DeltaAction.

   Left out: version, root_id, dirty, and with their alternatives SelectObject
   and SetSystemState the fields selected_id and SystemState, which every delta
   carries over and nothing here reads; the text of descriptions; nested property paths (a property is one
   segment). A property that is null reads as one that is missing
   (get_value_at_path), so both are Null here. *)
EXTENDS Naturals, Sequences, SequencesExt

CONSTANTS
  Ids,             \* object ids
  Props,           \* property paths
  Values,          \* non-null property values
  Null,            \* the null value, or no value
  None,            \* no object; as a parent_id, the empty string
  MaxHistory,      \* DeltaModel::max_history
  InitialScenes,   \* what initialize may be given
  EngineScenes,    \* what SyncFromEngine may bring
  NewObjects,      \* what AddObject and LoadObjects may bring
  MaxEdits,        \* bound: calls that bring something new into the scene
  MaxChildren      \* bound: entries of one children list

Cells == Values \cup {Null}
Objects == [data : [Props -> Cells], children : Seq(Ids)]
Scenes == [Ids -> Objects \cup {None}]

(* An object as a comparison of scenes sees it: see Seen below. *)
Things == [data : [Props -> Cells], children : SUBSET Ids]

ASSUME ConstantsAssumption ==
  /\ MaxHistory \in Nat \ {0}
  /\ MaxEdits \in Nat /\ MaxChildren \in Nat
  /\ None \notin Ids /\ Null \notin Values
  /\ None \notin Objects /\ None \notin Things
  /\ InitialScenes \subseteq Scenes /\ EngineScenes \subseteq Scenes /\ NewObjects \subseteq Objects

(* A delta on one object, and what a stack holds: the deltas of one undo step
   in the order they were recorded, a single one outside a transaction. *)
SetDeltas == [kind : {"set"}, id : Ids, old : UNION {[S -> Cells] : S \in SUBSET Props},
              new : UNION {[S -> Cells] : S \in SUBSET Props}]
PlaceDeltas == [kind : {"add", "remove"}, id : Ids, object : Objects, parent : Ids \cup {None}]
Deltas == SetDeltas \cup PlaceDeltas
Entries == Seq(Deltas)

VARIABLES
  objects,     \* scene.objects
  undoStack,   \* undo_stack
  redoStack,   \* redo_stack
  open,        \* transaction_description.has_value()
  pending,     \* transaction_deltas
  edits,       \* how many of these calls there were, for the bound only
  regular      \* history variable: the calls so far were the ones undo is meant for

vars == <<objects, undoStack, redoStack, open, pending, edits, regular>>

------------------------------------------------------------------------------
(* The functions inside a delta *)

Exists(scene, id) == id \in Ids /\ scene[id] # None

(* set_value_at_path for every path of updates; an object that is gone is left gone. *)
Write(scene, id, updates) ==
  IF Exists(scene, id)
  THEN [scene EXCEPT ![id].data =
          [p \in Props |-> IF p \in DOMAIN updates THEN updates[p] ELSE scene[id].data[p]]]
  ELSE scene

Children(scene, parent) == IF Exists(scene, parent) THEN scene[parent].children ELSE <<>>

(* The parent is looked up in the scene before the change and written back over it. *)
WithParent(before, after, parent, children) ==
  IF Exists(before, parent)
  THEN [after EXCEPT ![parent] = [before[parent] EXCEPT !.children = children]]
  ELSE after

Insert(scene, id, object, parent) ==
  WithParent(scene, [scene EXCEPT ![id] = object], parent, Append(Children(scene, parent), id))

(* std::remove and erase: every entry of that id goes *)
Without(children, id) ==
  FoldLeft(LAMBDA kept, child : IF child = id THEN kept ELSE Append(kept, child), <<>>, children)

Erase(scene, id, parent) ==
  WithParent(scene, [scene EXCEPT ![id] = None], parent, Without(Children(scene, parent), id))

Apply(delta, scene) ==
  CASE delta.kind = "set"    -> Write(scene, delta.id, delta.new)
    [] delta.kind = "add"    -> Insert(scene, delta.id, delta.object, delta.parent)
    [] delta.kind = "remove" -> Erase(scene, delta.id, delta.parent)

Unapply(delta, scene) ==
  CASE delta.kind = "set"    -> Write(scene, delta.id, delta.old)
    [] delta.kind = "add"    -> Erase(scene, delta.id, delta.parent)
    [] delta.kind = "remove" -> Insert(scene, delta.id, delta.object, delta.parent)

(* compose_deltas: forward in order, backward in reverse *)
ApplyAll(entry, scene) == FoldLeft(LAMBDA s, delta : Apply(delta, s), scene, entry)
(* mutant: backward in the same order *)
UnapplyAllForward(entry, scene) == FoldLeft(LAMBDA s, delta : Unapply(delta, s), scene, entry)

UnapplyAll(entry, scene) == FoldRight(LAMBDA delta, s : Unapply(delta, s), entry, scene)

------------------------------------------------------------------------------
Init ==
  /\ objects \in InitialScenes
  /\ undoStack = <<>> /\ redoStack = <<>>
  /\ open = FALSE /\ pending = <<>>
  /\ edits = 0 /\ regular = TRUE

(* push_back on undo_stack, then drop(1) when it grew past max_history *)
Pushed(entry) ==
  LET grown == Append(undoStack, entry)
  IN  IF Len(grown) > MaxHistory THEN Tail(grown) ELSE grown

Edited == edits < MaxEdits /\ edits' = edits + 1

(* Mutant: what was undone can still be redone after a new action. *)
RecordKeepingRedo(delta) ==
  /\ Edited
  /\ objects' = Apply(delta, objects)
  /\ IF open THEN pending' = Append(pending, delta) /\ UNCHANGED undoStack
             ELSE undoStack' = Pushed(<<delta>>) /\ UNCHANGED pending
  /\ UNCHANGED <<redoStack, open>>

(* Every user action: apply the delta, then file it in the transaction or on
   the undo stack; either way there is nothing left to redo. *)
Record(delta) ==
  /\ Edited
  /\ objects' = Apply(delta, objects)
  /\ redoStack' = <<>>
  /\ IF open THEN /\ pending' = Append(pending, delta)
                  /\ UNCHANGED undoStack
             ELSE /\ undoStack' = Pushed(<<delta>>)
                  /\ UNCHANGED pending
  /\ UNCHANGED open

Undo ==
  /\ undoStack # <<>>
  /\ objects' = UnapplyAll(Last(undoStack), objects)
  /\ undoStack' = Front(undoStack)
  /\ redoStack' = Append(redoStack, Last(undoStack))
  /\ regular' = (regular /\ ~open)
  /\ UNCHANGED <<open, pending, edits>>

Redo ==
  /\ redoStack # <<>>
  /\ objects' = ApplyAll(Last(redoStack), objects)
  /\ redoStack' = Front(redoStack)
  /\ undoStack' = Append(undoStack, Last(redoStack))
  /\ regular' = (regular /\ ~open)
  /\ UNCHANGED <<open, pending, edits>>

ClearHistory ==
  /\ undoStack' = <<>> /\ redoStack' = <<>>
  /\ open' = FALSE /\ pending' = <<>>
  /\ regular' = ~open
  /\ UNCHANGED <<objects, edits>>

SetDelta(id, updates) ==
  [kind |-> "set", id |-> id, new |-> updates,
   old |-> [p \in DOMAIN updates |-> objects[id].data[p]]]

SetProperty(id, prop, value) ==
  /\ Exists(objects, id)
  /\ Record(SetDelta(id, [p \in {prop} |-> value]))
  /\ UNCHANGED regular

(* One delta for all the updates; old values are read before any is written. *)
SetProperties(id, updates) ==
  /\ Exists(objects, id)
  /\ Record(SetDelta(id, updates))
  /\ UNCHANGED regular

(* The object of that id, if there is one, is overwritten. A parent that lists
   the id already comes to list it twice, and undo takes both away. *)
AddObject(id, object, parent) ==
  /\ Record([kind |-> "add", id |-> id, object |-> object, parent |-> parent])
  /\ regular' = (regular /\ ~Exists(objects, id) /\ parent # id
                        /\ id \notin ToSet(Children(objects, parent)))

Parents(id) == {p \in Ids : Exists(objects, p) /\ id \in ToSet(objects[p].children)}

(* The parent is the first object found to list the id, in hash order. *)
RemoveObject(id) ==
  /\ Exists(objects, id)
  /\ \E parent \in IF Parents(id) = {} THEN {None} ELSE Parents(id) :
       Record([kind |-> "remove", id |-> id, object |-> objects[id], parent |-> parent])
  /\ regular' = (regular /\ id \notin Parents(id))

(* A transaction already open is replaced, and the deltas it gathered are lost. *)
BeginTransaction ==
  /\ open' = TRUE /\ pending' = <<>>
  /\ regular' = (regular /\ pending = <<>>)
  /\ UNCHANGED <<objects, undoStack, redoStack, edits>>

(* An empty transaction leaves both stacks as they were. *)
EndTransaction ==
  /\ open
  /\ open' = FALSE /\ pending' = <<>>
  /\ IF pending = <<>>
     THEN UNCHANGED <<undoStack, redoStack>>
     ELSE undoStack' = Pushed(pending) /\ redoStack' = <<>>
  /\ UNCHANGED <<objects, edits, regular>>

(* The scene is replaced under deltas recorded against another one. *)
SyncFromEngine ==
  /\ Edited
  /\ objects' \in EngineScenes
  /\ regular' = (regular /\ undoStack = <<>> /\ redoStack = <<>> /\ ~open)
  /\ UNCHANGED <<undoStack, redoStack, open, pending>>

(* The ids some recorded delta will look up *)
Mentioned ==
  LET Names(entry) == UNION {{entry[i].id} \cup
                       (IF entry[i].kind = "set" THEN {} ELSE {entry[i].parent}) : i \in DOMAIN entry}
  IN  UNION {Names(e) : e \in ToSet(undoStack) \cup ToSet(redoStack) \cup {pending}}

LoadObjects(loaded) ==
  /\ Edited
  /\ objects' = [id \in Ids |-> IF id \in DOMAIN loaded THEN loaded[id] ELSE objects[id]]
  /\ regular' = (regular /\ DOMAIN loaded \cap Mentioned = {})
  /\ UNCHANGED <<undoStack, redoStack, open, pending>>

ShortLists == \A id \in Ids : Exists(objects, id) => Len(objects[id].children) <= MaxChildren

UserAction ==
  \/ \E id \in Ids, p \in Props, v \in Cells : SetProperty(id, p, v)
  \/ \E id \in Ids, S \in SUBSET Props : \E updates \in [S -> Cells] : SetProperties(id, updates)
  \/ \E id \in Ids, object \in NewObjects, parent \in Ids \cup {None} : AddObject(id, object, parent)
  \/ \E id \in Ids : RemoveObject(id)

SystemAction ==
  \/ SyncFromEngine
  \/ \E S \in SUBSET Ids : \E loaded \in [S -> NewObjects] : LoadObjects(loaded)

Next ==
  /\ \/ Undo \/ Redo \/ ClearHistory
     \/ UserAction
     \/ BeginTransaction \/ EndTransaction
     \/ SystemAction
  /\ ShortLists'

Spec == Init /\ [][Next]_vars

------------------------------------------------------------------------------
(* Types of the model's state. Entries of a stack are never empty: an empty
   transaction is not pushed. *)
TypeOK ==
  /\ objects \in Scenes
  /\ undoStack \in Seq(Entries \ {<<>>}) /\ redoStack \in Seq(Entries \ {<<>>})
  /\ open \in BOOLEAN /\ pending \in Entries
  /\ edits \in 0 .. MaxEdits /\ regular \in BOOLEAN
  /\ ~open => pending = <<>>

(* The history never exceeds max_history, both stacks together: Redo pushes
   without the check of the other pushes (delta_undo.cpp:308) and relies on
   every push that trims having emptied the redo stack. *)
HistoryBounded == Len(undoStack) + Len(redoStack) <= MaxHistory

(* The line of scenes the deltas stand for: each earlier scene is the present
   one with the deltas since unapplied, each later one applies what Redo would.
   A transaction still open counts as not yet made. The order of a children
   list is not part of a scene: undoing a removal appends (delta_undo.cpp:223). *)
Seen(scene) ==
  [id \in Ids |-> IF scene[id] = None THEN None
                  ELSE [data |-> scene[id].data, children |-> ToSet(scene[id].children)]]

Committed == UnapplyAll(pending, objects)

Past ==
  LET n == Len(undoStack)
      at[i \in 1 .. n + 1] ==
        IF i > n THEN Committed ELSE UnapplyAll(undoStack[i], at[i + 1])
  IN  [i \in 1 .. n |-> Seen(at[i])]

Future ==
  LET n == Len(redoStack)
      at[i \in 1 .. n + 1] ==
        IF i > n THEN Committed ELSE ApplyAll(redoStack[i], at[i + 1])
  IN  [i \in 1 .. n |-> Seen(at[i])]

Line == INSTANCE EditHistory WITH
          Things <- Things \cup {None},
          past <- Past, present <- Seen(Committed), future <- Future

(* While the calls are the ones undo is meant for, undoing by deltas is the
   same as going back along a line of whole scenes: Undo returns the scene
   before the last step, a transaction is one step, a new edit drops the
   future, and what the system loads persists through every Undo and Redo
   (delta_undo.h:15-25, 143, 162). *)
AsAnEditHistory == [][regular /\ regular' => Line!Next \/ UNCHANGED Line!history]_vars
=============================================================================
