----------------------------- MODULE MultiStore -----------------------------
(* The multi-store architecture (multi_store.cpp): a store for each object in a
   registry, a scene store that lists and selects them, and an UndoManager
   above, whose commands hold an object's state before and after. Every call
   of MultiStoreController is one action; dispatching runs the reducer at once.

   Left out: descriptions, the type of an object (an id keeps its type here),
   the version of the scene store, which nobody reads, and a max_history of 0
   (no limit) or changed later. *)
EXTENDS Naturals, Sequences, FiniteSets, SequencesExt

CONSTANTS
  Ids,          \* object ids
  Props,        \* property names
  Values,       \* property values
  Missing,      \* no property of that name
  Blob,         \* data that is not a map
  None,         \* no object; nothing selected
  MaxHistory,   \* max_history_
  InitialData,  \* what add_object may be given
  MaxEdits      \* bound: calls that add, change or remove an object

Fields == [Props -> Values \cup {Missing}]
Objects == [data : Fields \cup {Blob}, version : 0 .. MaxEdits]

ASSUME ConstantsAssumption ==
  /\ MaxHistory \in Nat \ {0} /\ MaxEdits \in Nat
  /\ Missing \notin Values /\ Blob \notin Fields /\ None \notin Ids \cup Objects
  /\ InitialData \subseteq Fields \cup {Blob}

(* An UndoCommand: restore_fn is that of add and remove ("place") or that of an
   edit; a state that has no value is None. *)
Commands == [kind : {"place", "edit"}, id : Ids, old : Objects \cup {None}, new : Objects \cup {None}]

VARIABLES
  stores,       \* registry_: the state of each object's store
  registered,   \* object_ids of the scene store
  selected,     \* selected_id of the scene store
  undoStack, redoStack,   \* sequences of composite commands
  active,       \* transaction_active_
  pending,      \* the sub_commands of current_transaction_
  edits,        \* how many of these calls there were, for the bound only
  regular       \* history variable: the calls so far were the ones undo is meant for

scene == <<stores, registered, selected>>
history == <<undoStack, redoStack, active, pending>>
vars == <<scene, history, edits, regular>>

------------------------------------------------------------------------------
(* What the registry and the scene store hold, as one record *)
World == [stores |-> stores, registered |-> registered, selected |-> selected]
Becomes(w) == stores' = w.stores /\ registered' = w.registered /\ selected' = w.selected

Present(w, id) == w.stores[id] # None

WithObject(w, id, object) ==
  [w EXCEPT !.stores[id] = object, !.registered = @ \cup {id}]

WithoutObjectStillSelected(w, id) ==    \* mutant
  [stores |-> [w.stores EXCEPT ![id] = None], registered |-> w.registered \ {id}, selected |-> w.selected]

WithoutObject(w, id) ==
  [stores |-> [w.stores EXCEPT ![id] = None],
   registered |-> w.registered \ {id},
   selected |-> IF w.selected = id THEN None ELSE w.selected]

(* The store takes a new state only if it differs, and ObjectState compares
   type and version, not the data (multi_store.h:44). *)
Differ(s, t) == s.version # t.version
Store(w, id, object) ==
  IF Differ(w.stores[id], object) THEN [w EXCEPT !.stores[id] = object] ELSE w

(* object_update: data that is not a map becomes one. *)
Updated(object, updates) ==
  [data |-> [p \in Props |-> IF p \in DOMAIN updates THEN updates[p]
                             ELSE IF object.data = Blob THEN Missing ELSE object.data[p]],
   version |-> object.version + 1]

(* The two restore functions *)
RestoreUnlisted(w, cmd, object) ==      \* mutant: the scene store is not told
  IF cmd.kind = "place"
  THEN IF object = None THEN WithoutObject(w, cmd.id)
       ELSE IF Present(w, cmd.id) THEN w ELSE [w EXCEPT !.stores[cmd.id] = object]
  ELSE IF Present(w, cmd.id) THEN Store(w, cmd.id, object) ELSE w

Restore(w, cmd, object) ==
  IF cmd.kind = "place"
  THEN IF object = None THEN WithoutObject(w, cmd.id)
       ELSE IF Present(w, cmd.id) THEN w ELSE WithObject(w, cmd.id, object)
  ELSE IF Present(w, cmd.id) THEN Store(w, cmd.id, object) ELSE w

(* The old states in reverse order, the new states in order *)
BackwardInOrder(w, commands) ==         \* mutant
  FoldLeft(LAMBDA x, cmd : Restore(x, cmd, cmd.old), w, commands)
Backward(w, commands) == FoldRight(LAMBDA cmd, x : Restore(x, cmd, cmd.old), commands, w)
Forward(w, commands) == FoldLeft(LAMBDA x, cmd : Restore(x, cmd, cmd.new), w, commands)

------------------------------------------------------------------------------
(* The UndoManager *)

Init ==
  /\ stores = [id \in Ids |-> None] /\ registered = {} /\ selected = None
  /\ undoStack = <<>> /\ redoStack = <<>> /\ active = FALSE /\ pending = <<>>
  /\ edits = 0 /\ regular = TRUE

(* trim_history, which only pushes of new commands call *)
Trimmed(stack) == SubSeq(stack, IF Len(stack) > MaxHistory THEN Len(stack) - MaxHistory + 1 ELSE 1, Len(stack))

(* end_transaction on what was gathered: nothing gathered, nothing pushed. *)
Push(commands) ==
  IF commands = <<>> THEN UNCHANGED <<undoStack, redoStack>>
  ELSE undoStack' = Trimmed(Append(undoStack, commands)) /\ redoStack' = <<>>

Record(cmd) ==
  IF active THEN pending' = Append(pending, cmd) /\ UNCHANGED <<undoStack, redoStack, active>>
  ELSE Push(<<cmd>>) /\ UNCHANGED <<active, pending>>

(* A transaction under way is ended first. *)
BeginTransaction ==
  /\ Push(pending)
  /\ active' = TRUE /\ pending' = <<>>
  /\ UNCHANGED <<scene, edits, regular>>

EndTransaction ==
  /\ active
  /\ Push(pending)
  /\ active' = FALSE /\ pending' = <<>>
  /\ UNCHANGED <<scene, edits, regular>>

CancelTransaction ==
  /\ active
  /\ Becomes(Backward(World, pending))
  /\ active' = FALSE /\ pending' = <<>>
  /\ UNCHANGED <<undoStack, redoStack, edits, regular>>

Undo ==
  /\ undoStack # <<>>
  /\ Becomes(Backward(World, Last(undoStack)))
  /\ undoStack' = Front(undoStack)
  /\ redoStack' = Append(redoStack, Last(undoStack))
  /\ regular' = (regular /\ pending = <<>>)
  /\ UNCHANGED <<active, pending, edits>>

Redo ==
  /\ redoStack # <<>>
  /\ Becomes(Forward(World, Last(redoStack)))
  /\ redoStack' = Front(redoStack)
  /\ undoStack' = Append(undoStack, Last(redoStack))
  /\ regular' = (regular /\ pending = <<>>)
  /\ UNCHANGED <<active, pending, edits>>

Clear ==
  /\ undoStack' = <<>> /\ redoStack' = <<>> /\ active' = FALSE /\ pending' = <<>>
  /\ regular' = (regular /\ pending = <<>>)
  /\ UNCHANGED <<scene, edits>>

------------------------------------------------------------------------------
(* The controller *)

Edited == edits < MaxEdits /\ edits' = edits + 1

(* The ids some command will look up *)
Mentioned ==
  LET Named(commands) == {commands[i].id : i \in DOMAIN commands}
  IN  UNION {Named(c) : c \in ToSet(undoStack) \cup ToSet(redoStack) \cup {pending}}

(* A change that is not recorded is meant for objects no command is about. *)
Unrecorded(touched) ==
  /\ UNCHANGED history
  /\ regular' = (regular /\ touched \cap Mentioned = {})

Change(w, cmd, undoable) ==
  /\ Becomes(w)
  /\ IF undoable THEN Record(cmd) /\ UNCHANGED regular ELSE Unrecorded({cmd.id})

AddObject(id, data, undoable) ==
  /\ ~Present(World, id) /\ Edited
  /\ LET object == [data |-> data, version |-> 0]
     IN  Change(WithObject(World, id, object),
                [kind |-> "place", id |-> id, old |-> None, new |-> object], undoable)

RemoveObject(id, undoable) ==
  /\ Present(World, id) /\ Edited
  /\ Change(WithoutObject(World, id),
            [kind |-> "place", id |-> id, old |-> stores[id], new |-> None], undoable)

EditCommand(id, updates) ==
  [kind |-> "edit", id |-> id, old |-> stores[id], new |-> Updated(stores[id], updates)]

SetProperties(id, updates, undoable) ==
  /\ Present(World, id) /\ Edited
  /\ LET cmd == EditCommand(id, updates)
     IN  Change(Store(World, id, cmd.new), cmd, undoable)

SetProperty(id, prop, value, undoable) == SetProperties(id, [p \in {prop} |-> value], undoable)

(* edits grouped by object; objects that do not exist are passed over. A
   transaction under way is ended, and so is the one of the batch. *)
BatchEdit(batch, undoable) ==
  LET found == {id \in DOMAIN batch : Present(World, id)}
      after == [World EXCEPT !.stores =
                  [id \in Ids |-> IF id \in found THEN Updated(@[id], batch[id]) ELSE @[id]]]
      commands == [i \in 1 .. Len(SetToSeq(found)) |->
                     EditCommand(SetToSeq(found)[i], batch[SetToSeq(found)[i]])]
      closed == IF pending = <<>> THEN undoStack ELSE Trimmed(Append(undoStack, pending))
  IN  /\ Edited /\ DOMAIN batch # {}
      /\ Becomes(after)
      /\ IF ~undoable THEN Unrecorded(found)
         ELSE /\ undoStack' = IF commands = <<>> THEN closed ELSE Trimmed(Append(closed, commands))
              /\ redoStack' = IF commands = <<>> /\ pending = <<>> THEN redoStack ELSE <<>>
              /\ active' = FALSE /\ pending' = <<>>
              /\ regular' = (regular /\ (pending = <<>> \/ commands = <<>>))

(* Any id may be selected, and no command records it. *)
SelectObject(id) ==
  /\ selected' = id
  /\ UNCHANGED <<stores, registered, history, edits, regular>>

Updates(props) == UNION {[S -> Values] : S \in SUBSET props}

Next ==
  \/ \E id \in Ids, undoable \in BOOLEAN :
       \/ \E data \in InitialData : AddObject(id, data, undoable)
       \/ RemoveObject(id, undoable)
       \/ \E updates \in Updates(Props) : SetProperties(id, updates, undoable)
       \/ \E p \in Props, value \in Values : SetProperty(id, p, value, undoable)
  \/ \E S \in SUBSET Ids, undoable \in BOOLEAN :
       /\ IsFiniteSet(S)
       /\ \E batch \in [S -> Updates(Props) \ {<<>>}] : BatchEdit(batch, undoable)
  \/ \E id \in Ids : SelectObject(id)
  \/ BeginTransaction \/ EndTransaction \/ CancelTransaction
  \/ Undo \/ Redo \/ Clear

Spec == Init /\ [][Next]_vars

------------------------------------------------------------------------------
(* Types; a composite on a stack is never empty. *)
TypeOK ==
  /\ stores \in [Ids -> Objects \cup {None}]
  /\ registered \subseteq Ids /\ selected \in Ids \cup {None}
  /\ undoStack \in Seq(Seq(Commands) \ {<<>>}) /\ redoStack \in Seq(Seq(Commands) \ {<<>>})
  /\ active \in BOOLEAN /\ pending \in Seq(Commands) /\ (~active => pending = <<>>)
  /\ edits \in 0 .. MaxEdits /\ regular \in BOOLEAN

(* The scene store lists exactly the objects that have a store, after any calls
   in any order: creation and removal tell both, and so do their undo and redo,
   whatever has become of the object in between. *)
RegistryAgrees == registered = {id \in Ids : stores[id] # None}

(* An object that goes, by a call, an undo, a redo or a cancelled transaction,
   does not stay selected. *)
SelectionGoesWithObject ==
  [][\A id \in registered \ registered' : selected' # id]_vars

(* The line of scenes the commands stand for; a transaction under way counts
   as not yet made. *)
Committed == Backward(World, pending)

Past ==
  LET n == Len(undoStack)
      at[i \in 1 .. n + 1] == IF i > n THEN Committed ELSE Backward(at[i + 1], undoStack[i])
  IN  [i \in 1 .. n |-> at[i].stores]

Future ==
  LET n == Len(redoStack)
      at[i \in 1 .. n + 1] == IF i > n THEN Committed ELSE Forward(at[i + 1], redoStack[i])
  IN  [i \in 1 .. n |-> at[i].stores]

Line == INSTANCE EditHistory WITH
          Things <- Objects \cup {None}, past <- Past, present <- Committed.stores, future <- Future

(* While unrecorded changes keep to objects no command is about, commands over
   many stores are the same as a line of whole scenes: undo and redo walk along
   it, versions included, a transaction or a batch is one step of it, and a cancelled
   transaction never was. *)
AsAnEditHistory == [][regular /\ regular' => Line!Next \/ UNCHANGED Line!history]_vars
=============================================================================
