---------------------------- MODULE EditorEngine ----------------------------
(* The editor of editor_engine.cpp: the reducer editor_update with its history
   of whole scenes, the EditorController around it, and the engine that follows
   the scene by the differences on_state_changed is given.

   The callbacks are user code that may call the controller again: frames is
   the stack of calls under way, each in on_selection_changed, in
   on_state_changed or between the two. Watchers run when nothing is left to do
   in a call: what they call is a call after it. The engine is outside src/: it
   applies each difference to its copy, and its own scene is what it sends in
   SyncFromEngine and what initialize is given.

   Left out: meta, type and root_id, which nothing reads; SetLoadingState, which
   changes nothing; watch and unwatch. Data of an object is opaque: SetProperty
   and SetProperties differ only in how they compute it. *)
EXTENDS Naturals, Sequences, SequencesExt

CONSTANTS
  Ids,             \* object ids
  Data,            \* the data of an object
  None,            \* no object; the empty string as an id
  MaxHistory,      \* EditorModel::max_history
  EngineScenes,    \* scenes the engine may have
  NewObjects,      \* what AddObject may bring
  Loads,           \* what LoadObjects may bring: objects by their ids
  MaxEdits,        \* bound: calls that bring something new
  MaxDepth,        \* bound: calls inside callbacks of calls
  MaxNested        \* bound: up to how many edits callbacks make calls

Objects == [data : Data, children : Seq(Ids)]
Scenes == [objects : [Ids -> Objects \cup {None}], selected : Ids \cup {None}, version : Nat]

(* What scene_to_value keeps of a scene *)
States == [objects : [Ids -> Data \cup {None}], selected : Ids \cup {None}, version : Nat]

(* What the engine keeps of a state; the selection is the editor's. *)
Copies == [objects : [Ids -> Data \cup {None}], version : Nat]

Exists(s, id) == id \in Ids /\ s.objects[id] # None

Chosen(s) == s.selected = None \/ Exists(s, s.selected)

Existing(s) == {id \in Ids : Exists(s, id)}

(* Every child these objects list exists and is listed this once. *)
ListedRight(s, some) ==
  \A p \in some, q \in Existing(s) :
    \A i \in DOMAIN s.objects[p].children, j \in DOMAIN s.objects[q].children :
      /\ Exists(s, s.objects[p].children[i])
      /\ s.objects[p].children[i] = s.objects[q].children[j] => p = q /\ i = j

Tidy(s) == ListedRight(s, Existing(s))

ASSUME ConstantsAssumption ==
  /\ MaxHistory \in Nat \ {0} /\ MaxEdits \in Nat /\ MaxDepth \in Nat \ {0} /\ MaxNested \in Nat
  /\ None \notin Ids /\ None \notin Data /\ None \notin Objects /\ None \notin States
  /\ EngineScenes \subseteq Scenes /\ NewObjects \subseteq Objects
  /\ \A loaded \in Loads : \E S \in SUBSET Ids : loaded \in [S -> Objects]

Frames == [at : {"selection", "check", "changed"}, sent : States \cup {None}]

VARIABLES
  scene, undoStack, redoStack, dirty,  \* EditorModel
  previous,   \* previous_state_value
  engine,     \* the engine's copy of the state
  frames,     \* calls under way, the innermost last
  edits,      \* how many of these calls there were, for the bound only
  adrift,     \* history: previous is not what the engine was last told
  unchosen,   \* history: the scene last brought selects what it does not have
  untidy,     \* history: lists of children were brought that are not right
  overtaken   \* history: objects were loaded while there was something to redo

model == <<scene, undoStack, redoStack, dirty>>
history == <<adrift, unchosen, untidy, overtaken>>
vars == <<model, previous, engine, frames, edits, history>>

------------------------------------------------------------------------------
StateOf(s) ==   \* scene_to_value
  [objects |-> [id \in Ids |-> IF s.objects[id] = None THEN None ELSE s.objects[id].data],
   selected |-> s.selected, version |-> s.version]

CopyOf(state) == [objects |-> state.objects, version |-> state.version]

(* The engine takes what differs between two states, and keeps the rest. *)
Patched(copy, old, new) ==
  [objects |-> [id \in Ids |-> IF old.objects[id] = new.objects[id] THEN copy.objects[id]
                               ELSE new.objects[id]],
   version |-> IF old.version = new.version THEN copy.version ELSE new.version]

Init ==   \* initialize, before which there is nothing to edit
  /\ scene \in EngineScenes
  /\ undoStack = <<>> /\ redoStack = <<>> /\ dirty = FALSE
  /\ previous = StateOf(scene) /\ engine = CopyOf(previous)
  /\ frames = <<>> /\ edits = 0
  /\ adrift = FALSE /\ overtaken = FALSE
  /\ unchosen = ~Chosen(scene) /\ untidy = ~Tidy(scene)

------------------------------------------------------------------------------
(* dispatch: the reducer, and then the callbacks *)

Calling == Last(frames)

At(stage) == frames # <<>> /\ Calling.at = stage

(* The controller is called: from outside, or from a callback. *)
Called ==
  /\ ~At("check")
  /\ frames = <<>> \/ (Len(frames) < MaxDepth /\ edits <= MaxNested)

Dispatch(s) ==
  /\ Called
  /\ scene' = s
  /\ frames' = Append(frames, [at |-> IF s.selected # scene.selected THEN "selection" ELSE "check",
                               sent |-> None])
  /\ UNCHANGED previous

Edited == edits < MaxEdits /\ edits' = edits + 1

(* Mutant: the oldest scene is not dropped. *)
PushedUntrimmed == Append(undoStack, scene)

(* push_undo_state *)
Pushed == LET grown == Append(undoStack, scene)
          IN  IF Len(grown) > MaxHistory THEN Tail(grown) ELSE grown

UserAction(s) ==
  /\ Dispatch([s EXCEPT !.version = scene.version + 1]) /\ Edited
  /\ undoStack' = Pushed /\ redoStack' = <<>> /\ dirty' = TRUE
  /\ UNCHANGED <<engine, adrift, unchosen, overtaken>>

(* SetProperty, SetProperties: of the selected object, if there is one *)
SetProperty(data) ==
  /\ Exists(scene, scene.selected)
  /\ UserAction([scene EXCEPT !.objects[scene.selected].data = data])
  /\ UNCHANGED untidy

(* The object is stored first, over one of its id, and whatever its list of
   children names: it may be its own parent, or name what is not there. *)
AddObject(id, object, parent) ==
  LET added == [scene EXCEPT !.objects[id] = object]
  IN  /\ UserAction(IF Exists(added, parent)
                    THEN [added EXCEPT !.objects[parent].children =
                            Append(added.objects[parent].children, id)]
                    ELSE added)
      /\ untidy' = (untidy \/ Exists(scene, id) \/ parent = id \/ id \in ToSet(object.children)
                           \/ ~ListedRight(added, {id}))

(* Mutant: the object goes, its entry in the parent's list stays. *)
WithoutListed(parent, id) ==
  [scene EXCEPT !.objects[id] = None,
                !.selected = IF scene.selected = id THEN None ELSE scene.selected]

(* The first entry of one parent's list goes, the object, and the selection. *)
Without(parent, id) ==
  [scene EXCEPT !.objects = [other \in Ids |->
     IF other = id THEN None
     ELSE IF other = parent
          THEN [scene.objects[other] EXCEPT !.children = RemoveFirst(scene.objects[other].children, id)]
          ELSE scene.objects[other]],
   !.selected = IF scene.selected = id THEN None ELSE scene.selected]

Parents(id) == {p \in Ids : Exists(scene, p) /\ id \in ToSet(scene.objects[p].children)}

(* The parent is the first object found to list the id, in hash order. *)
RemoveObject(id) ==
  /\ Exists(scene, id)
  /\ \E parent \in IF Parents(id) = {} THEN {None} ELSE Parents(id) : UserAction(Without(parent, id))
  /\ UNCHANGED untidy

(* Mutant: the scene gone back to stays on the stack. *)
UndoKeeping ==
  /\ undoStack # <<>>
  /\ Dispatch(Last(undoStack))
  /\ redoStack' = Append(redoStack, scene)
  /\ dirty' = TRUE
  /\ UNCHANGED <<undoStack, engine, edits, history>>

(* The selection goes back with the scene. *)
Undo ==
  /\ undoStack # <<>>
  /\ Dispatch(Last(undoStack))
  /\ redoStack' = Append(redoStack, scene) /\ undoStack' = Front(undoStack)
  /\ dirty' = TRUE
  /\ UNCHANGED <<engine, edits, history>>

Redo ==
  /\ redoStack # <<>>
  /\ Dispatch(Last(redoStack))
  /\ undoStack' = Append(undoStack, scene) /\ redoStack' = Front(redoStack)
  /\ dirty' = TRUE
  /\ UNCHANGED <<engine, edits, history>>

ClearHistory ==
  /\ Dispatch(scene)
  /\ undoStack' = <<>> /\ redoStack' = <<>>
  /\ overtaken' = FALSE
  /\ UNCHANGED <<dirty, engine, edits, adrift, unchosen, untidy>>

(* Not dirty: the engine hears of it with the next change. *)
SelectObject(id) ==
  /\ Exists(scene, id)
  /\ Dispatch([scene EXCEPT !.selected = id])
  /\ UNCHANGED <<undoStack, redoStack, dirty, engine, edits, history>>

(* The scene is the engine's, as it is, and previous stays what it was. *)
SyncFromEngine(s) ==
  /\ Dispatch(s) /\ Edited
  /\ undoStack' = <<>> /\ redoStack' = <<>> /\ dirty' = FALSE
  /\ engine' = CopyOf(StateOf(s))
  /\ adrift' = (adrift \/ CopyOf(StateOf(s)) # CopyOf(previous))
  /\ overtaken' = FALSE /\ unchosen' = ~Chosen(s) /\ untidy' = ~Tidy(s)

(* Not recorded: an Undo goes back to a scene without what was loaded. Objects
   are stored whatever their lists name: a parent may come before its children. *)
LoadObjects(loaded) ==
  LET with == [scene EXCEPT !.version = scene.version + 1,
                            !.objects = [id \in Ids |-> IF id \in DOMAIN loaded THEN loaded[id]
                                                        ELSE scene.objects[id]]]
  IN  /\ Edited
      /\ Dispatch(with)
      /\ dirty' = TRUE
      /\ overtaken' = (overtaken \/ redoStack # <<>>)
      /\ untidy' = (untidy \/ ~ListedRight(with, DOMAIN loaded))
      /\ UNCHANGED <<undoStack, redoStack, engine, adrift, unchosen>>

(* EditorController::initialize: no callback *)
Initialize(s) ==
  /\ Called /\ Edited
  /\ scene' = s /\ undoStack' = <<>> /\ redoStack' = <<>> /\ dirty' = FALSE
  /\ previous' = StateOf(s) /\ engine' = CopyOf(StateOf(s))
  /\ adrift' = FALSE /\ overtaken' = FALSE /\ unchosen' = ~Chosen(s) /\ untidy' = ~Tidy(s)
  /\ UNCHANGED frames

(* EditorController::step: the check alone. A dispatch the reducer turns down
   does the same. *)
Step ==
  /\ Called
  /\ frames' = Append(frames, [at |-> "check", sent |-> None])
  /\ UNCHANGED <<model, previous, engine, edits, history>>

------------------------------------------------------------------------------
(* The rest of a call: on_selection_changed, check_and_notify_changes *)

Proceed(frame) == frames' = Append(Front(frames), frame)

Return == frames' = Front(frames)

SelectionTold ==
  /\ At("selection")
  /\ Proceed([at |-> "check", sent |-> None])
  /\ UNCHANGED <<model, previous, engine, edits, history>>

NothingChanged ==
  /\ At("check") /\ ~dirty
  /\ Return
  /\ UNCHANGED <<model, previous, engine, edits, history>>

(* dirty, and yet the difference is empty *)
SameState ==
  /\ At("check") /\ dirty /\ previous = StateOf(scene)
  /\ dirty' = FALSE
  /\ Return
  /\ UNCHANGED <<scene, undoStack, redoStack, previous, engine, edits, history>>

(* Mutant: the state is not kept for after the callback. *)
TellEngineKeepingNothing ==
  /\ At("check") /\ dirty /\ previous # StateOf(scene)
  /\ engine' = Patched(engine, previous, StateOf(scene))
  /\ Proceed([at |-> "changed", sent |-> None])
  /\ UNCHANGED <<model, previous, edits, history>>

(* on_state_changed is called with the difference to previous. *)
TellEngine ==
  /\ At("check") /\ dirty /\ previous # StateOf(scene)
  /\ engine' = Patched(engine, previous, StateOf(scene))
  /\ Proceed([at |-> "changed", sent |-> StateOf(scene)])
  /\ UNCHANGED <<model, previous, edits, history>>

(* Mutant: what was told is not remembered. *)
EngineToldForgetting ==
  /\ At("changed")
  /\ dirty' = FALSE
  /\ Return
  /\ UNCHANGED <<scene, undoStack, redoStack, previous, engine, edits, history>>

(* previous becomes what this call told, also if a call from the callback has
   told more since. *)
EngineTold ==
  /\ At("changed")
  /\ previous' = Calling.sent /\ dirty' = FALSE
  /\ adrift' = (adrift \/ CopyOf(StateOf(scene)) # CopyOf(Calling.sent))
  /\ Return
  /\ UNCHANGED <<scene, undoStack, redoStack, engine, edits, unchosen, untidy, overtaken>>

------------------------------------------------------------------------------
User ==
  \/ \E data \in Data : SetProperty(data)
  \/ \E id \in Ids, object \in NewObjects, parent \in Ids \cup {None} : AddObject(id, object, parent)
  \/ \E id \in Ids : RemoveObject(id) \/ SelectObject(id)
  \/ Undo \/ Redo \/ ClearHistory \/ Step
  \/ \E s \in EngineScenes : SyncFromEngine(s) \/ Initialize(s)
  \/ \E loaded \in Loads : LoadObjects(loaded)

Controller ==
  SelectionTold \/ NothingChanged \/ SameState \/ TellEngine \/ EngineTold

Next == User \/ Controller

Spec == Init /\ [][Next]_vars

------------------------------------------------------------------------------
(* Types of the model's state. A frame knows what it sent while the engine is
   being told, and not otherwise. *)
TypeOK ==
  /\ scene \in Scenes /\ undoStack \in Seq(Scenes) /\ redoStack \in Seq(Scenes)
  /\ dirty \in BOOLEAN
  /\ previous \in States /\ engine \in Copies
  /\ frames \in Seq(Frames)
  /\ \A i \in DOMAIN frames : frames[i].sent # None <=> frames[i].at = "changed"
  /\ edits \in 0 .. MaxEdits
  /\ adrift \in BOOLEAN /\ unchosen \in BOOLEAN /\ untidy \in BOOLEAN /\ overtaken \in BOOLEAN

(* Both stacks together stay within max_history: Redo pushes without the trim
   of push_undo_state (editor_engine.cpp:38-40, 81). *)
HistoryBounded == Len(undoStack) + Len(redoStack) <= MaxHistory

(* The scene, and every scene Undo or Redo can bring back *)
Remembered == {scene} \cup ToSet(undoStack) \cup ToSet(redoStack)

(* The selection names an object, and will after any Undo or Redo, unless the
   scene the engine brought selects what it does not have: get_selected_object
   and SetProperty look it up (editor_engine.cpp:141, 545). *)
SelectionExists == unchosen \/ \A s \in Remembered : Chosen(s)

(* No children list of any scene of the history names an object that is gone or
   one that another entry names, unless a caller brought such a list: in a scene
   of the engine, with an object added or loaded whose children are not there or
   listed elsewhere, by adding one over another or below itself. RemoveObject
   deletes one entry of one list (editor_engine.cpp:232-241). *)
ChildrenExist == untidy \/ \A s \in Remembered : Tidy(s)

(* No scene that Undo or Redo may bring back names what it does not have, but for
   what callers brought: no call, nor any order of removals, loads, selections,
   Undo and Redo breaks a reference that was right. *)
ReferencesExist == SelectionExists /\ ChildrenExist

(* Versions go up from the oldest scene to undo to the last one to redo. *)
InLine(past, present, future) ==
  /\ \A i, j \in DOMAIN past : i < j => past[i].version < past[j].version
  /\ \A i \in DOMAIN past : past[i].version < present.version
  /\ \A i \in DOMAIN future : present.version < future[i].version
  /\ \A i, j \in DOMAIN future : i < j => future[j].version < future[i].version

(* The version tells the scenes of the history apart, unless objects were loaded
   between an Undo and a Redo: it is part of the snapshots and goes back with
   them. *)
VersionsAscend == ~overtaken => InLine(undoStack, scene, redoStack)

(* Between calls the engine has the objects and the version of the scene,
   whatever was undone, loaded or called from inside callbacks: unless a
   SyncFromEngine brought another scene than the one told last, or a call
   inside on_state_changed told more. *)
EngineFollows ==
  frames = <<>> => /\ ~dirty
                   /\ adrift \/ engine = CopyOf(StateOf(scene))
=============================================================================
