------------------------ MODULE EditorEngine_proofs ------------------------
(* The history of the editor, for every max_history, every scene and whatever
   the callbacks call: how long it is, that its scenes are in order, and that
   each of them is one the editor can work with. And that the engine, which is
   only told differences, has the scene. *)
EXTENDS EditorEngine, SequenceLemmas, TLAPS

(* The ways a step may change scene and stacks. *)
Recorded == undoStack' = Pushed /\ redoStack' = <<>>
Back ==
  /\ undoStack # <<>>
  /\ scene' = Last(undoStack)
  /\ undoStack' = Front(undoStack) /\ redoStack' = Append(redoStack, scene)
Forth ==
  /\ redoStack # <<>>
  /\ scene' = Last(redoStack)
  /\ redoStack' = Front(redoStack) /\ undoStack' = Append(undoStack, scene)
Kept == undoStack' = undoStack /\ redoStack' = redoStack
Emptied == undoStack' = <<>> /\ redoStack' = <<>>

------------------------------------------------------------------------------
(* Types *)

(* A stack after a push that trims, and its entries *)
LEMMA PushedType ==
  ASSUME scene \in Scenes, undoStack \in Seq(Scenes)
  PROVE  /\ Pushed \in Seq(Scenes)
         /\ ToSet(Pushed) \subseteq ToSet(undoStack) \cup {scene}
         /\ Len(Pushed) <= Len(undoStack) + 1
         /\ Len(undoStack) <= MaxHistory => Len(Pushed) <= MaxHistory
<1> DEFINE grown == Append(undoStack, scene)
<1>1. /\ grown \in Seq(Scenes) /\ ToSet(grown) = ToSet(undoStack) \cup {scene}
      /\ Len(grown) = Len(undoStack) + 1 /\ Len(undoStack) \in Nat
  <2>1. scene \in Scenes /\ undoStack \in Seq(Scenes)
    OBVIOUS
  <2>2. grown \in Seq(Scenes) /\ ToSet(grown) = ToSet(undoStack) \cup {scene}
    BY <2>1, EndEntries
  <2> QED
    BY <2>1, <2>2
<1>2. grown # <<>>
  BY <1>1, EmptySeq
<1> HIDE DEF grown
<1>3. Tail(grown) \in Seq(Scenes) /\ ToSet(Tail(grown)) \subseteq ToSet(grown)
  <2>1. scene \in Scenes
    OBVIOUS
  <2> QED
    BY <1>1, <1>2, <2>1, EndEntries
<1>4. Len(Tail(grown)) = Len(grown) - 1
  BY <1>1, <1>2, HeadTailProperties
<1>5. Pushed = IF Len(grown) > MaxHistory THEN Tail(grown) ELSE grown
  BY DEF Pushed, grown
<1>6. MaxHistory \in Nat
  BY ConstantsAssumption
<1>7. CASE Len(grown) > MaxHistory
  <2>1. Pushed = Tail(grown)
    BY <1>5, <1>7
  <2> QED
    BY <1>1, <1>3, <1>4, <1>6, <2>1
<1>8. CASE ~(Len(grown) > MaxHistory)
  <2>1. Pushed = grown
    BY <1>5, <1>8
  <2> QED
    BY <1>1, <1>6, <1>8, <2>1
<1> QED
  BY <1>7, <1>8

(* A call within a call is a frame more. *)
LEMMA DispatchType ==
  ASSUME TypeOK, NEW s \in Scenes, Dispatch(s)
  PROVE  /\ scene' \in Scenes /\ previous' \in States
         /\ frames' \in Seq(Frames)
         /\ \A i \in DOMAIN frames' : frames'[i].sent # None <=> frames'[i].at = "changed"
<1> DEFINE frame == [at |-> IF s.selected # scene.selected THEN "selection" ELSE "check", sent |-> None]
<1>1. frame \in Frames /\ ~(frame.sent # None) /\ frame.at # "changed"
  BY DEF Frames
<1>2. frames' = Append(frames, frame)
  BY DEF Dispatch
<1> HIDE DEF frame
<1>3. frames \in Seq(Frames)
  BY DEF TypeOK
<1>4. frames' \in Seq(Frames)
  BY <1>1, <1>2, <1>3
<1>5. \A i \in DOMAIN frames' : frames'[i].sent # None <=> frames'[i].at = "changed"
  BY <1>1, <1>2, <1>3 DEF TypeOK
<1> QED
  BY <1>4, <1>5 DEF Dispatch, TypeOK

(* Every recorded action keeps the types, whatever scene it makes. *)
LEMMA UserActionType ==
  ASSUME TypeOK, NEW s \in Scenes, UserAction(s), untidy' \in BOOLEAN
  PROVE  TypeOK'
<1>1. [s EXCEPT !.version = scene.version + 1] \in Scenes
  <2>1. PICK v \in Nat : v = scene.version + 1
    BY DEF TypeOK, Scenes
  <2> QED
    BY <2>1 DEF Scenes
<1>2. /\ scene' \in Scenes /\ previous' \in States
      /\ frames' \in Seq(Frames)
      /\ \A i \in DOMAIN frames' : frames'[i].sent # None <=> frames'[i].at = "changed"
  BY <1>1, DispatchType DEF UserAction
<1>3. undoStack' \in Seq(Scenes) /\ redoStack' \in Seq(Scenes)
  BY PushedType, EmptySeq DEF UserAction, TypeOK
<1>4. edits' \in 0 .. MaxEdits
  BY ConstantsAssumption DEF UserAction, Edited, TypeOK
<1> QED
  BY <1>2, <1>3, <1>4 DEF UserAction, TypeOK

(* The scenes the reducer makes are scenes. *)
LEMMA SetPropertyScene ==
  ASSUME TypeOK, NEW d \in Data, Exists(scene, scene.selected)
  PROVE  [scene EXCEPT !.objects[scene.selected].data = d] \in Scenes
BY DEF TypeOK, Scenes, Objects, Exists

Added(id, object, parent) ==
  LET added == [scene EXCEPT !.objects[id] = object]
  IN  IF Exists(added, parent)
      THEN [added EXCEPT !.objects[parent].children = Append(added.objects[parent].children, id)]
      ELSE added

LEMMA AddedScene ==
  ASSUME scene \in Scenes, NEW id \in Ids, NEW object \in NewObjects, NEW parent \in Ids \cup {None}
  PROVE  /\ Added(id, object, parent) \in Scenes
         /\ Added(id, object, parent).selected = scene.selected
         /\ \A p \in Ids :
              LET s == Added(id, object, parent)
              IN  /\ Exists(s, p) <=> Exists(scene, p) \/ p = id
                  /\ p # id /\ p # parent => s.objects[p] = scene.objects[p]
                  /\ p = id /\ p # parent => s.objects[p] = object
                  /\ p = parent /\ p # id /\ Exists(scene, p) =>
                       s.objects[p].children = Append(scene.objects[p].children, id)
<1> DEFINE added == [scene EXCEPT !.objects[id] = object]
<1>1. object \in Objects /\ object # None
  BY ConstantsAssumption
<1>2. /\ added \in Scenes /\ added.selected = scene.selected
      /\ \A p \in Ids : added.objects[p] = IF p = id THEN object ELSE scene.objects[p]
  BY <1>1 DEF Scenes
<1>3. \A p \in Ids : Exists(added, p) <=> Exists(scene, p) \/ p = id
  BY <1>1, <1>2 DEF Exists
<1> HIDE DEF added
<1>4. CASE ~Exists(added, parent)
  <2>1. Added(id, object, parent) = added
    BY <1>4 DEF Added, added
  <2>2. ~Exists(scene, parent) /\ parent # id
    BY <1>3, <1>4 DEF Exists
  <2> QED
    BY <1>2, <1>3, <2>1, <2>2
<1>5. CASE Exists(added, parent)
  <2> DEFINE grown == Append(added.objects[parent].children, id)
             both == [added EXCEPT !.objects[parent].children = grown]
  <2>1. Added(id, object, parent) = both
    BY <1>5 DEF Added, added
  <2>2. parent \in Ids /\ added.objects[parent] \in Objects
    BY <1>2, <1>5 DEF Exists, Scenes
  <2>3. grown \in Seq(Ids)
    BY <2>2 DEF Objects
  <2>4. /\ both.selected = scene.selected
        /\ \A p \in Ids : p # parent => both.objects[p] = added.objects[p]
        /\ both.objects[parent] = [added.objects[parent] EXCEPT !.children = grown]
    BY <1>2, <2>2 DEF Scenes
  <2>5. both \in Scenes
    BY <1>2, <2>2, <2>3 DEF Scenes, Objects
  <2> HIDE DEF both
  <2>6. both.objects[parent] \in Objects /\ both.objects[parent].children = grown
    <3>1. PICK w \in Objects : w = added.objects[parent]
      BY <2>2
    <3> HIDE DEF grown
    <3>2. [w EXCEPT !.children = grown] \in Objects /\ [w EXCEPT !.children = grown].children = grown
      BY <2>3 DEF Objects
    <3> QED
      BY <2>4, <3>1, <3>2
  <2>7. \A p \in Ids : Exists(both, p) <=> Exists(added, p)
    BY <1>5, <2>4, <2>6, ConstantsAssumption DEF Exists
  <2>8. parent # id => grown = Append(scene.objects[parent].children, id)
    BY <1>2, <2>2
  <2> QED
    BY <1>2, <1>3, <2>1, <2>2, <2>4, <2>5, <2>6, <2>7, <2>8
<1> QED
  BY <1>4, <1>5
(* A list without an entry is a list. *)
LEMMA RemovedType == ASSUME NEW S, NEW s \in Seq(S), NEW e PROVE RemoveFirst(s, e) \in Seq(S)
<1>1. CASE e \in ToSet(s)
  BY <1>1, OneRemoved
<1>2. CASE ~\E i \in 1 .. Len(s) : s[i] = e
  BY <1>2 DEF RemoveFirst
<1>3. (\E i \in 1 .. Len(s) : s[i] = e) => e \in ToSet(s)
  BY DEF ToSet
<1> QED
  BY <1>1, <1>2, <1>3

(* Without an object, scene is a scene; the children lists of the others are
   what they were, but for one entry of the parent. *)
LEMMA WithoutScene ==
  ASSUME scene \in Scenes, NEW id \in Ids, NEW parent \in Ids \cup {None},
         parent # None => Exists(scene, parent)
  PROVE  /\ Without(parent, id) \in Scenes
         /\ Without(parent, id).selected = IF scene.selected = id THEN None ELSE scene.selected
         /\ \A p \in Ids :
              /\ Exists(Without(parent, id), p) <=> Exists(scene, p) /\ p # id
              /\ p # id /\ p # parent => Without(parent, id).objects[p] = scene.objects[p]
              /\ p # id /\ p = parent =>
                   Without(parent, id).objects[p].children = RemoveFirst(scene.objects[p].children, id)
<1> DEFINE objects == [other \in Ids |->
             IF other = id THEN None
             ELSE IF other = parent
                  THEN [scene.objects[other] EXCEPT !.children = RemoveFirst(scene.objects[other].children, id)]
                  ELSE scene.objects[other]]
<1>1. Without(parent, id) =
        [scene EXCEPT !.objects = objects, !.selected = IF scene.selected = id THEN None ELSE scene.selected]
  BY DEF Without
<1>2. ASSUME NEW p \in Ids, Exists(scene, p)
      PROVE  /\ scene.objects[p] \in Objects
             /\ RemoveFirst(scene.objects[p].children, id) \in Seq(Ids)
  <2>1. scene.objects[p] \in Objects
    BY <1>2 DEF Exists, Scenes
  <2> DEFINE list == scene.objects[p].children
  <2>2. list \in Seq(Ids)
    BY <2>1 DEF Objects
  <2> HIDE DEF list
  <2>3. RemoveFirst(list, id) \in Seq(Ids)
    BY <2>2, RemovedType
  <2> QED
    BY <2>1, <2>3 DEF list
<1>3. ASSUME NEW p \in Ids
      PROVE  /\ objects[p] \in Objects \cup {None}
             /\ objects[p] # None <=> Exists(scene, p) /\ p # id
             /\ p # id /\ p # parent => objects[p] = scene.objects[p]
             /\ p # id /\ p = parent => objects[p].children = RemoveFirst(scene.objects[p].children, id)
  <2>1. CASE p = id
    BY <2>1
  <2>2. CASE p # id /\ p # parent
    BY <2>2 DEF Scenes, Exists
  <2>3. CASE p # id /\ p = parent
    <3> DEFINE shorter == RemoveFirst(scene.objects[p].children, id)
    <3>1. parent # None /\ Exists(scene, p)
      BY <2>3, ConstantsAssumption
    <3>2. scene.objects[p] \in Objects /\ shorter \in Seq(Ids)
      BY <1>2, <3>1
    <3>3. objects[p] = [scene.objects[p] EXCEPT !.children = shorter]
      BY <2>3
    <3> HIDE DEF objects, shorter
    <3>4. objects[p] \in Objects /\ objects[p].children = shorter
      BY <3>2, <3>3 DEF Objects
    <3> QED
      BY <2>3, <3>1, <3>4, ConstantsAssumption DEF shorter
  <2> QED
    BY <2>1, <2>2, <2>3
<1>4. objects \in [Ids -> Objects \cup {None}]
  BY <1>3
<1> HIDE DEF objects
<1>5. Without(parent, id) \in Scenes /\ Without(parent, id).objects = objects
  BY <1>1, <1>4, ConstantsAssumption DEF Scenes
<1>6. Without(parent, id).selected = IF scene.selected = id THEN None ELSE scene.selected
  BY <1>1 DEF Scenes
<1> QED
  BY <1>3, <1>5, <1>6 DEF Exists

(* The scene with objects loaded over it *)
Loaded(loaded) ==
  [scene EXCEPT !.version = scene.version + 1,
                !.objects = [id \in Ids |-> IF id \in DOMAIN loaded THEN loaded[id]
                                            ELSE scene.objects[id]]]

LEMMA LoadedScene ==
  ASSUME scene \in Scenes, NEW loaded \in Loads
  PROVE  LET s == Loaded(loaded)
         IN  /\ s \in Scenes /\ s.selected = scene.selected /\ s.version = scene.version + 1
             /\ DOMAIN loaded \subseteq Ids
             /\ \A id \in Ids :
                  /\ id \in DOMAIN loaded => s.objects[id] = loaded[id] /\ Exists(s, id)
                  /\ id \notin DOMAIN loaded => s.objects[id] = scene.objects[id]
<1> DEFINE S == DOMAIN loaded
           objects == [id \in Ids |-> IF id \in DOMAIN loaded THEN loaded[id] ELSE scene.objects[id]]
           s == [scene EXCEPT !.version = scene.version + 1, !.objects = objects]
<1>1. S \subseteq Ids /\ \A id \in S : loaded[id] \in Objects /\ loaded[id] # None
  <2>1. PICK T \in SUBSET Ids : loaded \in [T -> Objects]
    BY ConstantsAssumption
  <2>2. S = T
    BY <2>1
  <2> QED
    BY <2>1, <2>2, ConstantsAssumption
<1>2. objects \in [Ids -> Objects \cup {None}]
  BY <1>1 DEF Scenes
<1>3. \A id \in Ids : objects[id] = IF id \in S THEN loaded[id] ELSE scene.objects[id]
  OBVIOUS
<1>5. Loaded(loaded) = s
  BY DEF Loaded
<1> HIDE DEF objects, S
<1>4. s \in Scenes /\ s.objects = objects /\ s.selected = scene.selected /\ s.version = scene.version + 1
  <2> DEFINE next == scene.version + 1
  <2>1. next \in Nat
    BY DEF Scenes
  <2> HIDE DEF next
  <2>2. s = [scene EXCEPT !.version = next, !.objects = objects]
    BY DEF next
  <2> HIDE DEF s
  <2>3. s \in Scenes /\ s.objects = objects /\ s.selected = scene.selected /\ s.version = next
    BY <1>2, <2>1, <2>2 DEF Scenes
  <2> QED
    BY <2>3 DEF next
<1> QED
  BY <1>1, <1>3, <1>4, <1>5 DEF Exists, S

(* What scene_to_value keeps of a scene is a state, and the engine's copy of one is a copy. *)
LEMMA StateTypes ==
  /\ \A s \in Scenes : StateOf(s) \in States
  /\ \A state \in States : CopyOf(state) \in Copies
  /\ \A copy \in Copies, old, new \in States : Patched(copy, old, new) \in Copies
<1>1. ASSUME NEW s \in Scenes PROVE StateOf(s) \in States
  <2>1. \A id \in Ids : s.objects[id] # None => s.objects[id].data \in Data
    BY DEF Scenes, Objects
  <2> QED
    BY <2>1 DEF StateOf, States, Scenes
<1>2. ASSUME NEW state \in States PROVE CopyOf(state) \in Copies
  BY DEF CopyOf, States, Copies
<1>3. ASSUME NEW copy \in Copies, NEW old \in States, NEW new \in States
      PROVE  Patched(copy, old, new) \in Copies
  BY DEF Patched, States, Copies
<1> QED
  BY <1>1, <1>2, <1>3

(* A stack of calls with its innermost call further, or back *)
LEMMA FrameTypes ==
  ASSUME TypeOK, frames # <<>>, NEW frame \in Frames, frame.sent # None <=> frame.at = "changed",
         Proceed(frame) \/ Return
  PROVE  /\ frames' \in Seq(Frames)
         /\ \A i \in DOMAIN frames' : frames'[i].sent # None <=> frames'[i].at = "changed"
<1> DEFINE F == {f \in Frames : f.sent # None <=> f.at = "changed"}
<1>1. frames \in Seq(F)
  <2>1. \A i \in 1 .. Len(frames) : frames[i] \in F
    BY DEF TypeOK
  <2> QED
    BY <2>1 DEF TypeOK
<1>2. frame \in F
  OBVIOUS
<1>3. Front(frames) \in Seq(F)
  BY <1>1, <1>2, EndEntries
<1>4. Append(Front(frames), frame) \in Seq(F)
  BY <1>2, <1>3
<1>5. frames' \in Seq(F)
  BY <1>3, <1>4 DEF Proceed, Return
<1>6. frames' \in Seq(Frames)
  BY <1>5
<1> QED
  BY <1>5, <1>6

(* Every step keeps the types. *)
LEMMA TypeStep == ASSUME TypeOK, [Next]_vars PROVE TypeOK'
<1>1. CASE \E d \in Data : SetProperty(d)
  <2>1. PICK d \in Data : SetProperty(d)
    BY <1>1
  <2>2. [scene EXCEPT !.objects[scene.selected].data = d] \in Scenes
    BY <2>1, SetPropertyScene DEF SetProperty
  <2> QED
    BY <2>1, <2>2, UserActionType DEF SetProperty, TypeOK
<1>2. CASE \E id \in Ids, object \in NewObjects, parent \in Ids \cup {None} : AddObject(id, object, parent)
  <2>1. PICK id \in Ids, object \in NewObjects, parent \in Ids \cup {None} : AddObject(id, object, parent)
    BY <1>2, ZenonT(60)
  <2>2. UserAction(Added(id, object, parent)) /\ untidy' \in BOOLEAN
    BY <2>1, ConstantsAssumption DEF AddObject, Added, TypeOK
  <2>3. Added(id, object, parent) \in Scenes
    BY AddedScene DEF TypeOK
  <2> QED
    BY <2>2, <2>3, UserActionType
<1>3. CASE \E id \in Ids : RemoveObject(id)
  <2>1. PICK id \in Ids : RemoveObject(id)
    BY <1>3
  <2>2. PICK parent \in Ids \cup {None} :
          UserAction(Without(parent, id)) /\ (parent # None => Exists(scene, parent))
    BY <2>1 DEF RemoveObject, Parents
  <2>3. Without(parent, id) \in Scenes
    BY <2>2, WithoutScene DEF TypeOK
  <2> QED
    BY <2>1, <2>2, <2>3, UserActionType DEF RemoveObject, TypeOK
<1>4. CASE \E id \in Ids : SelectObject(id)
  <2>1. PICK id \in Ids : SelectObject(id)
    BY <1>4
  <2>2. [scene EXCEPT !.selected = id] \in Scenes
    BY DEF TypeOK, Scenes
  <2> QED
    BY <2>1, <2>2, DispatchType DEF SelectObject, TypeOK, history
<1>5. CASE Undo
  <2>1. /\ Last(undoStack) \in Scenes /\ Front(undoStack) \in Seq(Scenes)
        /\ Append(redoStack, scene) \in Seq(Scenes)
    BY <1>5, EndEntries DEF Undo, TypeOK
  <2> QED
    BY <1>5, <2>1, DispatchType DEF Undo, TypeOK, history
<1>6. CASE Redo
  <2>1. /\ Last(redoStack) \in Scenes /\ Front(redoStack) \in Seq(Scenes)
        /\ Append(undoStack, scene) \in Seq(Scenes)
    BY <1>6, EndEntries DEF Redo, TypeOK
  <2> QED
    BY <1>6, <2>1, DispatchType DEF Redo, TypeOK, history
<1>7. CASE ClearHistory
  BY <1>7, DispatchType, EmptySeq DEF ClearHistory, TypeOK
<1>8. CASE Step
  <2> DEFINE frame == [at |-> "check", sent |-> None]
  <2>1. frame \in Frames /\ frame.sent = None /\ frame.at # "changed"
    BY DEF Frames
  <2>2. frames' = Append(frames, frame)
    BY <1>8 DEF Step
  <2> HIDE DEF frame
  <2>3. /\ frames' \in Seq(Frames)
        /\ \A i \in DOMAIN frames' : frames'[i].sent # None <=> frames'[i].at = "changed"
    BY <2>1, <2>2 DEF TypeOK
  <2> QED
    BY <1>8, <2>3 DEF Step, TypeOK, model, history
<1>9. CASE \E s \in EngineScenes : SyncFromEngine(s)
  <2>1. PICK s \in EngineScenes : SyncFromEngine(s)
    BY <1>9
  <2>2. s \in Scenes /\ CopyOf(StateOf(s)) \in Copies
    BY ConstantsAssumption, StateTypes
  <2>3. edits' \in 0 .. MaxEdits
    BY <2>1, ConstantsAssumption DEF SyncFromEngine, Edited, TypeOK
  <2> QED
    BY <2>1, <2>2, <2>3, DispatchType, EmptySeq DEF SyncFromEngine, TypeOK
<1>10. CASE \E s \in EngineScenes : Initialize(s)
  <2>1. PICK s \in EngineScenes : Initialize(s)
    BY <1>10
  <2>2. s \in Scenes /\ StateOf(s) \in States /\ CopyOf(StateOf(s)) \in Copies
    BY ConstantsAssumption, StateTypes
  <2>3. edits' \in 0 .. MaxEdits
    BY <2>1, ConstantsAssumption DEF Initialize, Edited, TypeOK
  <2> QED
    BY <2>1, <2>2, <2>3, EmptySeq DEF Initialize, TypeOK
<1>11. CASE \E loaded \in Loads : LoadObjects(loaded)
  <2>2. PICK loaded \in Loads : LoadObjects(loaded)
    BY <1>11
  <2> DEFINE s == Loaded(loaded)
  <2>3. s \in Scenes
    BY LoadedScene DEF TypeOK
  <2>4. Dispatch(s)
    BY <2>2 DEF LoadObjects, Loaded
  <2> HIDE DEF s
  <2>5. edits' \in 0 .. MaxEdits
    BY <2>2, ConstantsAssumption DEF LoadObjects, Edited, TypeOK
  <2> QED
    BY <2>2, <2>3, <2>4, <2>5, DispatchType DEF LoadObjects, TypeOK
<1>12. CASE SelectionTold
  <2>1. [at |-> "check", sent |-> None] \in Frames
    BY DEF Frames
  <2>2. /\ frames' \in Seq(Frames)
        /\ \A i \in DOMAIN frames' : frames'[i].sent # None <=> frames'[i].at = "changed"
    BY <1>12, <2>1, FrameTypes DEF SelectionTold, At
  <2> QED
    BY <1>12, <2>2 DEF SelectionTold, TypeOK, model, history
<1>13. ASSUME frames # <<>>, Return
       PROVE  /\ frames' \in Seq(Frames)
              /\ \A i \in DOMAIN frames' : frames'[i].sent # None <=> frames'[i].at = "changed"
  <2>1. [at |-> "check", sent |-> None] \in Frames
    BY DEF Frames
  <2> QED
    BY <1>13, <2>1, FrameTypes
<1>14. CASE NothingChanged
  BY <1>13, <1>14 DEF NothingChanged, At, TypeOK, model, history
<1>15. CASE SameState
  BY <1>13, <1>15 DEF SameState, At, TypeOK, history
<1>16. CASE TellEngine
  <2>1. StateOf(scene) \in States /\ StateOf(scene) # None
    BY StateTypes, ConstantsAssumption DEF TypeOK
  <2>2. [at |-> "changed", sent |-> StateOf(scene)] \in Frames
    BY <2>1 DEF Frames
  <2>3. /\ frames' \in Seq(Frames)
        /\ \A i \in DOMAIN frames' : frames'[i].sent # None <=> frames'[i].at = "changed"
    BY <1>16, <2>1, <2>2, FrameTypes DEF TellEngine, At
  <2>4. engine' \in Copies
    BY <1>16, <2>1, StateTypes DEF TellEngine, TypeOK
  <2> QED
    BY <1>16, <2>3, <2>4 DEF TellEngine, TypeOK, model, history
<1>17. CASE EngineTold
  <2>1. Len(frames) \in 1 .. Len(frames) /\ Calling = frames[Len(frames)]
    BY <1>17, EmptySeq DEF EngineTold, At, TypeOK, Calling, Last
  <2>2. Calling \in Frames /\ (Calling.sent # None <=> Calling.at = "changed")
    BY <2>1 DEF TypeOK
  <2>3. Calling.at = "changed"
    BY <1>17 DEF EngineTold, At
  <2>4. Calling.sent \in States
    BY <2>2, <2>3 DEF Frames
  <2> QED
    BY <1>13, <1>17, <2>4 DEF EngineTold, At, TypeOK
<1>18. CASE UNCHANGED vars
  BY <1>18 DEF vars, model, history, TypeOK
<1> QED
  BY <1>1, <1>2, <1>3, <1>4, <1>5, <1>6, <1>7, <1>8, <1>9, <1>10, <1>11, <1>12, <1>14, <1>15,
     <1>16, <1>17, <1>18 DEF Next, User, Controller
------------------------------------------------------------------------------
(* Histories *)

(* What a step does to the stacks and to the version of the scene *)
Changed ==
  \/ Recorded /\ scene'.version = scene.version + 1
  \/ Back
  \/ Forth
  \/ Kept /\ scene'.version = scene.version
  \/ Kept /\ scene'.version = scene.version + 1 /\ (overtaken' \/ redoStack = <<>>)
  \/ Emptied

LEMMA Changes ==
  ASSUME TypeOK, [Next]_vars
  PROVE  /\ Changed
         /\ Emptied \/ (overtaken => overtaken')
         /\ \/ (unchosen' <=> ~Chosen(scene')) /\ (untidy' <=> ~Tidy(scene')) /\ Emptied
            \/ unchosen' = unchosen /\ (untidy => untidy')
<1>2. ASSUME NEW s \in Scenes, UserAction(s), untidy => untidy'
      PROVE  Changed /\ unchosen' = unchosen /\ (untidy => untidy') /\ (overtaken => overtaken')
  <2>1. [s EXCEPT !.version = scene.version + 1].version = scene.version + 1
    BY DEF Scenes
  <2>2. scene' = [s EXCEPT !.version = scene.version + 1]
    BY <1>2 DEF UserAction, Dispatch
  <2> QED
    BY <1>2, <2>1, <2>2 DEF UserAction, Changed, Recorded
<1>3. CASE \E d \in Data : SetProperty(d)
  <2>1. PICK d \in Data : SetProperty(d)
    BY <1>3
  <2>2. [scene EXCEPT !.objects[scene.selected].data = d] \in Scenes
    BY <2>1, SetPropertyScene DEF SetProperty
  <2> QED
    BY <1>2, <2>1, <2>2 DEF SetProperty
<1>4. CASE \E id \in Ids, object \in NewObjects, parent \in Ids \cup {None} : AddObject(id, object, parent)
  <2>1. PICK id \in Ids, object \in NewObjects, parent \in Ids \cup {None} : AddObject(id, object, parent)
    BY <1>4
  <2>2. UserAction(Added(id, object, parent)) /\ (untidy => untidy')
    BY <2>1 DEF AddObject, Added
  <2>3. Added(id, object, parent) \in Scenes
    BY AddedScene DEF TypeOK
  <2> QED
    BY <1>2, <2>2, <2>3
<1>5. CASE \E id \in Ids : RemoveObject(id)
  <2>1. PICK id \in Ids : RemoveObject(id)
    BY <1>5
  <2>2. PICK parent \in Ids \cup {None} :
          UserAction(Without(parent, id)) /\ (parent # None => Exists(scene, parent))
    BY <2>1 DEF RemoveObject, Parents
  <2>3. Without(parent, id) \in Scenes
    BY <2>2, WithoutScene DEF TypeOK
  <2> QED
    BY <1>2, <2>1, <2>2, <2>3 DEF RemoveObject
<1>6. CASE \E id \in Ids : SelectObject(id)
  <2>1. PICK id \in Ids : SelectObject(id)
    BY <1>6
  <2>2. scene' = [scene EXCEPT !.selected = id]
    BY <2>1 DEF SelectObject, Dispatch
  <2>3. scene'.version = scene.version
    BY <2>2 DEF TypeOK, Scenes
  <2> QED
    BY <2>1, <2>3 DEF SelectObject, history, Changed, Kept
<1>7. CASE Undo
  BY <1>7 DEF Undo, Dispatch, Changed, Back, history
<1>8. CASE Redo
  BY <1>8 DEF Redo, Dispatch, Changed, Forth, history
<1>9. CASE ClearHistory
  BY <1>9 DEF ClearHistory, Changed, Emptied
<1>10. CASE Step \/ SelectionTold \/ NothingChanged \/ SameState \/ TellEngine \/ EngineTold \/ UNCHANGED vars
  BY <1>10 DEF Step, SelectionTold, NothingChanged, SameState, TellEngine, EngineTold, vars, model, history,
     Changed, Kept
<1>11. CASE \E s \in EngineScenes : SyncFromEngine(s) \/ Initialize(s)
  BY <1>11 DEF SyncFromEngine, Initialize, Dispatch, Changed, Emptied
<1>12. CASE \E loaded \in Loads : LoadObjects(loaded)
  <2>2. PICK loaded \in Loads : LoadObjects(loaded)
    BY <1>12
  <2>1. scene' = Loaded(loaded)
    BY <2>2 DEF LoadObjects, Dispatch, Loaded
  <2>3. scene'.version = scene.version + 1
    BY <2>1, LoadedScene DEF TypeOK
  <2> QED
    BY <2>2, <2>3 DEF LoadObjects, Changed, Kept
<1> QED
  BY <1>3, <1>4, <1>5, <1>6, <1>7, <1>8, <1>9, <1>10, <1>11, <1>12 DEF Next, User, Controller

(* A step remembers nothing new but the new scene. *)
LEMMA NothingElse == ASSUME TypeOK, [Next]_vars PROVE Remembered' \subseteq Remembered \cup {scene'}
<1>1. Changed
  BY Changes
<1>2. scene \in Scenes /\ undoStack \in Seq(Scenes) /\ redoStack \in Seq(Scenes)
  BY DEF TypeOK
<1>3. CASE Recorded
  <2>1. ToSet(undoStack') \subseteq ToSet(undoStack) \cup {scene}
    BY <1>2, <1>3, PushedType DEF Recorded
  <2>2. ToSet(redoStack') = {}
    BY <1>3 DEF Recorded, ToSet
  <2> QED
    BY <2>1, <2>2 DEF Remembered
<1>4. CASE Back
  <2>1. /\ ToSet(undoStack') \subseteq ToSet(undoStack)
        /\ ToSet(redoStack') = ToSet(redoStack) \cup {scene}
    BY <1>2, <1>4, EndEntries DEF Back
  <2> QED
    BY <2>1 DEF Remembered
<1>5. CASE Forth
  <2>1. /\ ToSet(redoStack') \subseteq ToSet(redoStack)
        /\ ToSet(undoStack') = ToSet(undoStack) \cup {scene}
    BY <1>2, <1>5, EndEntries DEF Forth
  <2> QED
    BY <2>1 DEF Remembered
<1>6. CASE Kept
  BY <1>6 DEF Kept, Remembered
<1>7. CASE Emptied
  <2>1. ToSet(undoStack') = {} /\ ToSet(redoStack') = {}
    BY <1>7 DEF Emptied, ToSet
  <2> QED
    BY <2>1 DEF Remembered
<1> QED
  BY <1>1, <1>3, <1>4, <1>5, <1>6, <1>7 DEF Changed

LEMMA OnlyScene == ASSUME Emptied PROVE Remembered' = {scene'}
<1>1. ToSet(undoStack') = {} /\ ToSet(redoStack') = {}
  BY DEF Emptied, ToSet
<1> QED
  BY <1>1 DEF Remembered

(* A recorded action stores the scene it was given under a new version. *)
LEMMA Stored ==
  ASSUME NEW s \in Scenes, UserAction(s)
  PROVE  scene'.objects = s.objects /\ scene'.selected = s.selected
<1>1. scene' = [s EXCEPT !.version = scene.version + 1]
  BY DEF UserAction, Dispatch
<1> DEFINE next == scene.version + 1
<1> HIDE DEF next
<1>2. scene' = [s EXCEPT !.version = next]
  BY <1>1 DEF next
<1> QED
  BY <1>2 DEF Scenes

(* The scene of an Undo or a Redo was remembered. *)
LEMMA Brought == ASSUME TypeOK, Back \/ Forth PROVE scene' \in Remembered
<1>1. undoStack \in Seq(Scenes) /\ redoStack \in Seq(Scenes) /\ scene \in Scenes
  BY DEF TypeOK
<1>2. CASE Back
  BY <1>1, <1>2, EndEntries DEF Back, Remembered
<1>3. CASE Forth
  BY <1>1, <1>3, EndEntries DEF Forth, Remembered
<1> QED
  BY <1>2, <1>3

(* No step selects what is not there, in the scene or in the history, unless a
   scene is brought that does. *)
LEMMA SelectionStep == ASSUME TypeOK, SelectionExists, [Next]_vars PROVE SelectionExists'
<1>9. CASE Emptied /\ (unchosen' <=> ~Chosen(scene'))
  BY <1>9, OnlyScene DEF SelectionExists
<1>10. CASE unchosen' = unchosen /\ (~unchosen => Chosen(scene'))
  <2>1. \/ unchosen
        \/ \A s \in Remembered : Chosen(s)
    BY DEF SelectionExists
  <2> QED
    BY <1>10, <2>1, NothingElse DEF SelectionExists
<1> SUFFICES ASSUME ~unchosen, unchosen' = unchosen PROVE Chosen(scene')
  BY <1>9, <1>10, Changes
<1>0. scene \in Scenes /\ Chosen(scene) /\ \A s \in Remembered : Chosen(s)
  BY DEF TypeOK, SelectionExists, Remembered
<1>1. CASE \E d \in Data : SetProperty(d)
  <2>1. PICK d \in Data : SetProperty(d)
    BY <1>1
  <2> DEFINE s == [scene EXCEPT !.objects[scene.selected].data = d]
  <2>2. s \in Scenes /\ UserAction(s)
    BY <2>1, SetPropertyScene DEF SetProperty
  <2>3. s.selected = scene.selected /\ \A id \in Ids : Exists(scene, id) => Exists(s, id)
    <3>1. scene.selected \in Ids /\ scene.objects[scene.selected] \in Objects
      BY <1>0, <2>1 DEF SetProperty, Exists, Scenes
    <3>2. s.objects[scene.selected] = [scene.objects[scene.selected] EXCEPT !.data = d]
      BY <1>0, <3>1 DEF Scenes
    <3>3. s.objects[scene.selected] \in Objects
      BY <3>1, <3>2 DEF Objects
    <3>4. s.selected = scene.selected /\ \A id \in Ids : id # scene.selected => s.objects[id] = scene.objects[id]
      BY <1>0 DEF Scenes
    <3> QED
      BY <3>1, <3>3, <3>4, ConstantsAssumption DEF Exists
  <2> HIDE DEF s
  <2> QED
    BY <1>0, <2>2, <2>3, Stored DEF Chosen, Exists
<1>2. CASE \E id \in Ids, object \in NewObjects, parent \in Ids \cup {None} : AddObject(id, object, parent)
  <2>1. PICK id \in Ids, object \in NewObjects, parent \in Ids \cup {None} : AddObject(id, object, parent)
    BY <1>2, ZenonT(60)
  <2> DEFINE s == Added(id, object, parent)
  <2>2. s \in Scenes /\ UserAction(s)
    <3>1. UserAction(s)
      BY <2>1 DEF AddObject, Added
    <3>2. s \in Scenes
      BY <1>0, AddedScene
    <3> QED
      BY <3>1, <3>2
  <2>3. s.selected = scene.selected /\ \A p \in Ids : Exists(scene, p) => Exists(s, p)
    BY <1>0, AddedScene
  <2> HIDE DEF s
  <2> QED
    BY <1>0, <2>2, <2>3, Stored DEF Chosen, Exists
<1>3. CASE \E id \in Ids : RemoveObject(id)
  <2>1. PICK id \in Ids : RemoveObject(id)
    BY <1>3
  <2>2. PICK parent \in Ids \cup {None} :
          UserAction(Without(parent, id)) /\ (parent # None => Exists(scene, parent))
    BY <2>1 DEF RemoveObject, Parents
  <2>3. /\ Without(parent, id) \in Scenes
        /\ Without(parent, id).selected = IF scene.selected = id THEN None ELSE scene.selected
        /\ \A p \in Ids : Exists(Without(parent, id), p) <=> Exists(scene, p) /\ p # id
    BY <1>0, <2>2, WithoutScene
  <2>4. Chosen(Without(parent, id))
    BY <1>0, <2>3 DEF Chosen, Exists
  <2> QED
    BY <2>2, <2>3, <2>4, Stored DEF Chosen, Exists
<1>4. CASE \E id \in Ids : SelectObject(id)
  <2>1. PICK id \in Ids : SelectObject(id)
    BY <1>4
  <2>2. scene' = [scene EXCEPT !.selected = id]
    BY <2>1 DEF SelectObject, Dispatch
  <2>3. scene'.selected = id /\ scene'.objects = scene.objects
    BY <1>0, <2>2 DEF Scenes
  <2> QED
    BY <2>1, <2>3 DEF SelectObject, Chosen, Exists
<1>5. CASE Undo \/ Redo
  <2>1. Back \/ Forth
    BY <1>5 DEF Undo, Redo, Dispatch, Back, Forth
  <2> QED
    BY <1>0, <2>1, Brought
<1>6. CASE ClearHistory \/ Step \/ Controller \/ UNCHANGED vars
  <2>1. scene' = scene
    BY <1>6 DEF ClearHistory, Dispatch, Step, Controller, SelectionTold, NothingChanged, SameState, TellEngine,
       EngineTold, vars, model
  <2> QED
    BY <1>0, <2>1
<1>7. CASE \E s \in EngineScenes : SyncFromEngine(s) \/ Initialize(s)
  <2>1. PICK s \in EngineScenes : scene' = s /\ Chosen(s)
    BY <1>7 DEF SyncFromEngine, Initialize, Dispatch
  <2> QED
    BY <2>1
<1>8. CASE \E loaded \in Loads : LoadObjects(loaded)
  <2>0. PICK loaded \in Loads : LoadObjects(loaded)
    BY <1>8
  <2>1. scene' = Loaded(loaded)
    BY <2>0 DEF LoadObjects, Dispatch, Loaded
  <2>2. /\ scene'.selected = scene.selected
        /\ \A id \in Ids :
             /\ id \in DOMAIN loaded => Exists(scene', id)
             /\ id \notin DOMAIN loaded => scene'.objects[id] = scene.objects[id]
    BY <1>0, <2>1, LoadedScene
  <2> QED
    BY <1>0, <2>2 DEF Chosen, Exists
<1> QED
  BY <1>1, <1>2, <1>3, <1>4, <1>5, <1>6, <1>7, <1>8 DEF Next, User

(* Both stacks together stay within max_history. *)
LEMMA BoundStep == ASSUME TypeOK, HistoryBounded, [Next]_vars PROVE HistoryBounded'
<1>1. Changed
  BY Changes
<1>2. /\ scene \in Scenes /\ undoStack \in Seq(Scenes) /\ redoStack \in Seq(Scenes)
      /\ Len(undoStack) \in Nat /\ Len(redoStack) \in Nat /\ MaxHistory \in Nat
  BY ConstantsAssumption DEF TypeOK
<1>3. CASE Recorded
  <2>1. Len(undoStack') <= MaxHistory
    BY <1>2, <1>3, PushedType DEF Recorded, HistoryBounded
  <2>2. Len(redoStack') = 0
    BY <1>3, EmptySeq DEF Recorded
  <2>3. Len(undoStack') \in Nat
    BY <1>2, <1>3, PushedType DEF Recorded
  <2> QED
    BY <1>2, <2>1, <2>2, <2>3 DEF HistoryBounded
<1>4. ASSUME NEW s \in Seq(Scenes), NEW t \in Seq(Scenes), s # <<>>
      PROVE  Len(Front(s)) + Len(Append(t, scene)) = Len(s) + Len(t)
  <2>1. s \in Seq(ToSet(s))
    BY OwnEntries
  <2>2. Len(Front(s)) = Len(s) - 1 /\ Len(s) \in Nat
    BY <1>4, <2>1, Drop
  <2>3. Len(Append(t, scene)) = Len(t) + 1 /\ Len(t) \in Nat
    BY <1>2
  <2> QED
    BY <2>2, <2>3
<1>5. CASE Back
  BY <1>2, <1>4, <1>5 DEF Back, HistoryBounded
<1>6. CASE Forth
  <2>1. Len(Front(redoStack)) + Len(Append(undoStack, scene)) = Len(redoStack) + Len(undoStack)
    BY <1>2, <1>4, <1>6 DEF Forth
  <2>2. Len(Append(undoStack, scene)) \in Nat /\ Len(Front(redoStack)) \in Nat
    BY <1>2, <1>6, EndEntries DEF Forth
  <2> QED
    BY <1>2, <1>6, <2>1, <2>2 DEF Forth, HistoryBounded
<1>7. CASE Kept
  BY <1>7 DEF Kept, HistoryBounded
<1>8. CASE Emptied
  BY <1>2, <1>8, EmptySeq DEF Emptied, HistoryBounded
<1> QED
  BY <1>1, <1>3, <1>5, <1>6, <1>7, <1>8 DEF Changed

(* What a push that trims leaves: all entries in their order, but perhaps the oldest. *)
LEMMA PushedOrder ==
  ASSUME scene \in Scenes, undoStack \in Seq(Scenes)
  PROVE  \E o \in {0, 1} :
           /\ Len(Pushed) = Len(undoStack) + 1 - o
           /\ \A i \in 1 .. Len(undoStack) + 1 - o :
                Pushed[i] = IF i + o <= Len(undoStack) THEN undoStack[i + o] ELSE scene
<1> DEFINE grown == Append(undoStack, scene)
<1>1. /\ grown \in Seq(Scenes) /\ Len(grown) = Len(undoStack) + 1 /\ Len(undoStack) \in Nat
      /\ \A i \in 1 .. Len(undoStack) + 1 : grown[i] = IF i <= Len(undoStack) THEN undoStack[i] ELSE scene
  OBVIOUS
<1>2. Pushed = IF Len(grown) > MaxHistory THEN Tail(grown) ELSE grown
  BY DEF Pushed
<1> HIDE DEF grown
<1>3. CASE Pushed = grown
  <2>1. /\ Len(Pushed) = Len(undoStack) + 1 - 0
        /\ \A i \in 1 .. Len(undoStack) + 1 - 0 :
             Pushed[i] = IF i + 0 <= Len(undoStack) THEN undoStack[i + 0] ELSE scene
    BY <1>1, <1>3
  <2> QED
    BY <2>1
<1>4. CASE Pushed = Tail(grown)
  <2>1. grown # <<>>
    BY <1>1, EmptySeq
  <2>2. Len(Pushed) = Len(grown) - 1 /\ \A i \in 1 .. Len(grown) - 1 : Pushed[i] = grown[i + 1]
    BY <1>1, <1>4, <2>1, HeadTailProperties
  <2>3. /\ Len(Pushed) = Len(undoStack) + 1 - 1
        /\ \A i \in 1 .. Len(undoStack) + 1 - 1 :
             Pushed[i] = IF i + 1 <= Len(undoStack) THEN undoStack[i + 1] ELSE scene
    BY <1>1, <2>2
  <2> QED
    BY <2>3
<1> QED
  BY <1>2, <1>3, <1>4

(* The scenes stay in line. *)
LEMMA OrderStep == ASSUME TypeOK, VersionsAscend, [Next]_vars PROVE VersionsAscend'
<1> SUFFICES ASSUME ~overtaken' PROVE InLine(undoStack', scene', redoStack')
  BY DEF VersionsAscend
<1>0. TypeOK'
  BY TypeStep
<1>1. Changed /\ (Emptied \/ InLine(undoStack, scene, redoStack))
  BY Changes DEF VersionsAscend
<1>2. /\ scene \in Scenes /\ undoStack \in Seq(Scenes) /\ redoStack \in Seq(Scenes)
      /\ scene.version \in Nat
      /\ \A i \in 1 .. Len(undoStack) : undoStack[i].version \in Nat
      /\ \A i \in 1 .. Len(redoStack) : redoStack[i].version \in Nat
      /\ Len(undoStack) \in Nat /\ Len(redoStack) \in Nat
  <2>1. scene \in Scenes /\ undoStack \in Seq(Scenes) /\ redoStack \in Seq(Scenes)
    BY DEF TypeOK
  <2>2. \A s \in Scenes : s.version \in Nat
    BY DEF Scenes
  <2>3. /\ \A i \in 1 .. Len(undoStack) : undoStack[i] \in Scenes
        /\ \A i \in 1 .. Len(redoStack) : redoStack[i] \in Scenes
    BY <2>1
  <2> QED
    BY <2>1, <2>2, <2>3
<1>3. CASE Emptied
  BY <1>3 DEF Emptied, InLine
<1> DEFINE u(i) == undoStack[i].version
           r(i) == redoStack[i].version
<1>4. CASE Recorded /\ scene'.version = scene.version + 1 /\ ~Emptied
  <2>1. PICK o \in {0, 1} :
          /\ Len(Pushed) = Len(undoStack) + 1 - o
          /\ \A i \in 1 .. Len(undoStack) + 1 - o :
               Pushed[i] = IF i + o <= Len(undoStack) THEN undoStack[i + o] ELSE scene
    BY <1>2, PushedOrder
  <2>2. Pushed \in Seq(Scenes)
    BY <1>2, PushedType
  <2>3. ASSUME NEW i \in DOMAIN Pushed
        PROVE  /\ i \in 1 .. Len(undoStack) + 1 - o
               /\ Pushed[i].version < scene.version + 1
    BY <1>1, <1>2, <1>4, <2>1, <2>2 DEF InLine
  <2>4. ASSUME NEW i \in DOMAIN Pushed, NEW j \in DOMAIN Pushed, i < j
        PROVE  Pushed[i].version < Pushed[j].version
    <3>1. i \in 1 .. Len(undoStack) + 1 - o /\ j \in 1 .. Len(undoStack) + 1 - o
      BY <2>3
    <3>2. i + o <= Len(undoStack) /\ Pushed[i] = undoStack[i + o] /\ i + o \in 1 .. Len(undoStack)
      BY <1>2, <2>1, <2>4, <3>1, SMTT(30)
    <3>3. CASE j + o <= Len(undoStack)
      <4>1. Pushed[j] = undoStack[j + o] /\ j + o \in 1 .. Len(undoStack) /\ i + o < j + o
        BY <1>2, <2>1, <2>4, <3>1, <3>3, SMTT(30)
      <4>2. undoStack[i + o].version < undoStack[j + o].version
        BY <1>1, <1>2, <1>4, <3>2, <4>1 DEF InLine
      <4> QED
        BY <3>2, <4>1, <4>2
    <3>4. CASE ~(j + o <= Len(undoStack))
      <4>1. Pushed[j] = scene
        BY <2>1, <3>1, <3>4
      <4>2. undoStack[i + o].version < scene.version
        BY <1>1, <1>2, <1>4, <3>2 DEF InLine
      <4> QED
        BY <3>2, <4>1, <4>2
    <3> QED
      BY <3>3, <3>4
  <2> QED
    BY <1>4, <2>3, <2>4 DEF Recorded, InLine
<1>5. CASE Back /\ ~Emptied
  <2>1. Len(undoStack) \in Nat \ {0} /\ scene' = undoStack[Len(undoStack)]
    BY <1>2, <1>5, EmptySeq DEF Back, Last
  <2>2. undoStack' = [i \in 1 .. Len(undoStack) - 1 |-> undoStack[i]]
    BY <1>2, <1>5, <2>1 DEF Back, Front
  <2>3. /\ redoStack' \in Seq(Scenes) /\ Len(redoStack') = Len(redoStack) + 1
        /\ \A i \in 1 .. Len(redoStack) + 1 :
             redoStack'[i] = IF i <= Len(redoStack) THEN redoStack[i] ELSE scene
    BY <1>2, <1>5 DEF Back
  <2>4. InLine(undoStack, scene, redoStack)
    BY <1>1, <1>5
  <2>5. /\ \A i, j \in DOMAIN undoStack' : i < j => undoStack'[i].version < undoStack'[j].version
        /\ \A i \in DOMAIN undoStack' : undoStack'[i].version < scene'.version
    BY <1>2, <2>1, <2>2, <2>4 DEF InLine
  <2>6. u(Len(undoStack)) < scene.version
    BY <1>2, <2>1, <2>4 DEF InLine
  <2>7. ASSUME NEW i \in DOMAIN redoStack' PROVE scene'.version < redoStack'[i].version
    <3>1. CASE i <= Len(redoStack)
      <4>1. scene.version < r(i) /\ redoStack'[i] = redoStack[i] /\ r(i) \in Nat
        BY <1>2, <2>3, <2>4, <3>1 DEF InLine
      <4> QED
        BY <1>2, <2>1, <2>6, <4>1
    <3>2. CASE ~(i <= Len(redoStack))
      BY <1>2, <2>1, <2>3, <2>6, <3>2
    <3> QED
      BY <3>1, <3>2
  <2>8. ASSUME NEW i \in DOMAIN redoStack', NEW j \in DOMAIN redoStack', i < j
        PROVE  redoStack'[j].version < redoStack'[i].version
    BY <1>2, <2>3, <2>4, <2>8 DEF InLine
  <2> QED
    BY <2>5, <2>7, <2>8 DEF InLine
<1>6. CASE Forth /\ ~Emptied
  <2>1. Len(redoStack) \in Nat \ {0} /\ scene' = redoStack[Len(redoStack)]
    BY <1>2, <1>6, EmptySeq DEF Forth, Last
  <2>2. redoStack' = [i \in 1 .. Len(redoStack) - 1 |-> redoStack[i]]
    BY <1>2, <1>6, <2>1 DEF Forth, Front
  <2>3. /\ undoStack' \in Seq(Scenes) /\ Len(undoStack') = Len(undoStack) + 1
        /\ \A i \in 1 .. Len(undoStack) + 1 :
             undoStack'[i] = IF i <= Len(undoStack) THEN undoStack[i] ELSE scene
    BY <1>2, <1>6 DEF Forth
  <2>4. InLine(undoStack, scene, redoStack)
    BY <1>1, <1>6
  <2>5. /\ \A i, j \in DOMAIN redoStack' : i < j => redoStack'[j].version < redoStack'[i].version
        /\ \A i \in DOMAIN redoStack' : scene'.version < redoStack'[i].version
    <3>1. /\ DOMAIN redoStack' \subseteq 1 .. Len(redoStack) - 1
          /\ \A i \in 1 .. Len(redoStack) - 1 : redoStack'[i] = redoStack[i]
      BY <2>1, <2>2
    <3>2. ASSUME NEW i \in 1 .. Len(redoStack), NEW j \in 1 .. Len(redoStack), i < j
          PROVE  redoStack[j].version < redoStack[i].version
      BY <1>2, <2>4, <3>2 DEF InLine
    <3>3. ASSUME NEW i \in DOMAIN redoStack', NEW j \in DOMAIN redoStack', i < j
          PROVE  redoStack'[j].version < redoStack'[i].version
      <4>1. i \in 1 .. Len(redoStack) /\ j \in 1 .. Len(redoStack)
        BY <2>1, <3>1
      <4>2. redoStack'[i] = redoStack[i] /\ redoStack'[j] = redoStack[j]
        BY <3>1
      <4> QED
        BY <3>2, <3>3, <4>1, <4>2
    <3>4. ASSUME NEW i \in DOMAIN redoStack' PROVE scene'.version < redoStack'[i].version
      <4>1. i \in 1 .. Len(redoStack) /\ Len(redoStack) \in 1 .. Len(redoStack) /\ i < Len(redoStack)
        BY <2>1, <3>1
      <4>2. redoStack'[i] = redoStack[i]
        BY <3>1
      <4> QED
        BY <2>1, <3>2, <4>1, <4>2
    <3> QED
      BY <3>3, <3>4
  <2>6. scene.version < r(Len(redoStack))
    BY <1>2, <2>1, <2>4 DEF InLine
  <2>7. ASSUME NEW i \in DOMAIN undoStack' PROVE undoStack'[i].version < scene'.version
    <3>1. CASE i <= Len(undoStack)
      <4>1. u(i) < scene.version /\ undoStack'[i] = undoStack[i] /\ u(i) \in Nat
        BY <1>2, <2>3, <2>4, <3>1 DEF InLine
      <4> QED
        BY <1>2, <2>1, <2>6, <4>1
    <3>2. CASE ~(i <= Len(undoStack))
      BY <1>2, <2>1, <2>3, <2>6, <3>2
    <3> QED
      BY <3>1, <3>2
  <2>8. ASSUME NEW i \in DOMAIN undoStack', NEW j \in DOMAIN undoStack', i < j
        PROVE  undoStack'[i].version < undoStack'[j].version
    BY <1>2, <2>3, <2>4, <2>8 DEF InLine
  <2> QED
    BY <2>5, <2>7, <2>8 DEF InLine
<1>7. CASE Kept /\ scene'.version = scene.version /\ ~Emptied
  BY <1>1, <1>7 DEF Kept, InLine
<1>8. CASE Kept /\ scene'.version = scene.version + 1 /\ redoStack = <<>> /\ ~Emptied
  <2>1. \A i \in DOMAIN undoStack : undoStack[i].version < scene.version + 1
    BY <1>1, <1>2, <1>8 DEF InLine
  <2>2. DOMAIN redoStack = {}
    BY <1>2, <1>8
  <2> QED
    BY <1>1, <1>8, <2>1, <2>2 DEF Kept, InLine
<1> QED
  BY <1>1, <1>3, <1>4, <1>5, <1>6, <1>7, <1>8 DEF Changed

(* Taking an object out leaves the lists of a tidy scene tidy: the one entry
   that named it goes, and no other does. *)
LEMMA TidyWithout ==
  ASSUME scene \in Scenes, Tidy(scene), NEW id \in Ids,
         NEW parent \in IF Parents(id) = {} THEN {None} ELSE Parents(id)
  PROVE  Tidy(Without(parent, id))
<1> DEFINE w == Without(parent, id)
           old(p) == scene.objects[p].children
           new(p) == w.objects[p].children
<1>0. parent \in Ids \cup {None} /\ (parent # None => Exists(scene, parent))
  BY DEF Parents
<1>1. /\ w \in Scenes
      /\ \A p \in Ids :
           /\ Exists(w, p) <=> Exists(scene, p) /\ p # id
           /\ p # id /\ p # parent => w.objects[p] = scene.objects[p]
           /\ p # id /\ p = parent => new(p) = RemoveFirst(old(p), id)
  BY <1>0, WithoutScene
<1> HIDE DEF w
<1>2. \A p \in Ids : Exists(scene, p) => old(p) \in Seq(Ids)
  BY DEF Exists, Scenes, Objects
<1>3. \A p, q \in Ids :
        Exists(scene, p) /\ Exists(scene, q) =>
          \A i \in DOMAIN old(p), j \in DOMAIN old(q) :
            Exists(scene, old(p)[i]) /\ (old(p)[i] = old(q)[j] => p = q /\ i = j)
  BY DEF Tidy, ListedRight, Existing
<1> HIDE DEF old, new
<1>4. ASSUME NEW p \in Ids, Exists(w, p)
      PROVE  \E g \in [DOMAIN new(p) -> DOMAIN old(p)] :
               /\ \A i \in DOMAIN new(p) : new(p)[i] = old(p)[g[i]] /\ new(p)[i] # id
               /\ \A i, j \in DOMAIN new(p) : g[i] = g[j] => i = j
  <2>0. Exists(scene, p) /\ p # id /\ old(p) \in Seq(Ids)
    BY <1>1, <1>2, <1>4
  <2>1. CASE p # parent
    <3>1. new(p) = old(p)
      BY <1>1, <2>0, <2>1 DEF old, new
    <3>2. ASSUME NEW i \in DOMAIN old(p) PROVE old(p)[i] # id
      <4>1. SUFFICES ASSUME old(p)[i] = id PROVE FALSE
        OBVIOUS
      <4>2. p \in Parents(id)
        BY <2>0, <4>1 DEF Parents, ToSet, old
      <4>3. parent \in Ids /\ Exists(scene, parent) /\ id \in ToSet(old(parent))
        BY <4>2 DEF Parents, old
      <4>4. PICK k \in DOMAIN old(parent) : old(parent)[k] = id
        BY <4>3 DEF ToSet
      <4> QED
        BY <1>3, <2>0, <2>1, <4>1, <4>3, <4>4
    <3> DEFINE g == [i \in DOMAIN new(p) |-> i]
    <3>3. g \in [DOMAIN new(p) -> DOMAIN old(p)] /\ \A i \in DOMAIN new(p) : g[i] = i
      BY <3>1
    <3> HIDE DEF g
    <3>4. /\ \A i \in DOMAIN new(p) : new(p)[i] = old(p)[g[i]] /\ new(p)[i] # id
          /\ \A i, j \in DOMAIN new(p) : g[i] = g[j] => i = j
      BY <3>1, <3>2, <3>3
    <3> QED
      BY <3>3, <3>4
  <2>2. CASE p = parent
    <3>1. id \in ToSet(old(p)) /\ new(p) = RemoveFirst(old(p), id)
      BY <1>1, <2>0, <2>2, ConstantsAssumption DEF Parents, old
    <3>2. PICK k \in 1 .. Len(old(p)) :
            /\ old(p)[k] = id
            /\ new(p) \in Seq(Ids)
            /\ Len(new(p)) = Len(old(p)) - 1
            /\ \A i \in 1 .. Len(old(p)) - 1 :
                 new(p)[i] = IF i < k THEN old(p)[i] ELSE old(p)[i + 1]
      BY <2>0, <3>1, OneRemoved
    <3> DEFINE g == [i \in DOMAIN new(p) |-> IF i < k THEN i ELSE i + 1]
    <3>3. DOMAIN new(p) = 1 .. Len(old(p)) - 1 /\ DOMAIN old(p) = 1 .. Len(old(p)) /\ Len(old(p)) \in Nat
      BY <2>0, <3>2
    <3>4. ASSUME NEW i \in DOMAIN new(p)
          PROVE  g[i] \in DOMAIN old(p) /\ g[i] # k /\ new(p)[i] = old(p)[g[i]]
      BY <3>2, <3>3
    <3>5. ASSUME NEW i \in DOMAIN new(p) PROVE new(p)[i] # id
      <4>1. g[i] \in DOMAIN old(p) /\ g[i] # k /\ new(p)[i] = old(p)[g[i]] /\ k \in DOMAIN old(p)
        BY <3>3, <3>4
      <4> HIDE DEF g
      <4> QED
        BY <1>3, <2>0, <3>2, <4>1
    <3>6. \A i, j \in DOMAIN new(p) : g[i] = g[j] => i = j
      BY <3>3
    <3>7. g \in [DOMAIN new(p) -> DOMAIN old(p)]
      BY <3>4
    <3> HIDE DEF g
    <3> QED
      BY <3>4, <3>5, <3>6, <3>7
  <2> QED
    BY <2>1, <2>2
<1>5. ASSUME NEW p \in Ids, NEW q \in Ids, Exists(w, p), Exists(w, q),
             NEW i \in DOMAIN new(p), NEW j \in DOMAIN new(q)
      PROVE  Exists(w, new(p)[i]) /\ (new(p)[i] = new(q)[j] => p = q /\ i = j)
  <2>1. Exists(scene, p) /\ Exists(scene, q)
    BY <1>1, <1>5
  <2>2. PICK g \in [DOMAIN new(p) -> DOMAIN old(p)] :
          /\ \A l \in DOMAIN new(p) : new(p)[l] = old(p)[g[l]] /\ new(p)[l] # id
          /\ \A l, m \in DOMAIN new(p) : g[l] = g[m] => l = m
    BY <1>4, <1>5
  <2>3. PICK h \in [DOMAIN new(q) -> DOMAIN old(q)] :
          /\ \A l \in DOMAIN new(q) : new(q)[l] = old(q)[h[l]] /\ new(q)[l] # id
          /\ \A l, m \in DOMAIN new(q) : h[l] = h[m] => l = m
    BY <1>4, <1>5
  <2>4. Exists(scene, new(p)[i]) /\ new(p)[i] # id
    BY <1>3, <2>1, <2>2
  <2>5. Exists(w, new(p)[i])
    BY <1>1, <2>4 DEF Exists
  <2>6. ASSUME new(p)[i] = new(q)[j] PROVE p = q /\ i = j
    <3>1. old(p)[g[i]] = old(q)[h[j]] /\ g[i] \in DOMAIN old(p) /\ h[j] \in DOMAIN old(q)
      BY <2>2, <2>3, <2>6
    <3>2. p = q /\ g[i] = h[j]
      BY <1>3, <2>1, <3>1
    <3>3. new(p)[i] = old(p)[g[i]] /\ new(p)[j] = old(p)[h[j]]
      BY <2>2, <2>3, <3>2
    <3>4. g[j] \in DOMAIN old(p) /\ old(p)[g[j]] = old(p)[g[i]]
      BY <2>2, <2>6, <3>2, <3>3
    <3>5. i = j
      BY <1>3, <2>1, <2>2, <3>2, <3>4
    <3> QED
      BY <3>2, <3>5
  <2> QED
    BY <2>5, <2>6
<1> QED
  BY <1>5 DEF Tidy, ListedRight, Existing, new, w

(* A new object whose children are there and listed nowhere else, under a parent
   or under none, joins a tidy scene. *)
LEMMA TidyAdded ==
  ASSUME scene \in Scenes, Tidy(scene), NEW id \in Ids, ~Exists(scene, id),
         NEW object \in NewObjects, NEW parent \in Ids \cup {None}, parent # id,
         id \notin ToSet(object.children), ListedRight([scene EXCEPT !.objects[id] = object], {id})
  PROVE  Tidy(Added(id, object, parent))
<1> DEFINE s == Added(id, object, parent)
           added == [scene EXCEPT !.objects[id] = object]
           old(p) == added.objects[p].children
           new(p) == s.objects[p].children
<1>1. \A p \in Ids :
        /\ Exists(s, p) <=> Exists(scene, p) \/ p = id
        /\ p # id /\ p # parent => s.objects[p] = scene.objects[p]
        /\ p = id /\ p # parent => s.objects[p] = object
        /\ p = parent /\ p # id /\ Exists(scene, p) => new(p) = Append(scene.objects[p].children, id)
  BY AddedScene
<1>2. object \in Objects /\ object # None
  BY ConstantsAssumption
<1>3. \A p \in Ids : /\ added.objects[p] = IF p = id THEN object ELSE scene.objects[p]
                     /\ Exists(added, p) <=> Exists(scene, p) \/ p = id
  BY <1>2 DEF Scenes, Exists
<1> HIDE DEF s
<1>4. \A p \in Ids : Exists(added, p) => old(p) \in Seq(Ids)
  BY <1>2, <1>3 DEF Exists, Scenes, Objects
<1>5. \A q \in Ids : Exists(added, q) =>
        \A i \in DOMAIN old(id), j \in DOMAIN old(q) :
          /\ Exists(added, old(id)[i])
          /\ old(id)[i] = old(q)[j] => id = q /\ i = j
  BY DEF ListedRight, Existing
<1>6. \A p, q \in Ids : Exists(scene, p) /\ Exists(scene, q) =>
        \A i \in DOMAIN scene.objects[p].children, j \in DOMAIN scene.objects[q].children :
          /\ Exists(scene, scene.objects[p].children[i])
          /\ scene.objects[p].children[i] = scene.objects[q].children[j] => p = q /\ i = j
  BY DEF Tidy, ListedRight, Existing
<1>7. \A p \in Ids : /\ p = id => old(p) = object.children
                     /\ p # id => old(p) = scene.objects[p].children
  BY <1>3
<1>8. \A p \in Ids : /\ p # parent => new(p) = old(p)
                     /\ p = parent /\ Exists(scene, p) => new(p) = Append(old(p), id)
  BY <1>1, <1>3
<1> HIDE DEF old, new, added
(* Before it is put under the parent, no list names it and every list is right. *)
<1>9. ASSUME NEW p \in Ids, NEW q \in Ids, Exists(added, p), Exists(added, q),
             NEW i \in DOMAIN old(p), NEW j \in DOMAIN old(q)
      PROVE  /\ Exists(added, old(p)[i]) /\ old(p)[i] # id
             /\ old(p)[i] = old(q)[j] => p = q /\ i = j
  <2>1. CASE p = id
    <3>1. old(p)[i] \in ToSet(object.children)
      BY <1>7, <2>1 DEF ToSet
    <3>2. Exists(added, old(id)[i]) /\ (old(id)[i] = old(q)[j] => id = q /\ i = j)
      BY <1>5, <1>9, <2>1
    <3> QED
      BY <2>1, <3>1, <3>2
  <2>2. CASE p # id
    <3>1. Exists(scene, p) /\ old(p) = scene.objects[p].children
      BY <1>3, <1>7, <1>9, <2>2
    <3>2. Exists(scene, old(p)[i])
      BY <1>6, <1>9, <3>1
    <3>3. old(p)[i] \in Ids
      BY <3>2 DEF Exists
    <3>4. Exists(added, old(p)[i]) /\ old(p)[i] # id
      BY <1>3, <3>2, <3>3
    <3>5. CASE q = id
      <4>1. old(id)[j] = old(p)[i] => id = p /\ j = i
        BY <1>5, <1>9, <3>5
      <4> QED
        BY <3>4, <3>5, <4>1
    <3>6. CASE q # id
      <4>1. Exists(scene, q) /\ old(q) = scene.objects[q].children
        BY <1>3, <1>7, <1>9, <3>6
      <4>2. old(p)[i] = old(q)[j] => p = q /\ i = j
        BY <1>6, <1>9, <3>1, <4>1
      <4> QED
        BY <3>4, <4>2
    <3> QED
      BY <3>5, <3>6
  <2> QED
    BY <2>1, <2>2
(* Every entry is one of those, or the new one at the end of the parent's list. *)
<1>10. ASSUME NEW p \in Ids, Exists(s, p), NEW i \in DOMAIN new(p)
       PROVE  /\ Exists(added, p)
              /\ \/ i \in DOMAIN old(p) /\ new(p)[i] = old(p)[i]
                 \/ p = parent /\ i = Len(old(p)) + 1 /\ new(p)[i] = id
  <2>1. Exists(added, p) /\ old(p) \in Seq(Ids)
    BY <1>1, <1>3, <1>4, <1>10
  <2>2. CASE p # parent
    BY <1>8, <1>10, <2>1, <2>2
  <2>3. CASE p = parent
    <3>1. new(p) = Append(old(p), id)
      BY <1>1, <1>8, <1>10, <2>3
    <3> QED
      BY <1>10, <2>1, <2>3, <3>1
  <2> QED
    BY <2>1, <2>2, <2>3
<1>11. ASSUME NEW p \in Ids, NEW q \in Ids, Exists(s, p), Exists(s, q),
              NEW i \in DOMAIN new(p), NEW j \in DOMAIN new(q)
       PROVE  Exists(s, new(p)[i]) /\ (new(p)[i] = new(q)[j] => p = q /\ i = j)
  <2>1. /\ Exists(added, p)
        /\ \/ i \in DOMAIN old(p) /\ new(p)[i] = old(p)[i]
           \/ p = parent /\ i = Len(old(p)) + 1 /\ new(p)[i] = id
    BY <1>10, <1>11
  <2>2. /\ Exists(added, q)
        /\ \/ j \in DOMAIN old(q) /\ new(q)[j] = old(q)[j]
           \/ q = parent /\ j = Len(old(q)) + 1 /\ new(q)[j] = id
    BY <1>10, <1>11
  <2>3. i \in DOMAIN old(p) => Exists(added, old(p)[i]) /\ old(p)[i] # id
    BY <1>9, <2>1
  <2>4. j \in DOMAIN old(q) => Exists(added, old(q)[j]) /\ old(q)[j] # id
    BY <1>9, <2>2
  <2>5. \A child \in Ids : Exists(added, child) => Exists(s, child)
    BY <1>1, <1>3
  <2>6. Exists(s, new(p)[i])
    BY <1>1, <2>1, <2>3, <2>5 DEF Exists
  <2>7. i \in DOMAIN old(p) /\ j \in DOMAIN old(q) /\ old(p)[i] = old(q)[j] => p = q /\ i = j
    BY <1>9, <2>1, <2>2
  <2>8. ASSUME new(p)[i] = new(q)[j] PROVE p = q /\ i = j
    BY <2>1, <2>2, <2>3, <2>4, <2>7, <2>8
  <2> QED
    BY <2>6, <2>8
<1>12. \A p, q \in Existing(s) : \A i \in DOMAIN new(p), j \in DOMAIN new(q) :
         Exists(s, new(p)[i]) /\ (new(p)[i] = new(q)[j] => p = q /\ i = j)
  BY <1>11 DEF Existing
<1> QED
  BY <1>12 DEF Tidy, ListedRight, new, s

(* Objects loaded whose children are there and listed nowhere else join a tidy
   scene. *)
LEMMA TidyLoaded ==
  ASSUME scene \in Scenes, Tidy(scene), NEW loaded \in Loads,
         ListedRight(Loaded(loaded), DOMAIN loaded)
  PROVE  Tidy(Loaded(loaded))
<1> DEFINE s == Loaded(loaded)
           old(p) == scene.objects[p].children
           new(p) == s.objects[p].children
<1>1. /\ DOMAIN loaded \subseteq Ids
      /\ \A id \in Ids :
           /\ id \in DOMAIN loaded => s.objects[id] = loaded[id] /\ Exists(s, id)
           /\ id \notin DOMAIN loaded => s.objects[id] = scene.objects[id]
  BY LoadedScene
<1> HIDE DEF s
<1>2. \A p, q \in Ids : Exists(scene, p) /\ Exists(scene, q) =>
        \A i \in DOMAIN old(p), j \in DOMAIN old(q) :
          Exists(scene, old(p)[i]) /\ (old(p)[i] = old(q)[j] => p = q /\ i = j)
  BY DEF Tidy, ListedRight, Existing
<1>3. \A p \in DOMAIN loaded, q \in Ids : Exists(s, q) =>
        \A i \in DOMAIN new(p), j \in DOMAIN new(q) :
          Exists(s, new(p)[i]) /\ (new(p)[i] = new(q)[j] => p = q /\ i = j)
  BY DEF ListedRight, Existing, s
<1>4. \A id \in Ids : /\ Exists(scene, id) => Exists(s, id)
                      /\ Exists(s, id) /\ id \notin DOMAIN loaded => Exists(scene, id) /\ new(id) = old(id)
  BY <1>1 DEF Exists
<1> HIDE DEF old, new
<1>5. ASSUME NEW p \in Ids, NEW q \in Ids, Exists(s, p), Exists(s, q),
             NEW i \in DOMAIN new(p), NEW j \in DOMAIN new(q)
      PROVE  Exists(s, new(p)[i]) /\ (new(p)[i] = new(q)[j] => p = q /\ i = j)
  <2>1. CASE p \in DOMAIN loaded
    BY <1>3, <1>5, <2>1
  <2>2. CASE p \notin DOMAIN loaded
    <3>1. Exists(scene, p) /\ new(p) = old(p)
      BY <1>4, <1>5, <2>2
    <3>2. Exists(scene, old(p)[i])
      BY <1>2, <1>5, <3>1
    <3>3. old(p)[i] \in Ids
      BY <3>2 DEF Exists
    <3>4. Exists(s, new(p)[i])
      BY <1>4, <3>1, <3>2, <3>3
    <3>5. CASE q \in DOMAIN loaded
      <4>1. new(q)[j] = new(p)[i] => q = p /\ j = i
        BY <1>3, <1>5, <3>5
      <4> QED
        BY <3>4, <4>1
    <3>6. CASE q \notin DOMAIN loaded
      <4>1. Exists(scene, q) /\ new(q) = old(q)
        BY <1>4, <1>5, <3>6
      <4>2. old(p)[i] = old(q)[j] => p = q /\ i = j
        BY <1>2, <1>5, <3>1, <4>1
      <4> QED
        BY <3>1, <3>4, <4>1, <4>2
    <3> QED
      BY <3>5, <3>6
  <2> QED
    BY <2>1, <2>2
<1>6. \A p, q \in Existing(s) : \A i \in DOMAIN new(p), j \in DOMAIN new(q) :
        Exists(s, new(p)[i]) /\ (new(p)[i] = new(q)[j] => p = q /\ i = j)
  BY <1>5 DEF Existing
<1> QED
  BY <1>6 DEF Tidy, ListedRight, new, s

(* Whether a scene is tidy is a matter of who exists and of the lists. *)
LEMMA SameLists ==
  ASSUME NEW s, NEW t, Tidy(s),
         \A id \in Ids :
           /\ Exists(s, id) <=> Exists(t, id)
           /\ Exists(s, id) => t.objects[id].children = s.objects[id].children
  PROVE  Tidy(t)
<1>1. ASSUME NEW p \in Ids, NEW q \in Ids, Exists(t, p), Exists(t, q),
             NEW i \in DOMAIN t.objects[p].children, NEW j \in DOMAIN t.objects[q].children
      PROVE  /\ Exists(t, t.objects[p].children[i])
             /\ t.objects[p].children[i] = t.objects[q].children[j] => p = q /\ i = j
  <2>1. /\ Exists(s, p) /\ t.objects[p].children = s.objects[p].children
        /\ Exists(s, q) /\ t.objects[q].children = s.objects[q].children
    BY <1>1
  <2>2. /\ Exists(s, s.objects[p].children[i])
        /\ s.objects[p].children[i] = s.objects[q].children[j] => p = q /\ i = j
    BY <1>1, <2>1 DEF Tidy, ListedRight, Existing
  <2>3. s.objects[p].children[i] \in Ids
    BY <2>2 DEF Exists
  <2> QED
    BY <2>1, <2>2, <2>3
<1> QED
  BY <1>1 DEF Tidy, ListedRight, Existing

LEMMA SameObjects == ASSUME NEW s, NEW t, Tidy(s), s.objects = t.objects PROVE Tidy(t)
BY DEF Tidy, ListedRight, Existing, Exists

(* No step makes a scene that is not tidy, unless lists are brought that are not
   right. *)
LEMMA TidyStep == ASSUME TypeOK, ChildrenExist, [Next]_vars PROVE ChildrenExist'
<1>9. CASE Emptied /\ (untidy' <=> ~Tidy(scene'))
  BY <1>9, OnlyScene DEF ChildrenExist
<1>10. CASE (untidy => untidy') /\ (~untidy' => Tidy(scene'))
  <2>1. \/ untidy
        \/ \A s \in Remembered : Tidy(s)
    BY DEF ChildrenExist
  <2> QED
    BY <1>10, <2>1, NothingElse DEF ChildrenExist
<1> SUFFICES ASSUME ~untidy', ~untidy PROVE Tidy(scene')
  BY <1>9, <1>10, Changes
<1>0. scene \in Scenes /\ Tidy(scene) /\ \A s \in Remembered : Tidy(s)
  BY DEF TypeOK, ChildrenExist, Remembered
<1>1. CASE \E d \in Data : SetProperty(d)
  <2>1. PICK d \in Data : SetProperty(d)
    BY <1>1
  <2> DEFINE s == [scene EXCEPT !.objects[scene.selected].data = d]
  <2>2. s \in Scenes /\ UserAction(s)
    BY <2>1, SetPropertyScene DEF SetProperty
  <2>3. \A id \in Ids : /\ Exists(s, id) <=> Exists(scene, id)
                        /\ Exists(s, id) => s.objects[id].children = scene.objects[id].children
    <3>1. scene.selected \in Ids /\ scene.objects[scene.selected] \in Objects
      BY <1>0, <2>1 DEF SetProperty, Exists, Scenes
    <3>2. s.objects[scene.selected] = [scene.objects[scene.selected] EXCEPT !.data = d]
      BY <1>0, <3>1 DEF Scenes
    <3>3. /\ s.objects[scene.selected] \in Objects
          /\ s.objects[scene.selected].children = scene.objects[scene.selected].children
      BY <3>1, <3>2 DEF Objects
    <3>4. \A id \in Ids : id # scene.selected => s.objects[id] = scene.objects[id]
      BY <1>0 DEF Scenes
    <3> QED
      BY <3>1, <3>3, <3>4, ConstantsAssumption DEF Exists
  <2> HIDE DEF s
  <2>4. Tidy(s)
    BY <1>0, <2>3, SameLists
  <2> QED
    BY <2>2, <2>4, Stored, SameObjects
<1>2. CASE \E id \in Ids, object \in NewObjects, parent \in Ids \cup {None} : AddObject(id, object, parent)
  <2>1. PICK id \in Ids, object \in NewObjects, parent \in Ids \cup {None} : AddObject(id, object, parent)
    BY <1>2, ZenonT(60)
  <2> DEFINE s == Added(id, object, parent)
  <2>2. s \in Scenes /\ UserAction(s)
    <3>1. UserAction(s)
      BY <2>1 DEF AddObject, Added
    <3>2. s \in Scenes
      BY <1>0, AddedScene
    <3> QED
      BY <3>1, <3>2
  <2>3. /\ ~Exists(scene, id) /\ parent # id /\ id \notin ToSet(object.children)
        /\ ListedRight([scene EXCEPT !.objects[id] = object], {id})
    BY <2>1 DEF AddObject
  <2>4. Tidy(s)
    BY <1>0, <2>3, TidyAdded
  <2> QED
    BY <2>2, <2>4, Stored, SameObjects
<1>3. CASE \E id \in Ids : RemoveObject(id)
  <2>1. PICK id \in Ids : RemoveObject(id)
    BY <1>3
  <2>2. PICK parent \in IF Parents(id) = {} THEN {None} ELSE Parents(id) : UserAction(Without(parent, id))
    BY <2>1 DEF RemoveObject
  <2>3. Tidy(Without(parent, id)) /\ Without(parent, id) \in Scenes
    BY <1>0, TidyWithout, WithoutScene DEF Parents
  <2> QED
    BY <2>2, <2>3, Stored, SameObjects
<1>4. CASE \E id \in Ids : SelectObject(id)
  <2>1. PICK id \in Ids : scene' = [scene EXCEPT !.selected = id]
    BY <1>4 DEF SelectObject, Dispatch
  <2>2. scene'.objects = scene.objects
    BY <1>0, <2>1 DEF Scenes
  <2> QED
    BY <1>0, <2>2, SameObjects
<1>5. CASE Undo \/ Redo
  <2>1. Back \/ Forth
    BY <1>5 DEF Undo, Redo, Dispatch, Back, Forth
  <2> QED
    BY <1>0, <2>1, Brought
<1>6. CASE ClearHistory \/ Step \/ Controller \/ UNCHANGED vars
  <2>1. scene' = scene
    BY <1>6 DEF ClearHistory, Dispatch, Step, Controller, SelectionTold, NothingChanged, SameState, TellEngine,
       EngineTold, vars, model
  <2> QED
    BY <1>0, <2>1
<1>7. CASE \E s \in EngineScenes : SyncFromEngine(s) \/ Initialize(s)
  <2>1. PICK s \in EngineScenes : scene' = s /\ untidy' = ~Tidy(s)
    BY <1>7 DEF SyncFromEngine, Initialize, Dispatch
  <2> QED
    BY <2>1
<1>8. CASE \E loaded \in Loads : LoadObjects(loaded)
  <2>0. PICK loaded \in Loads : LoadObjects(loaded)
    BY <1>8
  <2>1. scene' = Loaded(loaded) /\ ListedRight(Loaded(loaded), DOMAIN loaded)
    BY <2>0 DEF LoadObjects, Dispatch, Loaded
  <2> QED
    BY <1>0, <2>1, TidyLoaded
<1> QED
  BY <1>1, <1>2, <1>3, <1>4, <1>5, <1>6, <1>7, <1>8 DEF Next, User
------------------------------------------------------------------------------
(* What the engine knows *)

(* The states that calls of on_state_changed under way were given *)
Sent(calls) == {calls[i].sent : i \in {j \in DOMAIN calls : calls[j].at = "changed"}}

(* Each part of a copy is as in one of these states. *)
MadeOf(copy, states) ==
  /\ \A id \in Ids : \E s \in states : copy.objects[id] = s.objects[id]
  /\ \E s \in states : copy.version = s.version

(* No difference is ever taken to a state the engine was not told: unless
   adrift, all that it has is of previous or of a state that is just being told,
   and none of it of previous while what is told is not yet kept. *)
FollowInv ==
  /\ frames = <<>> => ~dirty
  /\ ~adrift =>
       /\ ~dirty => CopyOf(previous) = CopyOf(StateOf(scene))
       /\ MadeOf(engine, Sent(frames) \cup {previous})
       /\ dirty /\ At("changed") => MadeOf(engine, Sent(frames))

(* A call more sends what it was given, if it has come that far. *)
LEMMA SentAppend ==
  ASSUME NEW calls \in Seq(Frames), NEW call \in Frames
  PROVE  /\ call.at = "changed" => Sent(Append(calls, call)) = Sent(calls) \cup {call.sent}
         /\ call.at # "changed" => Sent(Append(calls, call)) = Sent(calls)
         /\ Append(calls, call) # <<>> /\ Last(Append(calls, call)) = call
<1> DEFINE more == Append(calls, call)
<1>1. /\ more \in Seq(Frames) /\ Len(more) = Len(calls) + 1 /\ Len(calls) \in Nat
      /\ \A i \in 1 .. Len(calls) : more[i] = calls[i]
      /\ more[Len(calls) + 1] = call
  OBVIOUS
<1>2. more # <<>> /\ Last(more) = call
  BY <1>1, EmptySeq DEF Last
<1> HIDE DEF more
<1>3. DOMAIN more = 1 .. Len(calls) + 1 /\ DOMAIN calls = 1 .. Len(calls)
  BY <1>1
<1>4. ASSUME NEW s \in Sent(more)
      PROVE  s \in Sent(calls) \/ (s = call.sent /\ call.at = "changed")
  <2>1. PICK i \in DOMAIN more : more[i].at = "changed" /\ s = more[i].sent
    BY DEF Sent
  <2>2. i \in DOMAIN calls \/ i = Len(calls) + 1
    BY <1>1, <1>3
  <2> QED
    BY <1>1, <1>3, <2>1, <2>2 DEF Sent
<1>5. ASSUME NEW s \in Sent(calls) PROVE s \in Sent(more)
  <2>1. PICK i \in DOMAIN calls : calls[i].at = "changed" /\ s = calls[i].sent
    BY DEF Sent
  <2>2. i \in DOMAIN more /\ more[i] = calls[i]
    BY <1>1, <1>3
  <2> QED
    BY <2>1, <2>2 DEF Sent
<1>6. call.at = "changed" => call.sent \in Sent(more)
  <2>1. Len(calls) + 1 \in DOMAIN more
    BY <1>1, <1>3
  <2> QED
    BY <1>1, <2>1 DEF Sent
<1> QED
  BY <1>2, <1>4, <1>5, <1>6 DEF more

(* The innermost call and those around it *)
LEMMA SentFront ==
  ASSUME NEW calls \in Seq(Frames), calls # <<>>
  PROVE  /\ Front(calls) \in Seq(Frames) /\ Last(calls) \in Frames
         /\ Last(calls).at = "changed" => Sent(calls) = Sent(Front(calls)) \cup {Last(calls).sent}
         /\ Last(calls).at # "changed" => Sent(calls) = Sent(Front(calls))
<1>1. Front(calls) \in Seq(Frames) /\ Last(calls) \in Frames
  <2>1. Len(calls) \in Nat \ {0}
    BY EmptySeq
  <2>2. Last(calls) \in Frames
    BY <2>1 DEF Last
  <2> QED
    BY <2>2, EndEntries
<1>2. calls = Append(Front(calls), Last(calls))
  <2>1. Len(calls) \in Nat \ {0}
    BY EmptySeq
  <2>2. /\ Front(calls) \in Seq(Frames) /\ Len(Front(calls)) = Len(calls) - 1
        /\ \A i \in 1 .. Len(calls) - 1 : Front(calls)[i] = calls[i]
    <3>1. \A i \in 1 .. Len(calls) - 1 : calls[i] \in Frames
      BY <2>1
    <3>2. Front(calls) = [i \in 1 .. Len(calls) - 1 |-> calls[i]]
      BY <2>1 DEF Front
    <3> QED
      BY <2>1, <3>1, <3>2
  <2> DEFINE front == Front(calls)
             last == Last(calls)
  <2>3. last = calls[Len(calls)]
    BY DEF Last
  <2> HIDE DEF front, last
  <2>4. front \in Seq(Frames) /\ last \in Frames
    BY <1>1 DEF front, last
  <2>5. /\ Append(front, last) \in Seq(Frames) /\ Len(Append(front, last)) = Len(calls)
        /\ \A i \in 1 .. Len(calls) : Append(front, last)[i] = calls[i]
    <3>1. Len(front) = Len(calls) - 1 /\ \A i \in 1 .. Len(calls) - 1 : front[i] = calls[i]
      BY <2>2 DEF front
    <3> QED
      BY <2>1, <2>3, <2>4, <3>1
  <2> QED
    BY <2>5, SeqEqual DEF front, last
<1> DEFINE front == Front(calls)
           last == Last(calls)
<1> HIDE DEF front, last
<1>3. front \in Seq(Frames) /\ last \in Frames /\ calls = Append(front, last)
  BY <1>1, <1>2 DEF front, last
<1>4. /\ last.at = "changed" => Sent(calls) = Sent(front) \cup {last.sent}
      /\ last.at # "changed" => Sent(calls) = Sent(front)
  BY <1>3, SentAppend
<1> QED
  BY <1>1, <1>4 DEF front, last

(* Two copies that have the same objects and version are the same. *)
LEMMA SameCopy ==
  ASSUME NEW copy \in Copies, NEW state \in States, MadeOf(copy, {state})
  PROVE  copy = CopyOf(state)
<1>1. copy.version = state.version /\ \A id \in Ids : copy.objects[id] = state.objects[id]
  BY DEF MadeOf
<1>2. copy.objects = state.objects
  BY <1>1 DEF Copies, States
<1>3. copy = [objects |-> copy.objects, version |-> copy.version]
  BY DEF Copies
<1> QED
  BY <1>1, <1>2, <1>3 DEF CopyOf

LEMMA CopyParts ==
  ASSUME NEW s, NEW t
  PROVE  CopyOf(s) = CopyOf(t) <=> s.objects = t.objects /\ s.version = t.version
<1>1. CopyOf(s).objects = s.objects /\ CopyOf(s).version = s.version
  BY DEF CopyOf
<1>2. CopyOf(t).objects = t.objects /\ CopyOf(t).version = t.version
  BY DEF CopyOf
<1> QED
  BY <1>1, <1>2 DEF CopyOf

(* A difference brings what is new; the rest of the copy is as before, and the
   old and the new state do not differ there. *)
LEMMA PatchedParts ==
  ASSUME NEW copy \in Copies, NEW old \in States, NEW new \in States, NEW others,
         MadeOf(copy, others \cup {old})
  PROVE  MadeOf(Patched(copy, old, new), others \cup {new})
<1> DEFINE next == Patched(copy, old, new)
<1>1. /\ \A id \in Ids : next.objects[id] = IF old.objects[id] = new.objects[id] THEN copy.objects[id]
                                           ELSE new.objects[id]
      /\ next.version = IF old.version = new.version THEN copy.version ELSE new.version
  BY DEF Patched
<1> HIDE DEF next
<1>2. ASSUME NEW id \in Ids PROVE \E s \in others \cup {new} : next.objects[id] = s.objects[id]
  BY <1>1 DEF MadeOf
<1>3. \E s \in others \cup {new} : next.version = s.version
  BY <1>1 DEF MadeOf
<1> QED
  BY <1>2, <1>3 DEF MadeOf, next

(* What a step does between the editor and the engine. A call begins or goes on. *)
Began ==
  /\ frames' \in Seq(Frames) /\ frames' # <<>> /\ Last(frames').at # "changed"
  /\ Sent(frames') = Sent(frames)
  /\ UNCHANGED <<engine, previous, adrift>>
  /\ \/ dirty'
     \/ dirty' = dirty /\ CopyOf(StateOf(scene')) = CopyOf(StateOf(scene))

(* The engine brings another scene. *)
Synced ==
  /\ frames' # <<>> /\ Last(frames').at # "changed" /\ Sent(frames') = Sent(frames)
  /\ scene' \in Scenes /\ engine' = CopyOf(StateOf(scene')) /\ ~dirty'
  /\ UNCHANGED previous
  /\ adrift' = (adrift \/ CopyOf(StateOf(scene')) # CopyOf(previous))

(* Both begin anew. *)
Restarted ==
  /\ frames' = frames /\ ~dirty'
  /\ scene' \in Scenes /\ previous' = StateOf(scene') /\ engine' = CopyOf(StateOf(scene'))

(* A call ends with nothing to tell. *)
Quiet ==
  /\ ~dirty \/ previous = StateOf(scene)
  /\ Sent(frames') = Sent(frames) /\ ~dirty'
  /\ UNCHANGED <<scene, engine, previous, adrift>>

(* A call tells the engine, and then keeps what it told. *)
Telling ==
  /\ frames' # <<>> /\ dirty
  /\ Sent(frames') = Sent(frames) \cup {StateOf(scene)}
  /\ engine' = Patched(engine, previous, StateOf(scene))
  /\ UNCHANGED <<scene, previous, dirty, adrift>>

Told(call) ==
  /\ call \in States
  /\ Sent(frames) = Sent(frames') \cup {call}
  /\ At("changed")
  /\ previous' = call /\ ~dirty'
  /\ adrift' = (adrift \/ CopyOf(StateOf(scene)) # CopyOf(call))
  /\ UNCHANGED <<scene, engine>>

Talk ==
  Began \/ Synced \/ Restarted \/ Quiet \/ Telling \/ (\E call \in States : Told(call))
  \/ UNCHANGED <<frames, scene, engine, previous, dirty, adrift>>

(* A call that begins is not telling anything yet. *)
LEMMA DispatchTalk ==
  ASSUME TypeOK, NEW s, Dispatch(s)
  PROVE  /\ frames' \in Seq(Frames) /\ frames' # <<>> /\ Last(frames').at # "changed"
         /\ Sent(frames') = Sent(frames)
         /\ scene' = s /\ UNCHANGED previous
<1> DEFINE call == [at |-> IF s.selected # scene.selected THEN "selection" ELSE "check", sent |-> None]
<1>1. call \in Frames /\ call.at # "changed"
  BY DEF Frames
<1>2. frames' = Append(frames, call)
  BY DEF Dispatch
<1> HIDE DEF call
<1>3. frames \in Seq(Frames)
  BY DEF TypeOK
<1>4. frames' \in Seq(Frames)
  BY <1>1, <1>2, <1>3
<1> QED
  BY <1>1, <1>2, <1>3, <1>4, SentAppend DEF Dispatch

(* A call goes on. *)
LEMMA ProceedTalk ==
  ASSUME TypeOK, frames # <<>>, Calling.at # "changed", NEW call \in Frames, Proceed(call)
  PROVE  /\ frames' \in Seq(Frames) /\ frames' # <<>> /\ Last(frames') = call
         /\ call.at = "changed" => Sent(frames') = Sent(frames) \cup {call.sent}
         /\ call.at # "changed" => Sent(frames') = Sent(frames)
<1>1. frames \in Seq(Frames)
  BY DEF TypeOK
<1>2. Front(frames) \in Seq(Frames) /\ Sent(frames) = Sent(Front(frames))
  BY <1>1, SentFront DEF Calling
<1>3. frames' = Append(Front(frames), call)
  BY DEF Proceed
<1>4. frames' \in Seq(Frames)
  BY <1>2, <1>3
<1> QED
  BY <1>2, <1>3, <1>4, SentAppend

(* Every step is one of these. *)
LEMMA Talks == ASSUME TypeOK, [Next]_vars PROVE Talk
<1>0. scene \in Scenes /\ frames \in Seq(Frames)
  BY DEF TypeOK
<1>1. ASSUME NEW s, UserAction(s) PROVE Began
  <2>1. PICK t : Dispatch(t)
    BY <1>1 DEF UserAction
  <2> QED
    BY <1>1, <2>1, DispatchTalk DEF UserAction, Began
<1>2. CASE \E d \in Data : SetProperty(d)
  BY <1>1, <1>2 DEF SetProperty, Talk
<1>3. CASE \E id \in Ids, object \in NewObjects, parent \in Ids \cup {None} : AddObject(id, object, parent)
  <2>1. PICK id \in Ids, object \in NewObjects, parent \in Ids \cup {None} : AddObject(id, object, parent)
    BY <1>3, ZenonT(60)
  <2> QED
    BY <1>1, <2>1 DEF AddObject, Talk
<1>4. CASE \E id \in Ids : RemoveObject(id)
  BY <1>1, <1>4 DEF RemoveObject, Talk
<1>5. CASE \E id \in Ids : SelectObject(id)
  <2>1. PICK id \in Ids : SelectObject(id)
    BY <1>5
  <2> DEFINE s == [scene EXCEPT !.selected = id]
  <2>2. s.objects = scene.objects /\ s.version = scene.version
    BY <1>0 DEF Scenes
  <2>3. Dispatch(s) /\ UNCHANGED <<engine, dirty, adrift>>
    BY <2>1 DEF SelectObject, history
  <2> HIDE DEF s
  <2>4. CopyOf(StateOf(s)) = CopyOf(StateOf(scene))
    BY <2>2 DEF StateOf, CopyOf
  <2> QED
    BY <2>3, <2>4, DispatchTalk DEF Began, Talk
<1>6. CASE Undo \/ Redo
  <2>1. PICK s : Dispatch(s)
    BY <1>6 DEF Undo, Redo
  <2> QED
    BY <1>6, <2>1, DispatchTalk DEF Undo, Redo, history, Began, Talk
<1>7. CASE ClearHistory
  BY <1>7, DispatchTalk DEF ClearHistory, Began, Talk
<1>8. CASE \E s \in EngineScenes : SyncFromEngine(s)
  <2>1. PICK s \in EngineScenes : SyncFromEngine(s)
    BY <1>8
  <2> QED
    BY <2>1, DispatchTalk, ConstantsAssumption DEF SyncFromEngine, Synced, Talk
<1>9. CASE \E s \in EngineScenes : Initialize(s)
  <2>1. PICK s \in EngineScenes : Initialize(s)
    BY <1>9
  <2> QED
    BY <2>1, ConstantsAssumption DEF Initialize, Restarted, Talk
<1>10. CASE \E loaded \in Loads : LoadObjects(loaded)
  <2>2. PICK loaded \in Loads : LoadObjects(loaded)
    BY <1>10
  <2>3. PICK s : Dispatch(s)
    BY <2>2 DEF LoadObjects
  <2> QED
    BY <2>2, <2>3, DispatchTalk DEF LoadObjects, Began, Talk
<1>11. CASE Step
  <2> DEFINE call == [at |-> "check", sent |-> None]
  <2>1. call \in Frames /\ call.at # "changed"
    BY DEF Frames
  <2>2. frames' = Append(frames, call)
    BY <1>11 DEF Step
  <2> HIDE DEF call
  <2>3. frames' \in Seq(Frames)
    BY <1>0, <2>1, <2>2
  <2> QED
    BY <1>0, <1>11, <2>1, <2>2, <2>3, SentAppend DEF Step, model, history, Began, Talk
<1>12. CASE SelectionTold
  <2> DEFINE call == [at |-> "check", sent |-> None]
  <2>1. call \in Frames /\ call.at # "changed"
    BY DEF Frames
  <2>2. Proceed(call) /\ frames # <<>> /\ Calling.at # "changed"
    BY <1>12 DEF SelectionTold, At
  <2> HIDE DEF call
  <2> QED
    BY <1>12, <2>1, <2>2, ProceedTalk DEF SelectionTold, model, history, Began, Talk
<1>13. CASE NothingChanged \/ SameState
  <2>1. frames # <<>> /\ Last(frames).at # "changed" /\ frames' = Front(frames)
    BY <1>13 DEF NothingChanged, SameState, At, Calling, Return
  <2>2. Sent(frames') = Sent(frames)
    BY <1>0, <2>1, SentFront
  <2> QED
    BY <1>13, <2>2 DEF NothingChanged, SameState, model, history, Quiet, Talk
<1>14. CASE TellEngine
  <2> DEFINE call == [at |-> "changed", sent |-> StateOf(scene)]
  <2>1. call \in Frames /\ call.at = "changed" /\ call.sent = StateOf(scene)
    BY <1>0, StateTypes DEF Frames
  <2>2. Proceed(call) /\ frames # <<>> /\ Calling.at # "changed"
    BY <1>14 DEF TellEngine, At
  <2> HIDE DEF call
  <2> QED
    BY <1>14, <2>1, <2>2, ProceedTalk DEF TellEngine, model, history, Telling, Talk
<1>15. CASE EngineTold
  <2>1. frames # <<>> /\ Last(frames).at = "changed" /\ frames' = Front(frames) /\ Calling = Last(frames)
    BY <1>15 DEF EngineTold, At, Calling, Return
  <2>2. Last(frames).sent \in States
    <3>1. Len(frames) \in 1 .. Len(frames) /\ Last(frames) = frames[Len(frames)]
      BY <1>0, <2>1, EmptySeq DEF Last
    <3>2. Last(frames) \in Frames /\ Last(frames).sent # None
      BY <2>1, <3>1 DEF TypeOK
    <3> QED
      BY <3>2 DEF Frames
  <2>3. Sent(frames) = Sent(frames') \cup {Last(frames).sent}
    BY <1>0, <2>1, SentFront
  <2>4. Told(Last(frames).sent)
    BY <1>15, <2>1, <2>2, <2>3 DEF EngineTold, Told
  <2> QED
    BY <2>2, <2>4 DEF Talk
<1>16. CASE UNCHANGED vars
  BY <1>16 DEF vars, model, history, Talk
<1> QED
  BY <1>2, <1>3, <1>4, <1>5, <1>6, <1>7, <1>8, <1>9, <1>10, <1>11, <1>12, <1>13, <1>14, <1>15, <1>16
     DEF Next, User, Controller

(* A copy made of some states is made of more. *)
LEMMA MadeOfMore ==
  ASSUME NEW copy, NEW states, NEW more, states \subseteq more, MadeOf(copy, states)
  PROVE  MadeOf(copy, more)
BY DEF MadeOf

(* What is told last stands for previous: a copy made of older states and of a
   state that has the same objects and version is made of it. *)
LEMMA MadeOfSame ==
  ASSUME NEW copy, NEW others, NEW s, NEW t,
         MadeOf(copy, others \cup {s}), s.objects = t.objects, s.version = t.version
  PROVE  MadeOf(copy, others \cup {t})
BY DEF MadeOf

(* Every step keeps it. *)
LEMMA FollowStep == ASSUME TypeOK, FollowInv, [Next]_vars PROVE FollowInv'
<1>0. /\ scene \in Scenes /\ StateOf(scene) \in States /\ previous \in States /\ engine \in Copies
      /\ frames \in Seq(Frames) /\ dirty \in BOOLEAN
  BY StateTypes DEF TypeOK
<1>1. CASE Began
  <2>1. ~At("changed")' /\ frames' # <<>>
    BY <1>1 DEF Began, At, Calling
  <2>2. ASSUME ~adrift', ~dirty' PROVE (CopyOf(previous) = CopyOf(StateOf(scene)))'
    BY <1>1, <2>2 DEF Began, FollowInv
  <2>3. ASSUME ~adrift' PROVE MadeOf(engine, Sent(frames) \cup {previous})'
    BY <1>1, <2>3 DEF Began, FollowInv
  <2> QED
    BY <2>1, <2>2, <2>3 DEF FollowInv
<1>2. CASE Synced
  <2>1. frames' # <<>> /\ ~dirty'
    BY <1>2 DEF Synced
  <2>2. ASSUME ~adrift'
        PROVE  /\ (CopyOf(previous) = CopyOf(StateOf(scene)))'
               /\ engine' = CopyOf(previous')
    BY <1>2, <2>2 DEF Synced
  <2>3. MadeOf(CopyOf(previous'), Sent(frames') \cup {previous'})
    BY DEF MadeOf, CopyOf
  <2> QED
    BY <2>1, <2>2, <2>3 DEF FollowInv
<1>3. CASE Restarted
  <2>1. ~dirty' /\ previous' = StateOf(scene') /\ engine' = CopyOf(previous')
    BY <1>3 DEF Restarted
  <2>3. MadeOf(CopyOf(previous'), Sent(frames') \cup {previous'})
    BY DEF MadeOf, CopyOf
  <2> QED
    BY <2>1, <2>3 DEF FollowInv
<1>4. CASE Quiet
  <2>1. ~dirty'
    BY <1>4 DEF Quiet
  <2>2. ASSUME ~adrift'
        PROVE  /\ (CopyOf(previous) = CopyOf(StateOf(scene)))'
               /\ MadeOf(engine, Sent(frames) \cup {previous})'
    BY <1>4, <2>2 DEF Quiet, FollowInv
  <2> QED
    BY <2>1, <2>2 DEF FollowInv
<1>5. CASE Telling
  <2>1. frames' # <<>> /\ dirty'
    BY <1>5 DEF Telling
  <2>2. ASSUME ~adrift' PROVE MadeOf(engine', Sent(frames'))
    <3>1. MadeOf(engine, Sent(frames) \cup {previous})
      BY <1>5, <2>2 DEF Telling, FollowInv
    <3>2. MadeOf(Patched(engine, previous, StateOf(scene)), Sent(frames) \cup {StateOf(scene)})
      BY <1>0, <3>1, PatchedParts
    <3> QED
      BY <1>5, <3>2 DEF Telling
  <2>3. ASSUME ~adrift' PROVE MadeOf(engine', Sent(frames') \cup {previous'})
    BY <2>2, <2>3, MadeOfMore
  <2> QED
    BY <2>1, <2>2, <2>3 DEF FollowInv
<1>6. CASE \E call \in States : Told(call)
  <2>1. PICK call \in States : Told(call)
    BY <1>6
  <2>2. ~dirty'
    BY <2>1 DEF Told
  <2>3. ASSUME ~adrift'
        PROVE  /\ CopyOf(previous') = CopyOf(StateOf(scene'))
               /\ MadeOf(engine', Sent(frames') \cup {previous'})
    <3>1. ~adrift /\ CopyOf(StateOf(scene)) = CopyOf(call)
      BY <2>1, <2>3 DEF Told
    <3>2. CASE dirty
      <4>1. MadeOf(engine, Sent(frames') \cup {call})
        BY <2>1, <3>1, <3>2 DEF FollowInv, Told
      <4> QED
        BY <2>1, <3>1, <4>1 DEF Told
    <3>3. CASE ~dirty
      <4>1. CopyOf(previous) = CopyOf(call)
        BY <3>1, <3>3 DEF FollowInv
      <4>2. previous.objects = call.objects /\ previous.version = call.version
        BY <4>1, CopyParts
      <4>3. MadeOf(engine, (Sent(frames') \cup {call}) \cup {previous})
        BY <2>1, <3>1 DEF FollowInv, Told
      <4>4. MadeOf(engine, (Sent(frames') \cup {call}) \cup {call})
        BY <4>2, <4>3, MadeOfSame
      <4>5. (Sent(frames') \cup {call}) \cup {call} = Sent(frames') \cup {call}
        OBVIOUS
      <4> QED
        BY <2>1, <3>1, <4>4, <4>5 DEF Told
    <3> QED
      BY <1>0, <3>2, <3>3
  <2> QED
    BY <2>2, <2>3 DEF FollowInv
<1>7. CASE UNCHANGED <<frames, scene, engine, previous, dirty, adrift>>
  BY <1>7 DEF FollowInv, At, Calling
<1> QED
  BY <1>1, <1>2, <1>3, <1>4, <1>5, <1>6, <1>7, Talks DEF Talk

(* Between calls nothing is left to tell, and the copy is that of the scene. *)
LEMMA FollowGoal == ASSUME TypeOK, FollowInv PROVE EngineFollows
<1>1. ASSUME frames = <<>>, ~adrift PROVE engine = CopyOf(StateOf(scene))
  <2>1. Sent(frames) = {}
    <3>1. DOMAIN frames = {}
      BY <1>1, EmptySeq
    <3> QED
      BY <3>1 DEF Sent
  <2>2. CopyOf(previous) = CopyOf(StateOf(scene)) /\ MadeOf(engine, {previous})
    BY <1>1, <2>1 DEF FollowInv
  <2> QED
    BY <2>2, SameCopy DEF TypeOK
<1> QED
  BY <1>1 DEF FollowInv, EngineFollows

------------------------------------------------------------------------------
(* The invariant: the history is typed and bounded, every scene of it can be
   worked with, they are in order, and the engine is told of them. *)
IInv ==
  TypeOK /\ HistoryBounded /\ SelectionExists /\ ChildrenExist /\ VersionsAscend /\ FollowInv

LEMMA Invariance == Spec => []IInv
<1>1. Init => IInv
  <2> SUFFICES ASSUME Init PROVE IInv
    OBVIOUS
  <2>1. /\ scene \in Scenes /\ undoStack = <<>> /\ redoStack = <<>>
        /\ unchosen = ~Chosen(scene) /\ untidy = ~Tidy(scene)
    BY ConstantsAssumption DEF Init
  <2>2. Remembered = {scene}
    BY <2>1 DEF Remembered, ToSet
  <2>3. StateOf(scene) \in States /\ CopyOf(StateOf(scene)) \in Copies
    BY <2>1, StateTypes
  <2>4. TypeOK
    <3>1. frames = <<>> /\ frames \in Seq(Frames) /\ DOMAIN frames = {}
      BY EmptySeq DEF Init
    <3>2. undoStack \in Seq(Scenes) /\ redoStack \in Seq(Scenes)
      BY <2>1, EmptySeq
    <3>3. edits \in 0 .. MaxEdits
      BY ConstantsAssumption DEF Init
    <3> QED
      BY <2>1, <2>3, <3>1, <3>2, <3>3 DEF Init, TypeOK
  <2>5. HistoryBounded
    BY <2>1, EmptySeq, ConstantsAssumption DEF HistoryBounded
  <2>6. VersionsAscend
    BY <2>1 DEF VersionsAscend, InLine
  <2>7. FollowInv
    <3>1. previous = StateOf(scene) /\ engine = CopyOf(previous) /\ ~dirty
      BY DEF Init
    <3>2. MadeOf(CopyOf(previous), Sent(frames) \cup {previous})
      BY DEF MadeOf, CopyOf
    <3> QED
      BY <3>1, <3>2 DEF FollowInv
  <2> QED
    BY <2>1, <2>2, <2>4, <2>5, <2>6, <2>7 DEF IInv, SelectionExists, ChildrenExist
<1>2. IInv /\ [Next]_vars => IInv'
  BY TypeStep, BoundStep, SelectionStep, TidyStep, OrderStep, FollowStep DEF IInv
<1> QED
  BY <1>1, <1>2, PTL DEF Spec

(* Every variable keeps its type. *)
THEOREM TypeCorrect == Spec => []TypeOK
BY Invariance, PTL DEF IInv

(* Both stacks together never hold more than max_history scenes, although Redo
   pushes without the trim of push_undo_state (editor_engine.cpp:81). *)
THEOREM Bounded == Spec => []HistoryBounded
BY Invariance, PTL DEF IInv

(* No scene of the history names what it does not have, but for what callers
   brought: RemoveObject drops the selection (editor_engine.cpp:245), and while
   every list of children that came with a scene or with an object added or
   loaded was right, deleting a single entry of one list is enough. *)
THEOREM References == Spec => []ReferencesExist
BY Invariance, PTL DEF IInv, ReferencesExist

(* The versions of the history go up from its oldest scene to its newest,
   unless objects were loaded between an Undo and a Redo. *)
THEOREM Versions == Spec => []VersionsAscend
BY Invariance, PTL DEF IInv

(* Between calls the engine has the objects and the version of the scene, whatever
   the callbacks called: unless a SyncFromEngine brought another scene than the one
   told last, or a call inside on_state_changed told more
   (editor_engine.cpp:488-509). *)
THEOREM Follows == Spec => []EngineFollows
BY Invariance, FollowGoal, PTL DEF IInv
=============================================================================
