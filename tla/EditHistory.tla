---------------------------- MODULE EditHistory ----------------------------
(* What an editor's undo promises, told with whole scenes: a bounded line of
   past scenes, the present one and the future ones that Undo left behind.
   Objects the system loads are "initialization that persists across all
   undo/redo operations" (delta_undo.h:24-25): they appear in every scene of
   the line at once, so that no Undo or Redo takes them away. *)
EXTENDS Naturals, Sequences

CONSTANTS
  Ids,          \* names of objects
  Things,       \* what an object may be, or that it is absent
  MaxHistory    \* how many past scenes are kept

VARIABLES
  past,         \* scenes Undo goes back to, the latest last
  present,
  future        \* scenes Redo goes forward to, the next one last

history == <<past, present, future>>

Scenes == [Ids -> Things]

Latest(line) == IF Len(line) > MaxHistory THEN Tail(line) ELSE line

Init == past = <<>> /\ future = <<>> /\ present \in Scenes

Edit ==
  /\ present' \in Scenes
  /\ past' = Latest(Append(past, present))
  /\ future' = <<>>

(* An edit of several steps has begun: what was undone is no longer ahead. *)
StartEdit == future' = <<>> /\ UNCHANGED <<past, present>>

Undo ==
  /\ past # <<>>
  /\ present' = past[Len(past)]
  /\ past' = SubSeq(past, 1, Len(past) - 1)
  /\ future' = Append(future, present)

Redo ==
  /\ future # <<>>
  /\ present' = future[Len(future)]
  /\ future' = SubSeq(future, 1, Len(future) - 1)
  /\ past' = Append(past, present)

Forget == past' = <<>> /\ future' = <<>> /\ UNCHANGED present

(* The objects new arrives with appear in every scene of the line. *)
Load(new) ==
  LET With(scene) == [id \in Ids |-> IF id \in new THEN present'[id] ELSE scene[id]]
  IN  /\ present' \in Scenes /\ present' = With(present)
      /\ past' = [i \in DOMAIN past |-> With(past[i])]
      /\ future' = [i \in DOMAIN future |-> With(future[i])]

Next ==
  \/ StartEdit \/ Edit \/ Undo \/ Redo \/ Forget
  \/ \E new \in SUBSET Ids : Load(new)

Spec == Init /\ [][Next]_history
=============================================================================
