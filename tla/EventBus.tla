------------------------------ MODULE EventBus ------------------------------
(* The in-process event bus (event_bus.cpp, event_bus.h). One thread; what
   interleaves is user code, which runs inside the dispatch loop of publish and
   may subscribe, disconnect and publish again before it returns. frames is
   that call stack: one frame per publish still in its loop.

   Left out: payloads, the hash of an event name (names are taken to hash
   apart), the thread-local pointer of typed events, and the custom
   disconnectors of RemoteBus. A multi-event and a filter subscription are
   alike here: a set of events they take. Filters and guards run no bus call. *)
EXTENDS Naturals, Sequences, SequencesExt, FiniteSets

CONSTANTS
  Slots,            \* the slots create_slot may hand out, each once
  Events,           \* event names
  Interests,        \* sets of events a multi-event or filter subscription may take
  None,             \* no slot
  CompactInterval,  \* COMPACT_INTERVAL
  MaxDepth          \* bound: publishes inside one another

ASSUME ConstantsAssumption ==
  /\ CompactInterval \in Nat \ {0} /\ MaxDepth \in Nat
  /\ IsFiniteSet(Slots) /\ None \notin Slots
  /\ Interests \subseteq SUBSET Events

VARIABLES
  slots,        \* all_slots_ and those deleted from it
  singles,      \* single_slots_
  complex,      \* complex_slots_
  cells,        \* the storage of dispatch_buffer_, as long as its capacity
  disconnects,  \* disconnect_count_
  frames,       \* the publishes under way, the innermost last
  undefined     \* a pointer into freed storage or to a freed slot was used

vars == <<slots, singles, complex, cells, disconnects, frames, undefined>>

Kinds == {"single", "complex"}
Slot == [life : {"unused", "active", "inactive", "freed"}, kind : Kinds,
         events : SUBSET Events, guard : {"none", "live", "expired"}]

(* event: what is published; the loop stands before position at of the end
   positions it will visit, in the storage of that capacity; running is the
   slot whose handler it is in. For the properties only: disturbed tells that
   user code has since published or brought about a compaction; until then
   audience are the subscribers when the publish began and called those it has
   called. *)
Frame == [event : Events, at : Nat, end : Nat, storage : Nat, running : Slots \cup {None},
          audience : SUBSET Slots, called : SUBSET Slots, disturbed : BOOLEAN]

Life(s) == slots[s].life
Top == frames[Len(frames)]
InHandler == IF frames = <<>> THEN FALSE ELSE Top.running # None
UserCode == ~undefined /\ (frames = <<>> \/ InHandler)
Looping == ~undefined /\ frames # <<>> /\ ~InHandler

Init ==
  /\ slots = [s \in Slots |-> [life |-> "unused", kind |-> "single", events |-> {}, guard |-> "none"]]
  /\ singles = [e \in Events |-> <<>>] /\ complex = <<>>
  /\ cells = <<>> /\ disconnects = 0
  /\ frames = <<>> /\ undefined = FALSE

------------------------------------------------------------------------------
(* Subscribing; only a single-event subscription can have a guard. *)

SubscribeSingle(s, e, guard) ==
  /\ UserCode /\ Life(s) = "unused"
  /\ slots' = [slots EXCEPT ![s] = [life |-> "active", kind |-> "single", events |-> {e}, guard |-> guard]]
  /\ singles' = [singles EXCEPT ![e] = Append(@, s)]
  /\ UNCHANGED <<complex, cells, disconnects, frames, undefined>>

SubscribeComplex(s, wanted) ==
  /\ UserCode /\ Life(s) = "unused"
  /\ slots' = [slots EXCEPT ![s] = [life |-> "active", kind |-> "complex", events |-> wanted, guard |-> "none"]]
  /\ complex' = Append(complex, s)
  /\ UNCHANGED <<singles, cells, disconnects, frames, undefined>>

(* The object a weak_ptr guard watches goes away. *)
ExpireGuard(s) ==
  /\ UserCode /\ Life(s) = "active" /\ slots[s].guard = "live"
  /\ slots' = [slots EXCEPT ![s].guard = "expired"]
  /\ UNCHANGED <<singles, complex, cells, disconnects, frames, undefined>>

------------------------------------------------------------------------------
(* Publishing *)

Listening(s) == Life(s) = "active" /\ slots[s].guard # "expired"

(* The entries of a list that are in a set, in their order *)
Only(list, wanted) ==
  LET upTo[i \in 0 .. Len(list)] ==
        IF i = 0 THEN <<>>
        ELSE IF list[i] \in wanted THEN Append(upTo[i - 1], list[i]) ELSE upTo[i - 1]
  IN  upTo[Len(list)]

Everyone == {s \in Slots : Listening(s)}
Audience(e) == {s \in Everyone : e \in slots[s].events}

(* mutant: a multi-event slot is not asked whether it takes this event *)
CollectedUnchecked(e) == Only(singles[e], Everyone) \o Only(complex, Everyone)

(* The subscriptions to the event alone first, then those to several. *)
Collected(e) == Only(singles[e], Everyone) \o Only(complex, Audience(e))

(* clear and push_back: storage large enough keeps what lies beyond the new
   content, otherwise there is new storage, just enough or twice that (what
   libraries allocate lies between), and the old is freed. *)
Stored(hits) ==
  IF Len(hits) <= Len(cells)
  THEN {hits \o SubSeq(cells, Len(hits) + 1, Len(cells))}
  ELSE {hits \o [i \in 1 .. n |-> None] : n \in {0, Len(hits)}}

Disturbed ==
  [i \in DOMAIN frames |->
     [frames[i] EXCEPT !.disturbed = TRUE, !.audience = {}, !.called = {}]]

Publish(e) ==
  /\ UserCode /\ Len(frames) < MaxDepth
  /\ LET hits == Collected(e)
     IN  /\ cells' \in Stored(hits)
         /\ frames' = Append(Disturbed,
              [event |-> e, at |-> 1, end |-> Len(hits), storage |-> Len(cells'), running |-> None,
               audience |-> Audience(e), called |-> {}, disturbed |-> FALSE])
  /\ UNCHANGED <<slots, singles, complex, disconnects, undefined>>

SetTop(frame) == [frames EXCEPT ![Len(frames)] = frame]

(* A slot disconnected since it was collected has no handler any more. *)
HasHandler(s) == Life(s) = "active"

(* One turn of the loop over dispatch_buffer_. *)
DispatchNext ==
  /\ Looping /\ Top.at <= Top.end
  /\ IF Top.storage # Len(cells) \/ Life(cells[Top.at]) = "freed"
     THEN undefined' = TRUE /\ UNCHANGED frames
     ELSE LET s == cells[Top.at]
              next == [Top EXCEPT !.at = @ + 1]
          IN  /\ frames' = SetTop(IF HasHandler(s)
                                  THEN [next EXCEPT !.running = s, !.called = IF Top.disturbed THEN @ ELSE @ \cup {s}]
                                  ELSE next)
              /\ UNCHANGED undefined
  /\ UNCHANGED <<slots, singles, complex, cells, disconnects>>

HandlerReturns ==
  /\ ~undefined /\ InHandler
  /\ frames' = SetTop([Top EXCEPT !.running = None])
  /\ UNCHANGED <<slots, singles, complex, cells, disconnects, undefined>>

PublishReturns ==
  /\ Looping /\ Top.at > Top.end
  /\ frames' = Front(frames)
  /\ UNCHANGED <<slots, singles, complex, cells, disconnects, undefined>>

------------------------------------------------------------------------------
(* Disconnecting *)

WithoutNone(list, s) == list    \* mutant: the slot stays listed
Without(list, s) == Only(list, Slots \ {s})

MustCompact == (disconnects + 1) % CompactInterval = 0

(* The slot is disabled and unlisted; every so many times the disabled ones are deleted. *)
Disconnect(s) ==
  /\ UserCode /\ Life(s) = "active"
  /\ disconnects' = disconnects + 1
  /\ slots' = [t \in Slots |->
                 IF t = s \/ Life(t) = "inactive"
                 THEN [slots[t] EXCEPT !.life = IF MustCompact THEN "freed" ELSE "inactive"]
                 ELSE slots[t]]
  /\ IF slots[s].kind = "single"
     THEN /\ singles' = [e \in Events |-> IF e \in slots[s].events THEN Without(singles[e], s) ELSE singles[e]]
          /\ UNCHANGED complex
     ELSE complex' = Without(complex, s) /\ UNCHANGED singles
  /\ frames' = IF MustCompact THEN Disturbed ELSE frames
  /\ UNCHANGED <<cells, undefined>>

Subscribe ==
  \E s \in Slots :
    \/ \E e \in Events, guard \in {"none", "live"} : SubscribeSingle(s, e, guard)
    \/ \E wanted \in Interests : SubscribeComplex(s, wanted)

Next ==
  \/ Subscribe
  \/ \E s \in Slots : ExpireGuard(s) \/ Disconnect(s)
  \/ \E e \in Events : Publish(e)
  \/ DispatchNext \/ HandlerReturns \/ PublishReturns

Spec == Init /\ [][Next]_vars

------------------------------------------------------------------------------
(* Types; a loop is never past its end by more than one. *)
TypeOK ==
  /\ slots \in [Slots -> Slot]
  /\ singles \in [Events -> Seq(Slots)] /\ complex \in Seq(Slots)
  /\ cells \in Seq(Slots \cup {None})
  /\ disconnects \in 0 .. Cardinality(Slots)
  /\ frames \in Seq(Frame) /\ Len(frames) <= MaxDepth
  /\ \A i \in DOMAIN frames : frames[i].at <= frames[i].end + 1
  /\ undefined \in BOOLEAN

(* Where a slot is listed: which list, which position. *)
Entries(s) ==
  UNION {{<<e, i>> : i \in {j \in DOMAIN singles[e] : singles[e][j] = s}} : e \in Events}
ComplexEntries(s) == {i \in DOMAIN complex : complex[i] = s}

(* The two indexes list every connected slot once, where publish looks for it,
   and no other: whatever was subscribed and disconnected from inside handlers. *)
IndexAgrees ==
  \A s \in Slots :
    IF Life(s) # "active" THEN Entries(s) = {} /\ ComplexEntries(s) = {}
    ELSE IF slots[s].kind = "single"
    THEN /\ ComplexEntries(s) = {} /\ Cardinality(Entries(s)) = 1
         /\ \A entry \in Entries(s) : entry[1] \in slots[s].events
    ELSE Entries(s) = {} /\ Cardinality(ComplexEntries(s)) = 1

(* A publish reaches its subscribers and nobody else, each one once: when its
   loop is over, every subscriber of when it began that is still connected has
   been called. It holds while handlers subscribe and disconnect, as long as
   none of them publishes on this bus or brings about a compaction. *)
ReachesItsAudience ==
  \A i \in DOMAIN frames :
    LET f == frames[i]
    IN  ~f.disturbed =>
          /\ ~undefined
          /\ f.called \subseteq f.audience
          /\ f.at > f.end => {s \in f.audience : Life(s) = "active"} \subseteq f.called
          /\ f.at <= f.end => cells[f.at] \notin f.called
=============================================================================
