----------------------------- MODULE SharedState -----------------------------
(***************************************************************************)
(* StatePublisher and StateSubscriber (source/shared_state.cpp): one       *)
(* process writes its state, or the difference to the state before, into   *)
(* an area of shared memory, moves the version on and posts a named        *)
(* semaphore; others wait for the semaphore or poll, and read.             *)
(*                                                                         *)
(* A state is a document: a map of entries, and a vector under one more    *)
(* key.  A difference names the keys and the positions that changed, with  *)
(* their new values.                                                       *)
(*                                                                         *)
(* All subscribers wait for the one semaphore, and that is all they have   *)
(* to do with one another: of Others only the posts they take and leave    *)
(* are modelled.                                                           *)
(***************************************************************************)
EXTENDS Integers, Sequences

Absent == "absent"    \* no entry under a key
Gone == "null"        \* what is left of a vector's element that was removed

CONSTANTS
  Subscribers, Others,
  Key, Val,
  Documents,     \* the documents the publisher's owner comes to have
  Kinds,         \* what is published: a subset of {"Full", "Diff"}
  MaxPublishes,  \* bound: calls of publish_full and publish_diff
  MaxStops       \* bound: calls of stop_polling

State == [entries : [Key -> Val \cup {Absent}], items : Seq(Val)]
NoState == [entries |-> <<>>, items |-> <<>>]    \* the null value before any update
Garbage == [entries |-> [g \in {"garbage"} |-> "garbage"], items |-> <<>>]    \* decoded from a torn area

ASSUME KindAssumption == Kinds \subseteq {"Full", "Diff"}
ASSUME DocumentsAssumption == Documents \subseteq State
ASSUME BoundAssumption == MaxPublishes \in Nat /\ MaxStops \in Nat

VARIABLES
  version, type,   \* the header
  area,            \* the data: the version it is for, whether it is complete, what it holds,
                   \* and whether a difference starts from the version before and resizes no vector
  sem,             \* the count of the named semaphore
  takers,          \* history: who has taken a post since the latest update's
  ppc, pkind, pstate,  \* the publisher: where in write_update, what, and the new state
  lastState,       \* the old_state its owner passes to publish_diff
  calls,           \* calls of publish_full and publish_diff
  history,         \* history: the state of each version
  spc,             \* each subscriber: where in check_and_read
  task,            \* and what called it
  stype, snew, scopy,  \* update_type, new_version, and the data being copied
  current, currentVersion, missed, total,  \* current_state, current_version, stats
  polling, stops,  \* the background thread runs; calls of stop_polling
  gap,             \* history: current_state is not of its version, by a torn read, a diff applied
                   \* on a state it was not made for, or one that resizes a vector
  raced            \* history: a read was overtaken by a write

publisher == <<ppc, pkind, pstate, lastState, calls>>
shared == <<version, type, area>>
notify == <<sem, takers>>
reading == <<stype, snew, scopy>>
result == <<current, currentVersion, missed, total, gap, raced>>
vars == <<shared, notify, publisher, history, spc, task, reading, result, polling, stops>>

-----------------------------------------------------------------------------
\* What a sequence has at a position, if anything.
Item(items, i) == IF i \in DOMAIN items THEN items[i] ELSE Gone

\* collect_diff(): the entries and the elements that were added, removed or modified.
DiffOf(old, new) ==
  [entries |-> [k \in {x \in Key : old.entries[x] # new.entries[x]} |-> new.entries[k]],
   items |-> [i \in {j \in DOMAIN old.items \cup DOMAIN new.items : Item(old.items, j) # Item(new.items, j)}
                |-> Item(new.items, i)]]

Over(changed, base) == [x \in DOMAIN base |-> IF x \in DOMAIN changed THEN changed[x] ELSE base[x]]

\* apply_diff(): removals, modifications and additions.  Nothing is added to a
\* null value or past a vector's end, and no vector gets shorter.
ApplyAdding(base, diff) ==     \* mutant: removals are forgotten
  [entries |-> Over([k \in {x \in DOMAIN diff.entries : diff.entries[x] # Absent} |-> diff.entries[k]], base.entries),
   items |-> Over(diff.items, base.items)]
Apply(base, diff) == [entries |-> Over(diff.entries, base.entries), items |-> Over(diff.items, base.items)]

StateOf(v) == IF v = 0 THEN NoState ELSE history[v]

Init ==
  /\ version = 0 /\ type = "Full" /\ sem = 0 /\ takers = {}
  /\ area = [of |-> 0, done |-> TRUE, kind |-> "Full", body |-> NoState, based |-> TRUE]
  /\ ppc = "idle" /\ pkind = "Full" /\ lastState \in Documents /\ pstate = lastState
  /\ calls = 0 /\ history = <<>>
  /\ spc = [s \in Subscribers |-> "idle"] /\ task = [s \in Subscribers |-> "poll"]
  /\ stype = [s \in Subscribers |-> "Full"] /\ snew = [s \in Subscribers |-> 0]
  /\ scopy = [s \in Subscribers |-> area]
  /\ current = [s \in Subscribers |-> NoState] /\ currentVersion = [s \in Subscribers |-> 0]
  /\ missed = [s \in Subscribers |-> 0] /\ total = [s \in Subscribers |-> 0]
  /\ polling = [s \in Subscribers |-> FALSE] /\ stops = 0
  /\ gap = [s \in Subscribers |-> FALSE] /\ raced = [s \in Subscribers |-> FALSE]

-----------------------------------------------------------------------------
(* The publisher. *)

\* publish_full(new) and publish_diff(lastState, new), which picks the smaller
\* of a diff and the whole, and nothing when there is no change; the memcpy of
\* write_update begins.
PublishBegin(kind, new) ==
  /\ ppc = "idle"
  /\ calls < MaxPublishes
  /\ kind = "Diff" => new # lastState
  /\ ppc' = "data"
  /\ pkind' = kind
  /\ pstate' = new
  /\ calls' = calls + 1
  /\ area' = [of |-> version + 1, done |-> FALSE, kind |-> kind, body |-> NoState,
              based |-> lastState = StateOf(version) /\ Len(lastState.items) = Len(new.items)]
  /\ UNCHANGED <<version, type, notify, lastState, history, spc, task, reading, result, polling, stops>>

\* The update does not fit: write_update returns, its caller goes on.
PublishTooLarge(kind, new) ==
  /\ ppc = "idle"
  /\ calls < MaxPublishes
  /\ kind = "Diff" => new # lastState
  /\ lastState' = new
  /\ calls' = calls + 1
  /\ UNCHANGED <<shared, notify, ppc, pkind, pstate, history, spc, task, reading, result, polling, stops>>

WriteData ==
  /\ ppc = "data"
  /\ area' = [area EXCEPT !.done = TRUE,
                          !.body = IF pkind = "Full" THEN pstate ELSE DiffOf(lastState, pstate)]
  /\ ppc' = "header"
  /\ UNCHANGED <<version, type, notify, pkind, pstate, lastState, calls, history,
                 spc, task, reading, result, polling, stops>>

WriteHeader ==
  /\ ppc = "header"
  /\ type' = pkind
  /\ ppc' = "version"
  /\ UNCHANGED <<version, area, notify, pkind, pstate, lastState, calls, history,
                 spc, task, reading, result, polling, stops>>

WriteVersion ==
  /\ ppc = "version"
  /\ version' = version + 1
  /\ history' = Append(history, pstate)
  /\ ppc' = "post"
  /\ UNCHANGED <<type, area, notify, pkind, pstate, lastState, calls,
                 spc, task, reading, result, polling, stops>>

Post ==
  /\ ppc = "post"
  /\ sem' = sem + 1 /\ takers' = {}
  /\ ppc' = "idle"
  /\ lastState' = pstate
  /\ UNCHANGED <<shared, pkind, pstate, calls, history, spc, task, reading, result, polling, stops>>

-----------------------------------------------------------------------------
\* Somebody's wait for the semaphore comes to an end by a post.
Take(who) ==
  /\ sem > 0
  /\ sem' = sem - 1
  /\ takers' = takers \cup {who}

(* The subscriber.  poll(), wait_for_update() and the background thread all *)
(* come down to check_and_read().                                           *)

Enter(s, why) ==
  /\ spc' = [spc EXCEPT ![s] = "check"]
  /\ task' = [task EXCEPT ![s] = why]
  /\ UNCHANGED <<shared, publisher, history, reading, result, stops>>

Poll(s) ==
  /\ spc[s] = "idle" /\ ~polling[s]
  /\ Enter(s, "poll")
  /\ UNCHANGED <<notify, polling>>

\* wait_for_update() polls first.
WaitBegin(s) ==
  /\ spc[s] = "idle" /\ ~polling[s]
  /\ Enter(s, "wait")
  /\ UNCHANGED <<notify, polling>>

WaitAcquire(s) ==
  /\ spc[s] = "blocked"
  /\ Take(s)
  /\ Enter(s, "woken")
  /\ UNCHANGED polling

\* timed_wait() gives up; the state is returned as it is.
WaitTimeout(s) ==
  /\ spc[s] = "blocked"
  /\ spc' = [spc EXCEPT ![s] = "idle"]
  /\ UNCHANGED <<shared, notify, publisher, history, task, reading, result, polling, stops>>

StartPolling(s) ==
  /\ spc[s] = "idle" /\ ~polling[s]
  /\ polling' = [polling EXCEPT ![s] = TRUE]
  /\ UNCHANGED <<shared, notify, publisher, history, spc, task, reading, result, stops>>

\* The thread acquires the semaphore and polls.  When timed_wait() gives up it
\* does nothing but wait again.
BackgroundAcquire(s) ==
  /\ polling[s] /\ spc[s] = "idle"
  /\ Take(s)
  /\ Enter(s, "background")
  /\ UNCHANGED polling

\* stop_polling() posts the semaphore; the thread takes the post, or does not
\* wait for it any more.
Leave ==
  /\ stops < MaxStops
  /\ \E left \in {0, 1} : sem' = sem + left
  /\ stops' = stops + 1
  /\ UNCHANGED takers

StopPolling(s) ==
  /\ polling[s] /\ spc[s] = "idle"
  /\ Leave
  /\ polling' = [polling EXCEPT ![s] = FALSE]
  /\ UNCHANGED <<shared, publisher, history, spc, task, reading, result>>

\* Another subscriber takes a post, and reads for itself; or it stops.
OtherTakes(o) ==
  /\ Take(o)
  /\ UNCHANGED <<shared, publisher, history, spc, task, reading, result, polling, stops>>

OtherStops ==
  /\ Others # {}
  /\ Leave
  /\ UNCHANGED <<shared, publisher, history, spc, task, reading, result, polling>>

\* check_and_read() returns to what called it.
Return(s, updated) ==
  /\ spc' = [spc EXCEPT ![s] = IF task[s] = "wait" /\ ~updated THEN "blocked" ELSE "idle"]
  /\ UNCHANGED <<shared, notify, publisher, history, task, polling, stops>>

CheckNothing(s) ==
  /\ spc[s] = "check"
  /\ version = currentVersion[s]
  /\ Return(s, FALSE)
  /\ UNCHANGED <<reading, result>>

\* Mutant: the update about to be read is counted as missed.
CheckUpdateCountingAll(s) ==
  /\ spc[s] = "check"
  /\ version # currentVersion[s]
  /\ missed' = [missed EXCEPT ![s] = @ + (version - currentVersion[s])]
  /\ snew' = [snew EXCEPT ![s] = version]
  /\ spc' = [spc EXCEPT ![s] = "load"]
  /\ UNCHANGED <<shared, notify, publisher, history, task, stype, scopy, current, currentVersion, total, gap, raced,
                 polling, stops>>

CheckUpdate(s) ==
  /\ spc[s] = "check"
  /\ version # currentVersion[s]
  /\ missed' = [missed EXCEPT ![s] = @ + (version - currentVersion[s] - 1)]
  /\ snew' = [snew EXCEPT ![s] = version]
  /\ spc' = [spc EXCEPT ![s] = "load"]
  /\ UNCHANGED <<shared, notify, publisher, history, task, stype, scopy, current, currentVersion, total, gap, raced,
                 polling, stops>>

LoadHeader(s) ==
  /\ spc[s] = "load"
  /\ stype' = [stype EXCEPT ![s] = type]
  /\ snew' = [snew EXCEPT ![s] = version]
  /\ raced' = [raced EXCEPT ![s] = @ \/ snew[s] # version]
  /\ spc' = [spc EXCEPT ![s] = "begin"]
  /\ UNCHANGED <<shared, notify, publisher, history, task, scopy, current, currentVersion, missed, total, gap,
                 polling, stops>>

CopyBegin(s) ==
  /\ spc[s] = "begin"
  /\ scopy' = [scopy EXCEPT ![s] = area]
  /\ spc' = [spc EXCEPT ![s] = "copy"]
  /\ UNCHANGED <<shared, notify, publisher, history, task, stype, snew, result, polling, stops>>

\* The copy is one update's, whole, and of the type the header named.
Whole(s) ==
  scopy[s].done /\ scopy[s].of = area.of /\ scopy[s].kind = stype[s]

\* The difference is from the subscriber's own state to that of new_version.
Fits(s) ==
  /\ scopy[s].of = snew[s]
  /\ scopy[s].kind = "Diff" => scopy[s].based /\ ~gap[s] /\ snew[s] = currentVersion[s] + 1


TakeOver(s, new) ==
  /\ current' = [current EXCEPT ![s] = new]
  /\ currentVersion' = [currentVersion EXCEPT ![s] = snew[s]]
  /\ total' = [total EXCEPT ![s] = @ + 1]
  /\ UNCHANGED missed
  /\ Return(s, TRUE)

DecodeWhole(s) ==
  /\ spc[s] = "copy"
  /\ Whole(s)
  /\ TakeOver(s, IF stype[s] = "Full" THEN scopy[s].body ELSE Apply(current[s], scopy[s].body))
  /\ gap' = [gap EXCEPT ![s] = ~Fits(s)]
  /\ raced' = [raced EXCEPT ![s] = @ \/ scopy[s].of # snew[s]]
  /\ UNCHANGED reading

\* Decoding the bytes of two updates yields garbage or throws.
DecodeTorn(s) ==
  /\ spc[s] = "copy"
  /\ ~Whole(s)
  /\ \/ TakeOver(s, Garbage) /\ gap' = [gap EXCEPT ![s] = TRUE]
     \/ Return(s, FALSE) /\ UNCHANGED <<current, currentVersion, missed, total, gap>>
  /\ raced' = [raced EXCEPT ![s] = TRUE]
  /\ UNCHANGED reading

-----------------------------------------------------------------------------
Write == WriteData \/ WriteHeader \/ WriteVersion \/ Post

Check(s) ==
  CheckNothing(s) \/ CheckUpdate(s) \/ LoadHeader(s) \/ CopyBegin(s) \/ DecodeWhole(s) \/ DecodeTorn(s)

Next ==
  \/ \E kind \in Kinds, new \in Documents : PublishBegin(kind, new) \/ PublishTooLarge(kind, new)
  \/ Write
  \/ \E s \in Subscribers :
       \/ Poll(s) \/ WaitBegin(s) \/ WaitAcquire(s) \/ WaitTimeout(s)
       \/ StartPolling(s) \/ BackgroundAcquire(s) \/ StopPolling(s)
       \/ Check(s)
  \/ OtherStops \/ \E o \in Others : OtherTakes(o)

Spec == Init /\ [][Next]_vars

(***************************************************************************)
(* Fairness: a call that has begun comes to its end, and a thread that     *)
(* waits for the semaphore acquires it if it is posted again and again.    *)
(* The publisher need not publish, the subscriber need not call.           *)
(***************************************************************************)
Fairness ==
  /\ WF_vars(Write)
  /\ \A s \in Subscribers : WF_vars(Check(s)) /\ SF_vars(BackgroundAcquire(s))

FairSpec == Spec /\ Fairness

-----------------------------------------------------------------------------
(* Properties. *)

Contents == {NoState} \cup Documents \cup {DiffOf(old, new) : old, new \in Documents}

Updates == [of : 0..MaxPublishes, done : BOOLEAN, kind : {"Full", "Diff"},
            body : Contents, based : BOOLEAN]

TypeOK ==
  /\ version = Len(history) /\ version <= calls /\ calls \in 0..MaxPublishes
  /\ type \in {"Full", "Diff"} /\ pkind \in {"Full", "Diff"}
  /\ area \in Updates
  /\ takers \subseteq Subscribers \cup Others
  /\ sem \in 0..(MaxPublishes + MaxStops) /\ stops \in 0..MaxStops
  /\ ppc \in {"idle", "data", "header", "version", "post"}
  /\ pstate \in Documents /\ lastState \in Documents /\ history \in Seq(Documents)
  /\ spc \in [Subscribers -> {"idle", "blocked", "check", "load", "begin", "copy"}]
  /\ task \in [Subscribers -> {"poll", "wait", "woken", "background"}]
  /\ stype \in [Subscribers -> {"Full", "Diff"}]
  /\ snew \in [Subscribers -> 0..version]
  /\ scopy \in [Subscribers -> Updates]
  /\ DOMAIN current = Subscribers
  /\ currentVersion \in [Subscribers -> 0..version]
  /\ missed \in [Subscribers -> Nat] /\ total \in [Subscribers -> Nat]
  /\ polling \in [Subscribers -> BOOLEAN]
  /\ gap \in [Subscribers -> BOOLEAN] /\ raced \in [Subscribers -> BOOLEAN]

\* A subscriber's state is the one published under its version, unless its
\* read was torn, or a diff was applied on a state it was not made for or one
\* whose vector it resizes; the next undisturbed full update puts that right
\* (lines 418-471, 956-975).
DriftsOnlyOverAGap ==
  \A s \in Subscribers : ~gap[s] => current[s] = StateOf(currentVersion[s])

\* As long as no write overtook a read every version is accounted for, as read
\* or as missed (lines 434-437, 462-463).
VersionsAddUp ==
  \A s \in Subscribers :
    spc[s] \in {"idle", "blocked"} /\ ~raced[s] => total[s] + missed[s] = currentVersion[s]

\* While the publisher rests after a full update, a post that somebody has
\* taken brings it that state, torn reads on the way notwithstanding; and a
\* thread is left without only when another subscriber has taken a post since
\* (lines 262-271, 429-470, 580-590).
Rest == ppc = "idle" /\ type = "Full"

=============================================================================
