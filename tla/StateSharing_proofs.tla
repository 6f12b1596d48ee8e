------------------------- MODULE StateSharing_proofs ------------------------
(* The two ways one process shows another its state, and what that state is made
   of, each a specification of its own and told apart by the names: the double
   buffer (Buffer...), where what is active is what was published and a read is
   whole unless it is lapped, for every T and any number of writes; then the
   published updates, where a subscriber has the state of its version, or knows of
   a torn read or of a difference that was not made for it, and accounts for every
   version, for any keys, values, subscribers and publications; last the values
   themselves (Document...), where an edit along a path does what it is called for
   and nothing beside the path, and the list and the tree that tell two documents
   apart carry over what they can and nothing else, for any keys, leaves and paths. *)
EXTENDS SpscBuffer, SharedState, ValueDiffs, SequenceLemmas, SequenceTheorems, TLAPS

-----------------------------------------------------------------------------
(* The two indices. *)

\* In the double mode states of different parity look at different buffers.
LEMMA Indices ==
  ASSUME Mode = "double", NEW s \in Nat
  PROVE  /\ ReadIdx(s) \in Slots
         /\ WriteIdx(s) \in Slots
         /\ ReadIdx(s) # WriteIdx(s)
         /\ ReadIdx(s + 1) = WriteIdx(s)
         /\ NextState(s) = s + 1
<1>1. s % 2 \in {0, 1}
  BY SMT
<1>2. (s + 1) % 2 = 1 - (s % 2)
  BY SMT
<1>3. Slots = {0, 1}
  BY DEF Slots, BufferCount
<1> QED
  BY <1>1, <1>2, <1>3 DEF ReadIdx, WriteIdx, NextState

LEMMA ZeroIsValue == Zero \in Value
BY MaxWritesAssumption DEF Zero, Value

-----------------------------------------------------------------------------
LEMMA BufferInitInv == Mode = "double" /\ BufferInit => DoubleInv
<1> SUFFICES ASSUME Mode = "double", BufferInit PROVE DoubleInv
  OBVIOUS
<1> USE ZeroIsValue, MaxWritesAssumption DEF BufferInit
<1>1. BufferTypeOK
  BY DEF BufferTypeOK
<1>2. BuffersInv
  <2>1. ReadIdx(0) \in Slots
    BY Indices
  <2> QED
    BY <2>1 DEF BuffersInv, Published
<1>3. WholeUnlessLapped
  BY DEF WholeUnlessLapped
<1> QED
  BY <1>1, <1>2, <1>3 DEF DoubleInv

-----------------------------------------------------------------------------
(* The producer's steps. *)

LEMMA WriteBeginInv ==
  ASSUME Mode = "double", DoubleInv, NEW kind \in {"write", "guard"},
         NEW words \in SUBSET Words, WriteBegin(kind, words)
  PROVE  DoubleInv'
<1> USE DEF DoubleInv, WriteBegin, reader
<1>1. BufferTypeOK'
  BY MaxWritesAssumption DEF BufferTypeOK
<1>2. BuffersInv'
  BY DEF BuffersInv, Published
<1>3. WholeUnlessLapped'
  BY DEF BufferTypeOK, WholeUnlessLapped, Lapped, Published
<1> QED
  BY <1>1, <1>2, <1>3

LEMMA StoreWordInv ==
  ASSUME Mode = "double", DoubleInv, NEW w \in Words, StoreWord(w)
  PROVE  DoubleInv'
<1> USE DEF DoubleInv, StoreWord, reader
<1>1. /\ state \in Nat
      /\ wold = state
  BY DEF BufferTypeOK, BuffersInv
<1>2. BufferTypeOK'
  <2>1. WriteIdx(wold) \in Slots
    BY <1>1, Indices
  <2>2. [buffers[WriteIdx(wold)] EXCEPT ![w] = started] \in Value
    BY <2>1 DEF BufferTypeOK, Value
  <2>3. buffers' \in [Slots -> Value]
    BY <2>1, <2>2 DEF BufferTypeOK
  <2> QED
    BY <2>3 DEF BufferTypeOK
<1>3. buffers'[ReadIdx(state)] = buffers[ReadIdx(state)]
  BY <1>1, Indices DEF BufferTypeOK
<1>4. BuffersInv'
  BY <1>3 DEF BuffersInv, Published, ReadIdx
<1>5. WholeUnlessLapped'
  BY DEF BufferTypeOK, WholeUnlessLapped, Lapped, Published
<1> QED
  BY <1>2, <1>4, <1>5

LEMMA PublishInv ==
  ASSUME Mode = "double", DoubleInv, Publish
  PROVE  DoubleInv'
<1> USE DEF DoubleInv, Publish, reader
<1>1. /\ state \in Nat
      /\ wold = state
      /\ started = state + 1
      /\ state = Len(published)
  BY DEF BufferTypeOK, BuffersInv
<1>2. state' = state + 1
  BY <1>1, Indices
<1>3. buffers[WriteIdx(state)] \in Value
  BY <1>1, Indices DEF BufferTypeOK
<1>4. BufferTypeOK'
  BY <1>1, <1>2, <1>3 DEF BufferTypeOK
<1>5. /\ \A s \in 1..state : published'[s] = published[s]
      /\ published'[state + 1] = buffers[WriteIdx(state)]
      /\ Len(published') = state + 1
  BY <1>1, <1>3 DEF BufferTypeOK
<1>6. BuffersInv'
  <2>1. Published(state)' = buffers[WriteIdx(state)]
    BY <1>1, <1>2, <1>5 DEF Published
  <2>2. ReadIdx(state)' = WriteIdx(state)
    BY <1>1, <1>2, Indices DEF ReadIdx
  <2>3. state' - 1 = state
    BY <1>1, <1>2
  <2>4. Published(state - 1)' = Published(state)
    <3>1. Published(state - 1)' = IF state = 0 THEN Zero ELSE published'[state]
      BY <2>3 DEF Published, Zero
    <3>2. state # 0 => published'[state] = published[state]
      BY <1>1, <1>5
    <3> QED
      BY <3>1, <3>2 DEF Published
  <2>5. ReadIdx(state - 1)' = ReadIdx(state)
    BY <2>3 DEF ReadIdx
  <2> QED
    BY <1>1, <1>2, <1>5, <2>1, <2>2, <2>4, <2>5 DEF BuffersInv
<1>7. WholeUnlessLapped'
  <2>1. rstate \in 0..state
    BY DEF BufferTypeOK
  <2>2. Published(rstate)' = Published(rstate)
    BY <1>1, <1>5, <2>1 DEF Published
  <2>3. rpc # "idle" /\ ~Lapped' => ~Lapped
    BY <1>1, <1>2, <2>1 DEF Lapped
  <2> QED
    BY <2>2, <2>3 DEF WholeUnlessLapped, Published
<1> QED
  BY <1>4, <1>6, <1>7

-----------------------------------------------------------------------------
(* The consumer's steps leave BuffersInv alone. *)

LEMMA ReaderKeepsBuffers ==
  ASSUME BuffersInv, UNCHANGED <<state, buffers, writer, published>>
  PROVE  BuffersInv'
BY DEF BuffersInv, writer, Published, ReadIdx

LEMMA BeginInv ==
  ASSUME Mode = "double", DoubleInv, TryReadBegin \/ ReadBegin
  PROVE  DoubleInv'
<1> USE DEF DoubleInv, TryReadBegin, ReadBegin
<1>1. BufferTypeOK'
  BY DEF BufferTypeOK, writer
<1>2. BuffersInv'
  BY ReaderKeepsBuffers
<1>3. WholeUnlessLapped'
  BY DEF WholeUnlessLapped
<1> QED
  BY <1>1, <1>2, <1>3

LEMMA LoadWordInv ==
  ASSUME Mode = "double", DoubleInv, NEW w \in Words, LoadWord(w)
  PROVE  DoubleInv'
<1> USE DEF DoubleInv, LoadWord
<1>1. rstate \in Nat /\ state \in Nat /\ rstate <= state
  BY DEF BufferTypeOK
<1>2. ReadIdx(rstate) \in Slots
  BY <1>1, Indices
<1>3. BufferTypeOK'
  <2>1. buffers[ReadIdx(rstate)][w] \in 0..MaxWrites
    BY <1>2 DEF BufferTypeOK, Value
  <2>2. rcopy' \in Value
    BY <2>1 DEF BufferTypeOK, Value
  <2> QED
    BY <2>2 DEF BufferTypeOK, writer
<1>4. BuffersInv'
  BY ReaderKeepsBuffers
<1>5. ~Lapped => buffers[ReadIdx(rstate)] = Published(rstate)
  <2>1. CASE rstate = state
    BY <2>1 DEF BuffersInv
  <2>2. CASE rstate + 1 = state
    <3>1. state - 1 = rstate
      BY <1>1, <2>2
    <3> QED
      BY <1>1, <2>2, <3>1 DEF BuffersInv, Lapped
  <2>3. CASE rstate + 1 < state
    BY <1>1, <2>3 DEF Lapped
  <2> QED
    BY <1>1, <2>1, <2>2, <2>3
<1>6. WholeUnlessLapped'
  <2>1. Lapped' = Lapped /\ Published(rstate)' = Published(rstate)
    BY DEF Lapped, Published, writer
  <2>2. \A x \in Words \ rleft' : rcopy'[x] = IF x = w THEN buffers[ReadIdx(rstate)][w] ELSE rcopy[x]
    BY DEF BufferTypeOK, Value
  <2>3. SUFFICES ASSUME rpc' # "idle", ~Lapped', NEW x \in Words \ rleft'
                 PROVE  rcopy'[x] = Published(rstate)'[x]
    BY DEF WholeUnlessLapped
  <2>4. CASE x = w
    BY <1>5, <2>1, <2>2, <2>3, <2>4
  <2>5. CASE x # w
    <3>1. x \in Words \ rleft
      BY <2>3, <2>5
    <3>2. rcopy[x] = Published(rstate)[x]
      BY <2>1, <2>3, <3>1 DEF WholeUnlessLapped
    <3> QED
      BY <2>1, <2>2, <2>3, <2>5, <3>2
  <2> QED
    BY <2>4, <2>5
<1> QED
  BY <1>3, <1>4, <1>6

LEMMA EndInv ==
  ASSUME Mode = "double", DoubleInv, TryReadEnd \/ ReadEnd
  PROVE  DoubleInv'
<1> USE DEF DoubleInv, TryReadEnd, ReadEnd
<1>1. BufferTypeOK'
  BY DEF BufferTypeOK, writer
<1>2. BuffersInv'
  BY ReaderKeepsBuffers
<1>3. WholeUnlessLapped'
  BY DEF WholeUnlessLapped
<1> QED
  BY <1>1, <1>2, <1>3

LEMMA IdleReaderInv ==
  ASSUME Mode = "double", DoubleInv, LookForUpdate \/ ResetUpdateTracking
  PROVE  DoubleInv'
<1> USE DEF DoubleInv, LookForUpdate, ResetUpdateTracking
<1>1. BufferTypeOK'
  BY DEF BufferTypeOK, writer
<1>2. BuffersInv'
  BY ReaderKeepsBuffers
<1>3. WholeUnlessLapped'
  BY DEF WholeUnlessLapped
<1> QED
  BY <1>1, <1>2, <1>3

-----------------------------------------------------------------------------
LEMMA StutterInv == DoubleInv /\ UNCHANGED bufferVars => DoubleInv'
BY DEF DoubleInv, bufferVars, BufferTypeOK, BuffersInv, WholeUnlessLapped, Lapped, Published, ReadIdx

LEMMA BufferNextInv == Mode = "double" /\ DoubleInv /\ [BufferNext]_bufferVars => DoubleInv'
<1> SUFFICES ASSUME Mode = "double", DoubleInv, [BufferNext]_bufferVars PROVE DoubleInv'
  OBVIOUS
<1>1. CASE WriterNext
  BY <1>1, WriteBeginInv, StoreWordInv, PublishInv DEF WriterNext
<1>2. CASE ReaderNext
  BY <1>2, BeginInv, LoadWordInv, EndInv, IdleReaderInv DEF ReaderNext
<1>3. CASE UNCHANGED bufferVars
  BY <1>3, StutterInv
<1> QED
  BY <1>1, <1>2, <1>3 DEF BufferNext

\* The inductive invariant holds throughout, in the double mode.
THEOREM DoubleInvariance ==
  ASSUME Mode = "double"
  PROVE  BufferSpec => []DoubleInv
<1>1. BufferInit => DoubleInv
  BY BufferInitInv
<1>2. DoubleInv /\ [BufferNext]_bufferVars => DoubleInv'
  BY BufferNextInv
<1> QED
  BY <1>1, <1>2, PTL DEF BufferSpec

\* Every variable keeps its type, the state number and the buffers with it, for
\* any number of writes (shared_buffer_spsc.h 249-261, 355-369).
THEOREM BufferTypeCorrect ==
  ASSUME Mode = "double"
  PROVE  BufferSpec => []BufferTypeOK
<1>1. DoubleInv => BufferTypeOK
  BY DEF DoubleInv
<1> QED
  BY <1>1, DoubleInvariance, PTL

\* The active buffer always holds the last published value, whole
\* (write(), lines 249-261; the reference read() returns, line 342).
THEOREM ActivePublished ==
  ASSUME Mode = "double"
  PROVE  BufferSpec => []ActiveIsPublished
<1>1. DoubleInv => ActiveIsPublished
  BY DEF DoubleInv, BuffersInv, ActiveIsPublished
<1> QED
  BY <1>1, DoubleInvariance, PTL

\* A copy is torn only if the writer came around to its buffer
\* (try_read(), lines 355-369).
THEOREM WholeCopies ==
  ASSUME Mode = "double"
  PROVE  BufferSpec => []WholeUnlessLapped
<1>1. DoubleInv => WholeUnlessLapped
  BY DEF DoubleInv
<1> QED
  BY <1>1, DoubleInvariance, PTL

------------------------------------------------------------------------------
(* Published updates *)

Begun == {"data", "header", "version"}

(* Every post but the one to come was a call or a stop; so was every version. *)
Accounts ==
  /\ version + (IF ppc \in Begun THEN 1 ELSE 0) <= calls
  /\ sem + (IF ppc = "idle" THEN 0 ELSE 1) <= calls + stops

(* While the update is being copied into the area nobody can take it for whole. *)
Writing ==
  ppc = "data" => /\ area.of = version + 1 /\ ~area.done /\ area.kind = pkind
                  /\ area.based => /\ lastState = StateOf(version)
                                   /\ Len(lastState.items) = Len(pstate.items)

(* An update made from state old for state new. *)
Carries(a, old, new) ==
  /\ a.kind = "Full" => a.body = new
  /\ a.kind = "Diff" /\ a.based =>
       /\ a.body = DiffOf(old, new) /\ Len(old.items) = Len(new.items)
       /\ old \in Documents /\ new \in Documents

(* A whole update, in the area or copied from it, is for a version there is, or for
   the one about to be announced. *)
Faithful(a) ==
  a.done =>
    /\ a.kind = "Diff" => a.of # 0
    /\ \/ a.of <= version /\ Carries(a, StateOf(a.of - 1), StateOf(a.of))
       \/ /\ a.of = version + 1 /\ ppc \in {"header", "version"}
          /\ Carries(a, StateOf(version), pstate)

AllFaithful == Faithful(area) /\ \A s \in Subscribers : Faithful(scopy[s])

(* What is read and what is missed add up at every step of a read. *)
Adds ==
  \A s \in Subscribers :
    ~raced[s] =>
      total[s] + missed[s] = IF spc[s] \in {"load", "begin", "copy"} THEN snew[s] - 1
                                                                     ELSE currentVersion[s]

IInv == TypeOK /\ Accounts /\ Writing /\ AllFaithful /\ DriftsOnlyOverAGap /\ Adds

-----------------------------------------------------------------------------
(* A difference leads from the state it starts from to the one it was made for,
   when no vector has another length there. *)
LEMMA Applied ==
  ASSUME NEW old \in State, NEW new \in State, Len(old.items) = Len(new.items)
  PROVE  Apply(old, DiffOf(old, new)) = new
<1> DEFINE d == DiffOf(old, new)
<1>1. /\ old.entries \in [Key -> Val \cup {Absent}] /\ new.entries \in [Key -> Val \cup {Absent}]
      /\ old.items \in Seq(Val) /\ new.items \in Seq(Val)
      /\ new = [entries |-> new.entries, items |-> new.items]
  BY DEF State
<1>2. DOMAIN new.items = DOMAIN old.items
  BY <1>1
<1>3. /\ d.entries = [k \in {x \in Key : old.entries[x] # new.entries[x]} |-> new.entries[k]]
      /\ d.items = [i \in {j \in DOMAIN old.items : old.items[j] # new.items[j]} |-> new.items[i]]
  BY <1>2 DEF DiffOf, Item
<1>4. Over(d.entries, old.entries) = new.entries
  <2> HIDE DEF d
  <2>1. Over(d.entries, old.entries) =
          [k \in Key |-> IF k \in DOMAIN d.entries THEN d.entries[k] ELSE old.entries[k]]
    BY <1>1 DEF Over
  <2>2. \A k \in Key : (IF k \in DOMAIN d.entries THEN d.entries[k] ELSE old.entries[k]) = new.entries[k]
    BY <1>3
  <2>3. new.entries = [k \in Key |-> new.entries[k]]
    BY <1>1
  <2> QED
    BY <2>1, <2>2, <2>3
<1>5. Over(d.items, old.items) = new.items
  <2> HIDE DEF d
  <2> DEFINE D == DOMAIN new.items
  <2>1. Over(d.items, old.items) =
          [i \in D |-> IF i \in DOMAIN d.items THEN d.items[i] ELSE old.items[i]]
    BY <1>2 DEF Over
  <2>2. \A i \in D : (IF i \in DOMAIN d.items THEN d.items[i] ELSE old.items[i]) = new.items[i]
    BY <1>2, <1>3
  <2>3. new.items = [i \in D |-> new.items[i]]
    BY <1>1
  <2> HIDE DEF D
  <2> QED
    BY <2>1, <2>2, <2>3
<1> QED
  BY <1>1, <1>4, <1>5 DEF Apply

-----------------------------------------------------------------------------
LEMMA Initially == Init => IInv
<1> SUFFICES ASSUME Init PROVE IInv
  OBVIOUS
<1>2. area \in Updates
  BY BoundAssumption DEF Init, Updates, Contents
<1>3. TypeOK
  <2>1. /\ version = Len(history) /\ version = 0 /\ calls = 0 /\ 0 \in 0..MaxPublishes
        /\ 0 \in 0..(MaxPublishes + MaxStops) /\ 0 \in 0..MaxStops /\ history \in Seq(Documents)
    BY BoundAssumption DEF Init
  <2>2. /\ pstate \in Documents /\ lastState \in Documents /\ DOMAIN current = Subscribers
        /\ scopy \in [Subscribers -> Updates] /\ takers \subseteq Subscribers \cup Others
    BY <1>2 DEF Init
  <2>3. /\ snew \in [Subscribers -> 0..version] /\ currentVersion \in [Subscribers -> 0..version]
        /\ missed \in [Subscribers -> Nat] /\ total \in [Subscribers -> Nat]
    BY DEF Init
  <2>4. /\ spc \in [Subscribers -> {"idle", "blocked", "check", "load", "begin", "copy"}]
        /\ task \in [Subscribers -> {"poll", "wait", "woken", "background"}]
        /\ stype \in [Subscribers -> {"Full", "Diff"}]
        /\ polling \in [Subscribers -> BOOLEAN]
        /\ gap \in [Subscribers -> BOOLEAN] /\ raced \in [Subscribers -> BOOLEAN]
    BY DEF Init
  <2>5. /\ type \in {"Full", "Diff"} /\ pkind \in {"Full", "Diff"} /\ sem = 0 /\ stops = 0
        /\ ppc \in {"idle", "data", "header", "version", "post"}
    BY DEF Init
  <2>6. version <= calls
    BY <2>1
  <2>7. currentVersion \in [Subscribers -> 0..version] /\ snew \in [Subscribers -> 0..version]
    BY <2>3
  <2> QED
    BY <1>2, <2>1, <2>2, <2>3, <2>4, <2>5, <2>6, <2>7 DEF TypeOK
<1>4. Accounts /\ Writing
  BY DEF Init, Accounts, Writing, Begun
<1>5. Faithful(area)
  BY DEF Init, Faithful, Carries, StateOf
<1>6. AllFaithful
  BY <1>5 DEF Init, AllFaithful
<1>7. DriftsOnlyOverAGap /\ Adds
  BY DEF Init, DriftsOnlyOverAGap, Adds, StateOf
<1> QED
  BY <1>3, <1>4, <1>6, <1>7 DEF IInv

-----------------------------------------------------------------------------
(* The publisher's steps leave what the subscribers have. *)
Readers == <<spc, task, reading, result, polling, stops>>

(* The states of the versions there are stay what they are. *)
LEMMA HistoryKept ==
  ASSUME TypeOK, UNCHANGED <<version, history>> \/ WriteVersion
  PROVE  /\ \A v \in 0..version : StateOf(v)' = StateOf(v)
         /\ version' \in {version, version + 1} /\ version \in Nat
<1>1. CASE UNCHANGED <<version, history>>
  BY <1>1 DEF TypeOK, StateOf
<1>2. CASE WriteVersion
  <2>1. history' = Append(history, pstate) /\ history \in Seq(Documents) /\ version = Len(history)
        /\ version' = version + 1 /\ pstate \in Documents
    BY <1>2 DEF WriteVersion, TypeOK
  <2>2. \A v \in 1..version : history'[v] = history[v]
    BY <2>1
  <2> QED
    BY <2>1, <2>2 DEF StateOf
<1> QED
  BY <1>1, <1>2

(* What the subscribers have is not disturbed. *)
LEMMA PublisherKeeps ==
  ASSUME IInv, UNCHANGED Readers, UNCHANGED <<version, history>> \/ WriteVersion
  PROVE  DriftsOnlyOverAGap' /\ Adds'
<1> USE DEF IInv
<1>1. UNCHANGED <<spc, snew, current, currentVersion, missed, total, gap, raced>>
  BY DEF Readers, reading, result
<1>2. Adds'
  BY <1>1 DEF Adds
<1>3. ASSUME NEW s \in Subscribers, ~gap'[s]
      PROVE  (current[s] = StateOf(currentVersion[s]))'
  <2>1. current[s] = StateOf(currentVersion[s]) /\ currentVersion[s] \in 0..version
    BY <1>1, <1>3 DEF DriftsOnlyOverAGap, TypeOK
  <2>2. PICK v \in 0..version : v = currentVersion[s]
    BY <2>1
  <2>3. StateOf(v)' = StateOf(v)
    BY HistoryKept
  <2> QED
    BY <1>1, <2>1, <2>2, <2>3 DEF StateOf
<1> QED
  BY <1>2, <1>3 DEF DriftsOnlyOverAGap

LEMMA PublisherStep ==
  ASSUME IInv,
         \/ \E kind \in Kinds, new \in Documents : PublishBegin(kind, new) \/ PublishTooLarge(kind, new)
         \/ Write
  PROVE  IInv'
<1> USE DEF IInv
<1>1. UNCHANGED Readers
  BY DEF PublishBegin, PublishTooLarge, Write, WriteData, WriteHeader, WriteVersion, Post, Readers
<1>2. UNCHANGED <<version, history>> \/ WriteVersion
  BY DEF PublishBegin, PublishTooLarge, Write, WriteData, WriteHeader, Post, shared
<1>3. DriftsOnlyOverAGap' /\ Adds'
  BY <1>1, <1>2, PublisherKeeps
<1>4. UNCHANGED <<spc, task, stype, snew, scopy, current, currentVersion, missed, total,
                  polling, stops, gap, raced>>
  BY <1>1 DEF Readers, reading, result
<1>5. /\ version \in Nat /\ calls \in Nat /\ sem \in Nat /\ stops \in Nat
      /\ area.of \in Nat /\ area.done \in BOOLEAN
  BY BoundAssumption DEF TypeOK, Updates
<1>6. \A s \in Subscribers : scopy[s] \in Updates /\ scopy[s].of \in Nat
  BY DEF TypeOK, Updates
<1>7. ASSUME NEW kind \in Kinds, NEW new \in Documents, PublishBegin(kind, new)
      PROVE  IInv'
  <2>1. /\ ppc = "idle" /\ ppc' = "data" /\ pkind' = kind /\ pstate' = new
        /\ calls < MaxPublishes /\ calls' = calls + 1
        /\ area' = [of |-> version + 1, done |-> FALSE, kind |-> kind, body |-> NoState,
                    based |-> lastState = StateOf(version) /\ Len(lastState.items) = Len(new.items)]
        /\ UNCHANGED <<version, type, sem, takers, lastState, history>>
    BY <1>7 DEF PublishBegin, notify
  <2>2. version <= calls
    BY <2>1, <1>5 DEF Accounts
  <2>3. area' \in Updates
    <3>1. version + 1 \in 0..MaxPublishes /\ kind \in {"Full", "Diff"} /\ NoState \in Contents
      BY <2>1, <2>2, <1>5, BoundAssumption, KindAssumption DEF TypeOK, Contents
    <3> QED
      BY <2>1, <3>1 DEF Updates
  <2>4. TypeOK'
    BY <1>4, <2>1, <2>2, <2>3, <1>5, BoundAssumption, KindAssumption DEF TypeOK
  <2>5. Accounts'
    BY <1>4, <1>5, <2>1 DEF Accounts, Begun
  <2>6. Writing'
    BY <2>1 DEF Writing, StateOf
  <2>7. Faithful(area)'
    BY <2>1 DEF Faithful
  <2>8. ASSUME NEW s \in Subscribers PROVE Faithful(scopy[s])'
    BY <1>4, <2>1 DEF Faithful, Carries, AllFaithful, StateOf
  <2> QED
    BY <1>3, <2>4, <2>5, <2>6, <2>7, <2>8 DEF AllFaithful
<1>8. ASSUME NEW kind \in Kinds, NEW new \in Documents, PublishTooLarge(kind, new)
      PROVE  IInv'
  <2>1. /\ ppc = "idle" /\ calls < MaxPublishes /\ calls' = calls + 1 /\ lastState' = new
        /\ UNCHANGED <<version, type, area, sem, takers, ppc, pkind, pstate, history>>
    BY <1>8 DEF PublishTooLarge, shared, notify
  <2>2. TypeOK'
    BY <1>4, <2>1, <1>5, BoundAssumption DEF TypeOK
  <2>3. Accounts' /\ Writing'
    BY <1>4, <1>5, <2>1 DEF Accounts, Begun, Writing
  <2>4. AllFaithful'
    BY <1>4, <2>1 DEF AllFaithful, Faithful, Carries, StateOf
  <2> QED
    BY <1>3, <2>2, <2>3, <2>4
<1>9. CASE WriteData
  <2> DEFINE body == IF pkind = "Full" THEN pstate ELSE DiffOf(lastState, pstate)
  <2>1. /\ ppc = "data" /\ ppc' = "header"
        /\ area' = [area EXCEPT !.done = TRUE, !.body = body]
        /\ UNCHANGED <<version, type, sem, takers, pkind, pstate, lastState, calls, history>>
    BY <1>9 DEF WriteData, notify
  <2>2. body \in Contents
    <3>1. pstate \in Documents /\ lastState \in Documents
      BY DEF TypeOK
    <3> QED
      BY <3>1 DEF Contents
  <2>3. /\ area.of = version + 1 /\ ~area.done /\ area.kind = pkind
        /\ area.based => lastState = StateOf(version) /\ Len(lastState.items) = Len(pstate.items)
        /\ pstate \in Documents /\ lastState \in Documents
    BY <2>1 DEF Writing, TypeOK
  <2>4. /\ area' \in Updates /\ area'.of = version + 1 /\ area'.kind = pkind
        /\ area'.body = body /\ area'.based = area.based
    <3> HIDE DEF body
    <3> QED
      BY <2>1, <2>2, <2>3 DEF TypeOK, Updates
  <2>5. TypeOK'
    BY <1>4, <2>1, <2>4 DEF TypeOK
  <2>6. Accounts' /\ Writing'
    BY <1>4, <1>5, <2>1 DEF Accounts, Begun, Writing
  <2>7. Faithful(area)'
    <3>1. Carries(area, StateOf(version), pstate)'
      BY <2>1, <2>3, <2>4 DEF Carries, StateOf
    <3> QED
      BY <1>5, <2>1, <2>4, <3>1 DEF Faithful
  <2>8. ASSUME NEW s \in Subscribers PROVE Faithful(scopy[s])'
    BY <1>4, <2>1 DEF Faithful, Carries, AllFaithful, StateOf
  <2> QED
    BY <1>3, <2>5, <2>6, <2>7, <2>8 DEF AllFaithful
<1>10. CASE WriteHeader
  <2>1. /\ ppc = "header" /\ ppc' = "version" /\ type' = pkind
        /\ UNCHANGED <<version, area, sem, takers, pkind, pstate, lastState, calls, history>>
    BY <1>10 DEF WriteHeader, notify
  <2>2. TypeOK'
    BY <1>4, <2>1 DEF TypeOK
  <2>3. Accounts' /\ Writing'
    BY <1>4, <1>5, <2>1 DEF Accounts, Begun, Writing
  <2>4. AllFaithful'
    BY <1>4, <2>1 DEF AllFaithful, Faithful, Carries, StateOf
  <2> QED
    BY <1>3, <2>2, <2>3, <2>4
<1>11. CASE WriteVersion
  <2>1. /\ ppc = "version" /\ ppc' = "post" /\ version' = version + 1
        /\ history' = Append(history, pstate)
        /\ UNCHANGED <<type, area, sem, takers, pkind, pstate, lastState, calls>>
    BY <1>11 DEF WriteVersion, notify
  <2>2. /\ history' \in Seq(Documents) /\ Len(history') = Len(history) + 1
        /\ \A v \in 1..version : history'[v] = history[v]
        /\ history'[version + 1] = pstate
    BY <2>1 DEF TypeOK
  <2>3. TypeOK'
    <3>1. snew' \in [Subscribers -> 0..version'] /\ currentVersion' \in [Subscribers -> 0..version']
      BY <1>4, <1>5, <2>1 DEF TypeOK
    <3>2. version' <= calls'
      BY <1>5, <2>1 DEF Accounts, Begun
    <3> QED
      BY <1>4, <2>1, <2>2, <3>1, <3>2 DEF TypeOK
  <2>4. Accounts' /\ Writing'
    BY <1>4, <1>5, <2>1 DEF Accounts, Begun, Writing
  <2>5. ASSUME NEW a \in Updates, Faithful(a)
        PROVE  Faithful(a)'
    <3>1. a.of \in Nat
      BY DEF Updates
    <3>2. \A v \in 0..version : StateOf(v)' = StateOf(v)
      BY <2>2 DEF StateOf
    <3>3. \A v \in Nat : v = version + 1 => StateOf(v)' = pstate
      BY <1>5, <2>2 DEF StateOf
    <3>4. CASE ~a.done
      BY <3>4 DEF Faithful
    <3>5. CASE a.done /\ a.of <= version /\ Carries(a, StateOf(a.of - 1), StateOf(a.of))
      <4>1. a.kind = "Diff" => a.of - 1 \in 0..version
        BY <1>5, <2>5, <3>1, <3>5 DEF Faithful
      <4>2. Carries(a, StateOf(a.of - 1), StateOf(a.of))'
        BY <1>5, <3>1, <3>2, <3>5, <4>1 DEF Carries
      <4>3. a.of <= version'
        BY <1>5, <2>1, <3>1, <3>5
      <4> QED
        BY <2>5, <3>5, <4>2, <4>3 DEF Faithful
    <3>6. CASE a.done /\ a.of = version + 1 /\ Carries(a, StateOf(version), pstate)
      <4>1. a.of - 1 = version
        BY <1>5, <3>6
      <4>2. StateOf(a.of - 1)' = StateOf(version)
        BY <1>5, <3>2, <4>1
      <4>3. StateOf(a.of)' = pstate
        BY <1>5, <3>1, <3>3, <3>6
      <4>4. Carries(a, StateOf(a.of - 1), StateOf(a.of))'
        BY <3>6, <4>2, <4>3 DEF Carries
      <4> QED
        BY <1>5, <2>1, <2>5, <3>6, <4>4 DEF Faithful
    <3> QED
      BY <2>5, <3>4, <3>5, <3>6 DEF Faithful
  <2>6. Faithful(area)'
    <3>1. Faithful(area) /\ area \in Updates /\ area' = area
      BY <2>1 DEF AllFaithful, TypeOK
    <3> QED
      BY <2>5, <3>1 DEF Faithful, Carries
  <2>7. ASSUME NEW s \in Subscribers PROVE Faithful(scopy[s])'
    <3>1. Faithful(scopy[s]) /\ scopy[s] \in Updates /\ scopy'[s] = scopy[s]
      BY <1>4, <1>6 DEF AllFaithful
    <3> QED
      BY <2>5, <3>1 DEF Faithful, Carries
  <2> QED
    BY <1>3, <2>3, <2>4, <2>6, <2>7 DEF AllFaithful
<1>12. CASE Post
  <2>1. /\ ppc = "post" /\ ppc' = "idle" /\ sem' = sem + 1 /\ takers' = {} /\ lastState' = pstate
        /\ UNCHANGED <<version, type, area, pkind, pstate, calls, history>>
    BY <1>12 DEF Post, shared
  <2>2. sem + 1 \in 0..(MaxPublishes + MaxStops)
    <3>1. sem + 1 <= calls + stops
      BY <2>1, <1>5 DEF Accounts
    <3>2. calls \in 0..MaxPublishes /\ stops \in 0..MaxStops
      BY DEF TypeOK
    <3> QED
      BY <1>5, <3>1, <3>2, BoundAssumption
  <2>3. TypeOK'
    BY <1>4, <2>1, <2>2 DEF TypeOK
  <2>4. Accounts' /\ Writing'
    BY <1>4, <1>5, <2>1 DEF Accounts, Begun, Writing
  <2>5. AllFaithful'
    BY <1>4, <2>1 DEF AllFaithful, Faithful, Carries, StateOf
  <2> QED
    BY <1>3, <2>3, <2>4, <2>5
<1> QED
  BY <1>7, <1>8, <1>9, <1>10, <1>11, <1>12 DEF Write

-----------------------------------------------------------------------------
(* The subscribers' steps leave the publisher and the shared area alone. *)
LEMMA SubscriberKeeps ==
  ASSUME IInv, UNCHANGED <<shared, publisher, history>>, scopy' = scopy
  PROVE  Writing' /\ AllFaithful'
BY DEF IInv, shared, publisher, Writing, AllFaithful, Faithful, Carries, StateOf

(* Calls, waits and the background thread: only who reads next, and the count of
   the semaphore. *)
LEMMA CallStep ==
  ASSUME IInv, NEW s \in Subscribers,
         \/ Poll(s) \/ WaitBegin(s) \/ WaitAcquire(s) \/ WaitTimeout(s)
         \/ StartPolling(s) \/ BackgroundAcquire(s) \/ StopPolling(s)
  PROVE  IInv'
<1> USE DEF IInv
<1> DEFINE Call == \/ Poll(s) \/ WaitBegin(s) \/ WaitAcquire(s) \/ WaitTimeout(s)
                   \/ StartPolling(s) \/ BackgroundAcquire(s) \/ StopPolling(s)
<1>1. UNCHANGED <<shared, publisher, history, reading, result>>
  BY DEF Poll, WaitBegin, WaitAcquire, WaitTimeout, StartPolling, BackgroundAcquire, StopPolling,
         Take, Leave, Enter
<1>2. UNCHANGED <<version, type, area, ppc, pkind, pstate, lastState, calls, stype, snew, scopy,
                  current, currentVersion, missed, total, gap, raced>>
  BY <1>1 DEF shared, publisher, reading, result
<1>3. Writing' /\ AllFaithful' /\ DriftsOnlyOverAGap'
  BY <1>1, <1>2, SubscriberKeeps DEF DriftsOnlyOverAGap, StateOf
<1>4. /\ spc' \in [Subscribers -> {"idle", "blocked", "check", "load", "begin", "copy"}]
      /\ \A r \in Subscribers : spc'[r] = spc[r] \/ spc'[r] \in {"check", "idle"}
      /\ \A r \in Subscribers : spc'[r] = spc[r] \/ spc[r] \in {"idle", "blocked"}
  BY ZenonT(60) DEF Poll, WaitBegin, WaitAcquire, WaitTimeout, StartPolling, BackgroundAcquire, StopPolling,
         Enter, TypeOK
<1>5. /\ task' \in [Subscribers -> {"poll", "wait", "woken", "background"}]
      /\ polling' \in [Subscribers -> BOOLEAN]
  BY ZenonT(60) DEF Poll, WaitBegin, WaitAcquire, WaitTimeout, StartPolling, BackgroundAcquire, StopPolling,
         Enter, TypeOK
<1>6. Adds'
  BY <1>2, <1>4 DEF Adds
<1>7. sem \in Nat /\ stops \in Nat /\ calls \in Nat /\ version \in Nat
  BY BoundAssumption DEF TypeOK
<1>8. \/ /\ sem' \in Nat /\ sem' <= sem /\ stops' = stops
      \/ sem' \in {sem, sem + 1} /\ stops' = stops + 1 /\ stops < MaxStops
  <2>1. CASE Poll(s) \/ WaitBegin(s) \/ WaitTimeout(s) \/ StartPolling(s)
    BY <1>7, <2>1 DEF Poll, WaitBegin, WaitTimeout, StartPolling, Enter, notify
  <2>2. CASE WaitAcquire(s) \/ BackgroundAcquire(s)
    BY <1>7, <2>2 DEF WaitAcquire, BackgroundAcquire, Take, Enter
  <2>3. CASE StopPolling(s)
    <3>1. PICK left \in {0, 1} : sem' = sem + left
      BY <2>3 DEF StopPolling, Leave
    <3>2. stops' = stops + 1 /\ stops < MaxStops
      BY <2>3 DEF StopPolling, Leave
    <3> QED
      BY <1>7, <3>1, <3>2
  <2> QED
    BY <2>1, <2>2, <2>3
<1>9. Accounts'
  BY <1>2, <1>7, <1>8 DEF Accounts, Begun
<1>10. sem' \in 0..(MaxPublishes + MaxStops) /\ stops' \in 0..MaxStops
  BY <1>2, <1>7, <1>8, <1>9, BoundAssumption, SMTT(30) DEF Accounts, TypeOK
<1>11. takers' \subseteq Subscribers \cup Others
  BY DEF Poll, WaitBegin, WaitAcquire, WaitTimeout, StartPolling, BackgroundAcquire, StopPolling,
         Take, Leave, Enter, notify, TypeOK
<1>12. TypeOK'
  BY <1>1, <1>2, <1>4, <1>5, <1>10, <1>11 DEF TypeOK
<1> QED
  BY <1>3, <1>6, <1>9, <1>12

(* The other subscribers: only the count of the semaphore. *)
LEMMA OtherStep ==
  ASSUME IInv, OtherStops \/ \E o \in Others : OtherTakes(o)
  PROVE  IInv'
<1> USE DEF IInv
<1>1. /\ UNCHANGED <<shared, publisher, history, spc, task, reading, result, polling>>
      /\ takers' \subseteq Subscribers \cup Others
  BY DEF OtherStops, OtherTakes, Take, Leave, TypeOK
<1>2. UNCHANGED <<version, type, area, ppc, pkind, pstate, lastState, calls, stype, snew, scopy,
                  current, currentVersion, missed, total, gap, raced>>
  BY <1>1 DEF shared, publisher, reading, result
<1>3. sem \in Nat /\ stops \in Nat /\ calls \in Nat /\ version \in Nat
  BY BoundAssumption DEF TypeOK
<1>4. \/ /\ sem' \in Nat /\ sem' <= sem /\ stops' = stops
      \/ sem' \in {sem, sem + 1} /\ stops' = stops + 1 /\ stops < MaxStops
  <2>1. CASE \E o \in Others : OtherTakes(o)
    BY <1>3, <2>1 DEF OtherTakes, Take
  <2>2. CASE OtherStops
    <3>1. PICK left \in {0, 1} : sem' = sem + left
      BY <2>2 DEF OtherStops, Leave
    <3> QED
      BY <1>3, <2>2, <3>1 DEF OtherStops, Leave
  <2> QED
    BY <2>1, <2>2
<1>5. Accounts'
  BY <1>2, <1>3, <1>4 DEF Accounts, Begun
<1>6. sem' \in 0..(MaxPublishes + MaxStops) /\ stops' \in 0..MaxStops
  BY <1>2, <1>3, <1>4, <1>5, BoundAssumption, SMTT(30) DEF Accounts, TypeOK
<1>7. TypeOK'
  BY <1>1, <1>2, <1>6 DEF TypeOK
<1>8. Writing' /\ AllFaithful' /\ DriftsOnlyOverAGap' /\ Adds'
  BY <1>1, <1>2, SubscriberKeeps DEF DriftsOnlyOverAGap, Adds, StateOf
<1> QED
  BY <1>5, <1>7, <1>8

(* A subscriber takes new for the state of the version it has read. *)
LEMMA Taken ==
  ASSUME IInv, NEW s \in Subscribers, NEW new, TakeOver(s, new),
         UNCHANGED reading, spc[s] = "copy",
         gap' \in [Subscribers -> BOOLEAN], raced' \in [Subscribers -> BOOLEAN],
         \A r \in Subscribers \ {s} : gap'[r] = gap[r] /\ raced'[r] = raced[r],
         raced[s] => raced'[s],
         ~gap'[s] => new = StateOf(snew[s])
  PROVE  IInv'
<1> USE DEF IInv
<1>1. /\ current' = [current EXCEPT ![s] = new]
      /\ currentVersion' = [currentVersion EXCEPT ![s] = snew[s]]
      /\ total' = [total EXCEPT ![s] = @ + 1]
      /\ UNCHANGED missed
      /\ UNCHANGED <<shared, publisher, history, sem, takers, task, polling, stops, reading>>
      /\ spc' = [spc EXCEPT ![s] = "idle"]
  BY DEF TakeOver, Return, notify
<1>2. UNCHANGED <<version, type, area, ppc, pkind, pstate, lastState, calls, stype, snew, scopy>>
  BY <1>1 DEF shared, publisher, reading
<1>3. Writing' /\ AllFaithful' /\ Accounts'
  BY <1>1, <1>2, SubscriberKeeps DEF Accounts
<1>4. snew[s] \in 0..version /\ total[s] \in Nat /\ missed[s] \in Nat /\ version \in Nat
  BY DEF TypeOK
<1>5. TypeOK'
  BY <1>1, <1>2, <1>4 DEF TypeOK
<1>6. DriftsOnlyOverAGap'
  <2>1. ASSUME NEW r \in Subscribers, ~gap'[r]
        PROVE  (current[r] = StateOf(currentVersion[r]))'
    <3>1. CASE r = s
      BY <1>1, <1>2, <2>1, <3>1 DEF StateOf, TypeOK
    <3>2. CASE r # s
      BY <1>1, <1>2, <2>1, <3>2 DEF StateOf, TypeOK, DriftsOnlyOverAGap
    <3> QED
      BY <3>1, <3>2
  <2> QED
    BY <2>1 DEF DriftsOnlyOverAGap
<1>7. Adds'
  <2>1. ASSUME NEW r \in Subscribers, ~raced'[r]
        PROVE  (total[r] + missed[r] = IF spc[r] \in {"load", "begin", "copy"} THEN snew[r] - 1
                                                                          ELSE currentVersion[r])'
    <3>1. CASE r = s
      <4>1. total[s] + missed[s] = snew[s] - 1
        BY <2>1, <3>1 DEF Adds
      <4>2. /\ total'[s] = total[s] + 1 /\ missed'[s] = missed[s]
            /\ spc'[s] = "idle" /\ currentVersion'[s] = snew[s]
        BY <1>1 DEF TypeOK
      <4> QED
        BY <1>4, <3>1, <4>1, <4>2
    <3>2. CASE r # s
      BY <1>1, <1>2, <2>1, <3>2 DEF TypeOK, Adds
    <3> QED
      BY <3>1, <3>2
  <2> QED
    BY <2>1 DEF Adds
<1> QED
  BY <1>3, <1>5, <1>6, <1>7

LEMMA CheckStep ==
  ASSUME IInv, NEW s \in Subscribers, Check(s)
  PROVE  IInv'
<1> USE DEF IInv
<1>1. UNCHANGED <<shared, publisher, history, sem, takers, task, polling, stops>>
  BY DEF Check, CheckNothing, CheckUpdate, LoadHeader, CopyBegin, DecodeWhole, DecodeTorn, TakeOver, Return,
         notify
<1>2. UNCHANGED <<version, type, area, ppc, pkind, pstate, lastState, calls>>
  BY <1>1 DEF shared, publisher
<1>3. Accounts'
  BY <1>1, <1>2 DEF Accounts
<1>4. /\ version \in Nat /\ snew[s] \in 0..version /\ currentVersion[s] \in 0..version
      /\ total[s] \in Nat /\ missed[s] \in Nat
  BY DEF TypeOK
<1>5. CASE CheckNothing(s)
  <2>1. /\ UNCHANGED <<stype, snew, scopy, current, currentVersion, missed, total, gap, raced>>
        /\ spc[s] = "check"
        /\ \E to \in {"idle", "blocked"} : spc' = [spc EXCEPT ![s] = to]
    BY <1>5 DEF CheckNothing, Return, reading, result
  <2>2. TypeOK'
    BY <1>1, <1>2, <2>1, SMTT(30) DEF TypeOK
  <2>3. Writing' /\ AllFaithful' /\ DriftsOnlyOverAGap'
    BY <1>1, <2>1, SubscriberKeeps DEF DriftsOnlyOverAGap, StateOf
  <2>4. Adds'
    BY <2>1 DEF Adds, TypeOK
  <2> QED
    BY <1>3, <2>2, <2>3, <2>4
<1>6. CASE CheckUpdate(s)
  <2>1. /\ spc[s] = "check" /\ version # currentVersion[s]
        /\ missed' = [missed EXCEPT ![s] = @ + (version - currentVersion[s] - 1)]
        /\ snew' = [snew EXCEPT ![s] = version]
        /\ spc' = [spc EXCEPT ![s] = "load"]
        /\ UNCHANGED <<stype, scopy, current, currentVersion, total, gap, raced>>
    BY <1>6 DEF CheckUpdate
  <2>2. version - currentVersion[s] - 1 \in Nat
    BY <1>4, <2>1
  <2>3. missed' \in [Subscribers -> Nat]
    BY <1>4, <2>1, <2>2 DEF TypeOK
  <2>4. TypeOK'
    BY <1>1, <1>2, <1>4, <2>1, <2>3, SMTT(30) DEF TypeOK
  <2>5. Writing' /\ AllFaithful' /\ DriftsOnlyOverAGap'
    BY <1>1, <2>1, SubscriberKeeps DEF DriftsOnlyOverAGap, StateOf
  <2>6. ASSUME NEW r \in Subscribers, ~raced'[r]
        PROVE  (total[r] + missed[r] = IF spc[r] \in {"load", "begin", "copy"} THEN snew[r] - 1
                                                                          ELSE currentVersion[r])'
    <3>1. CASE r = s
      <4>1. total[s] + missed[s] = currentVersion[s]
        BY <2>1, <2>6, <3>1 DEF Adds
      <4>2. /\ total'[s] = total[s] /\ missed'[s] = missed[s] + (version - currentVersion[s] - 1)
            /\ spc'[s] = "load" /\ snew'[s] = version
        BY <2>1 DEF TypeOK
      <4> QED
        BY <1>4, <3>1, <4>1, <4>2
    <3>2. CASE r # s
      BY <2>1, <2>6, <3>2 DEF TypeOK, Adds
    <3> QED
      BY <3>1, <3>2
  <2> QED
    BY <1>3, <2>4, <2>5, <2>6 DEF Adds
<1>7. CASE LoadHeader(s)
  <2>1. /\ spc[s] = "load"
        /\ stype' = [stype EXCEPT ![s] = type]
        /\ snew' = [snew EXCEPT ![s] = version]
        /\ raced' = [raced EXCEPT ![s] = @ \/ snew[s] # version]
        /\ spc' = [spc EXCEPT ![s] = "begin"]
        /\ UNCHANGED <<scopy, current, currentVersion, missed, total, gap>>
    BY <1>7 DEF LoadHeader
  <2>2. raced' \in [Subscribers -> BOOLEAN]
    BY <2>1 DEF TypeOK
  <2>3. TypeOK'
    BY <1>1, <1>2, <1>4, <2>1, <2>2 DEF TypeOK
  <2>4. Writing' /\ AllFaithful' /\ DriftsOnlyOverAGap'
    BY <1>1, <2>1, SubscriberKeeps DEF DriftsOnlyOverAGap, StateOf
  <2>5. ASSUME NEW r \in Subscribers, ~raced'[r]
        PROVE  (total[r] + missed[r] = IF spc[r] \in {"load", "begin", "copy"} THEN snew[r] - 1
                                                                          ELSE currentVersion[r])'
    <3>1. CASE r = s
      BY <1>4, <2>1, <2>5, <3>1 DEF TypeOK, Adds
    <3>2. CASE r # s
      BY <2>1, <2>5, <3>2 DEF TypeOK, Adds
    <3> QED
      BY <3>1, <3>2
  <2> QED
    BY <1>3, <2>3, <2>4, <2>5 DEF Adds
<1>8. CASE CopyBegin(s)
  <2>1. /\ spc[s] = "begin"
        /\ scopy' = [scopy EXCEPT ![s] = area]
        /\ spc' = [spc EXCEPT ![s] = "copy"]
        /\ UNCHANGED <<stype, snew, current, currentVersion, missed, total, gap, raced>>
    BY <1>8 DEF CopyBegin, result
  <2>2. TypeOK'
    BY <1>1, <1>2, <2>1, SMTT(30) DEF TypeOK
  <2>3. AllFaithful'
    BY <1>1, <1>2, <2>1 DEF AllFaithful, Faithful, Carries, StateOf, TypeOK
  <2>4. Writing' /\ DriftsOnlyOverAGap' /\ Adds'
    BY <1>1, <1>2, <2>1 DEF Writing, DriftsOnlyOverAGap, Adds, StateOf, TypeOK
  <2> QED
    BY <1>3, <2>2, <2>3, <2>4
<1>9. CASE DecodeWhole(s)
  <2> DEFINE new == IF stype[s] = "Full" THEN scopy[s].body ELSE Apply(current[s], scopy[s].body)
  <2>1. /\ spc[s] = "copy" /\ scopy[s].done /\ scopy[s].kind = stype[s]
        /\ TakeOver(s, new)
        /\ gap' = [gap EXCEPT ![s] = ~Fits(s)]
        /\ raced' = [raced EXCEPT ![s] = @ \/ scopy[s].of # snew[s]]
        /\ UNCHANGED reading
    BY <1>9 DEF DecodeWhole, Whole
  <2>2. gap' \in [Subscribers -> BOOLEAN] /\ raced' \in [Subscribers -> BOOLEAN]
    BY <2>1 DEF TypeOK
  <2>3. /\ gap'[s] = ~Fits(s)
        /\ \A r \in Subscribers \ {s} : gap'[r] = gap[r] /\ raced'[r] = raced[r]
        /\ raced[s] => raced'[s]
    BY <2>1 DEF TypeOK
  <2>4. ASSUME Fits(s) PROVE new = StateOf(snew[s])
    <3>1. scopy[s].of = snew[s] /\ scopy[s].kind \in {"Full", "Diff"}
      BY <2>4 DEF Fits, TypeOK, Updates
    <3>2. Carries(scopy[s], StateOf(snew[s] - 1), StateOf(snew[s]))
      BY <1>4, <2>1, <3>1 DEF AllFaithful, Faithful
    <3>3. CASE stype[s] = "Full"
      BY <2>1, <3>2, <3>3 DEF Carries
    <3>4. CASE stype[s] = "Diff"
      <4>1. scopy[s].based /\ ~gap[s] /\ snew[s] = currentVersion[s] + 1
        BY <2>1, <2>4, <3>4 DEF Fits
      <4>2. current[s] = StateOf(snew[s] - 1)
        BY <1>4, <4>1 DEF DriftsOnlyOverAGap
      <4>3. /\ scopy[s].body = DiffOf(StateOf(snew[s] - 1), StateOf(snew[s]))
            /\ Len(StateOf(snew[s] - 1).items) = Len(StateOf(snew[s]).items)
            /\ StateOf(snew[s] - 1) \in Documents /\ StateOf(snew[s]) \in Documents
        BY <2>1, <3>2, <3>4, <4>1 DEF Carries
      <4>4. Apply(current[s], scopy[s].body) = StateOf(snew[s])
        BY <4>2, <4>3, DocumentsAssumption, Applied
      <4> QED
        BY <3>4, <4>4
    <3> QED
      BY <2>1, <3>1, <3>3, <3>4
  <2> HIDE DEF new
  <2> QED
    BY <2>1, <2>2, <2>3, <2>4, Taken
<1>10. CASE DecodeTorn(s)
  <2>1. spc[s] = "copy" /\ raced' = [raced EXCEPT ![s] = TRUE] /\ UNCHANGED reading
    BY <1>10 DEF DecodeTorn
  <2>2. /\ raced' \in [Subscribers -> BOOLEAN] /\ raced'[s]
        /\ \A r \in Subscribers \ {s} : raced'[r] = raced[r]
    BY <2>1 DEF TypeOK
  <2>3. CASE TakeOver(s, Garbage) /\ gap' = [gap EXCEPT ![s] = TRUE]
    <3>1. /\ gap' \in [Subscribers -> BOOLEAN] /\ gap'[s]
          /\ \A r \in Subscribers \ {s} : gap'[r] = gap[r]
      BY <2>3 DEF TypeOK
    <3> QED
      BY <2>1, <2>2, <2>3, <3>1, Taken
  <2>4. CASE Return(s, FALSE) /\ UNCHANGED <<current, currentVersion, missed, total, gap>>
    <3>1. \E to \in {"idle", "blocked"} : spc' = [spc EXCEPT ![s] = to]
      BY <2>4 DEF Return
    <3>2. UNCHANGED <<stype, snew, scopy, current, currentVersion, missed, total, gap>>
      BY <2>1, <2>4 DEF reading
    <3>3. TypeOK'
      BY <1>1, <1>2, <2>2, <3>1, <3>2 DEF TypeOK
    <3>4. Writing' /\ AllFaithful' /\ DriftsOnlyOverAGap'
      BY <1>1, <3>2, SubscriberKeeps DEF DriftsOnlyOverAGap, StateOf
    <3>5. Adds'
      BY <2>2, <3>1, <3>2 DEF Adds, TypeOK
    <3> QED
      BY <1>3, <3>3, <3>4, <3>5
  <2> QED
    BY <1>10, <2>3, <2>4 DEF DecodeTorn
<1> QED
  BY <1>5, <1>6, <1>7, <1>8, <1>9, <1>10 DEF Check

-----------------------------------------------------------------------------
LEMMA Step == IInv /\ [Next]_vars => IInv'
<1> SUFFICES ASSUME IInv, [Next]_vars PROVE IInv'
  OBVIOUS
<1>1. CASE UNCHANGED vars
  <2>1. UNCHANGED Readers /\ UNCHANGED <<version, history>>
    BY <1>1 DEF vars, Readers, shared
  <2>2. DriftsOnlyOverAGap' /\ Adds'
    BY <2>1, PublisherKeeps
  <2> QED
    BY <1>1, <2>2 DEF vars, shared, notify, publisher, reading, result, IInv, TypeOK, Accounts, Writing,
                      AllFaithful, Faithful, Carries, StateOf
<1> QED
  BY <1>1, PublisherStep, CallStep, OtherStep, CheckStep DEF Next

LEMMA Invariant == Spec => []IInv
BY Initially, Step, PTL DEF Spec

(* The state of publisher and subscribers keeps its type, and the count of the
   named semaphore its bound: what was published and what was stopped
   (shared_state.cpp 229-274, 418-473, 580-600). *)
THEOREM TypeCorrect == Spec => []TypeOK
<1>1. IInv => TypeOK
  BY DEF IInv
<1> QED
  BY <1>1, Invariant, PTL

(* A subscriber's state is the one published under its version, unless its last
   read was torn or took a difference that does not start from what it had or that
   resizes its vector; the next undisturbed full update puts that right
   (shared_state.cpp 418-471, 956-975). *)
THEOREM Drifts == Spec => []DriftsOnlyOverAGap
<1>1. IInv => DriftsOnlyOverAGap
  BY DEF IInv
<1> QED
  BY <1>1, Invariant, PTL

(* As long as no write overtook a read, every version is accounted for as read or
   as missed (shared_state.cpp 434-437, 462-463). *)
THEOREM AddUp == Spec => []VersionsAddUp
<1>1. IInv => VersionsAddUp
  BY DEF IInv, Adds, VersionsAddUp
<1> QED
  BY <1>1, Invariant, PTL

-----------------------------------------------------------------------------
(* Values that are made from those of a set.  Closed(V): each of V is, so that
   what is read below one of them is in V again. *)
Element == Keys \cup Nat

\* What a map has entries for.
KeySets == {K \in SUBSET Keys : IsFiniteSet(K)}

LEMMA KeySetsAre ==
  /\ {} \in KeySets /\ \A K \in KeySets : K \subseteq Keys /\ IsFiniteSet(K)
  /\ \A K \in KeySets, e \in Keys : {e} \in KeySets /\ K \cup {e} \in KeySets /\ K \ {e} \in KeySets
<1>1. IsFiniteSet({}) /\ \A e : IsFiniteSet({e})
  BY FS_EmptySet, FS_Singleton
<1>2. \A K, e : IsFiniteSet(K) => IsFiniteSet(K \cup {e}) /\ IsFiniteSet(K \ {e})
  BY FS_AddElement, FS_RemoveElement
<1> QED
  BY <1>1, <1>2 DEF KeySets

ValuesOver(V) ==
  {Null} \cup {Leaf(x) : x \in Leaves}
    \cup {MapOf(f) : f \in UNION {[K -> V] : K \in KeySets}}
    \cup {VectorOf(s) : s \in Seq(V)}

Closed(V) ==
  /\ {Null, MapOf(<<>>), VectorOf(<<>>)} \subseteq V
  /\ V \subseteq ValuesOver(V)

(* What a value over V is, and what it takes to be one *)
LEMMA ValueIs ==
  ASSUME NEW V, NEW v
  PROVE  v \in ValuesOver(V)
           <=> \/ v = Null
               \/ \E x \in Leaves : v = Leaf(x)
               \/ \E K \in KeySets : \E f \in [K -> V] : v = MapOf(f)
               \/ \E s \in Seq(V) : v = VectorOf(s)
BY Zenon DEF ValuesOver

(* The kinds, and the elements of each *)
LEMMA KindsAre ==
  /\ Null.kind = "null" /\ Elements(Null) = {}
  /\ \A x : Leaf(x).kind = "leaf" /\ Elements(Leaf(x)) = {}
  /\ \A f : MapOf(f).kind = "map" /\ MapOf(f).entries = f /\ Elements(MapOf(f)) = DOMAIN f
  /\ \A s : /\ VectorOf(s).kind = "vector" /\ VectorOf(s).items = s
            /\ Elements(VectorOf(s)) = 0 .. (Len(s) - 1)
BY DEF Null, Leaf, MapOf, VectorOf, Elements

(* What each reads *)
LEMMA ReadsAre ==
  /\ \A e : At(Null, e) = Null
  /\ \A x, e : At(Leaf(x), e) = Null
  /\ \A f, e : At(MapOf(f), e) = IF e \in DOMAIN f THEN f[e] ELSE Null
  /\ \A s, e : At(VectorOf(s), e) = IF e \in 0 .. (Len(s) - 1) THEN s[e + 1] ELSE Null
<1>1. \A e : At(Null, e) = Null
  BY KindsAre DEF At
<1>2. \A x, e : At(Leaf(x), e) = Null
  BY KindsAre DEF At
<1>3. \A f, e : At(MapOf(f), e) = IF e \in DOMAIN f THEN f[e] ELSE Null
  BY KindsAre DEF At
<1>4. \A s, e : At(VectorOf(s), e) = IF e \in 0 .. (Len(s) - 1) THEN s[e + 1] ELSE Null
  BY KindsAre DEF At
<1> QED
  BY <1>1, <1>2, <1>3, <1>4

(* A larger set has more values over it, and a value over a closed set may join. *)
LEMMA ValuesGrow ==
  ASSUME NEW V, NEW W, V \subseteq W
  PROVE  ValuesOver(V) \subseteq ValuesOver(W)
<1> SUFFICES ASSUME NEW v \in ValuesOver(V) PROVE v \in ValuesOver(W)
  OBVIOUS
<1>1. ASSUME NEW K \in KeySets, NEW f \in [K -> V], v = MapOf(f) PROVE v \in ValuesOver(W)
  <2>1. f \in [K -> W]
    OBVIOUS
  <2> QED
    BY <1>1, <2>1, ValueIs, Zenon
<1>2. ASSUME NEW s \in Seq(V), v = VectorOf(s) PROVE v \in ValuesOver(W)
  <2>1. s \in Seq(W)
    OBVIOUS
  <2> QED
    BY <1>2, <2>1, ValueIs, Zenon
<1>3. ASSUME NEW x \in Leaves, v = Leaf(x) PROVE v \in ValuesOver(W)
  BY <1>3, ValueIs, Zenon
<1>4. ASSUME v = Null PROVE v \in ValuesOver(W)
  BY <1>4, ValueIs, Zenon
<1>5. \/ v = Null
      \/ \E x \in Leaves : v = Leaf(x)
      \/ \E K \in KeySets : \E f \in [K -> V] : v = MapOf(f)
      \/ \E s \in Seq(V) : v = VectorOf(s)
  BY ValueIs, Zenon
<1> QED
  BY <1>1, <1>2, <1>3, <1>4, <1>5, Zenon

LEMMA Joined ==
  ASSUME NEW V, Closed(V), NEW w \in ValuesOver(V)
  PROVE  Closed(V \cup {w})
<1>1. V \subseteq V \cup {w}
  OBVIOUS
<1>2. ValuesOver(V) \subseteq ValuesOver(V \cup {w})
  BY <1>1, ValuesGrow
<1> QED
  BY <1>2 DEF Closed

(* Elements are keys of maps and indices of vectors; what stands there is a value. *)
LEMMA AtIs ==
  ASSUME NEW V, Closed(V), NEW v \in V
  PROVE  /\ \A e : At(v, e) \in V /\ (e \notin Elements(v) => At(v, e) = Null)
         /\ Elements(v) \subseteq Element
         /\ v.kind = "map" => Elements(v) \subseteq Keys
         /\ v.kind # "map" => Elements(v) \subseteq Nat
         /\ IsFiniteSet(Elements(v))
<1>1. v \in ValuesOver(V) /\ Null \in V
  BY DEF Closed
<1>2. \A e : e \notin Elements(v) => At(v, e) = Null
  BY DEF At
<1>4. ASSUME NEW x \in Leaves, v = Leaf(x)
      PROVE  (\A e : At(v, e) \in V) /\ Elements(v) = {}
  BY <1>1, <1>4, KindsAre, ReadsAre
<1>5. ASSUME NEW K \in KeySets, NEW f \in [K -> V], v = MapOf(f)
      PROVE  /\ (\A e : At(v, e) \in V) /\ Elements(v) \subseteq Keys /\ v.kind = "map"
             /\ IsFiniteSet(Elements(v))
  <2>1. \A e : At(v, e) = IF e \in K THEN f[e] ELSE Null
    BY <1>5, ReadsAre
  <2> QED
    BY <1>1, <1>5, <2>1, KindsAre, KeySetsAre
<1>6. ASSUME NEW s \in Seq(V), v = VectorOf(s)
      PROVE  /\ (\A e : At(v, e) \in V) /\ Elements(v) \subseteq Nat /\ v.kind # "map"
             /\ IsFiniteSet(Elements(v))
  <2>1. \A e : At(v, e) = IF e \in 0 .. (Len(s) - 1) THEN s[e + 1] ELSE Null
    BY <1>6, ReadsAre
  <2>2. Elements(v) = 0 .. (Len(s) - 1) /\ v.kind = "vector"
    BY <1>6, KindsAre
  <2>3. Len(s) \in Nat /\ \A i \in 0 .. (Len(s) - 1) : s[i + 1] \in V /\ i \in Nat
    OBVIOUS
  <2>4. IsFiniteSet(0 .. (Len(s) - 1))
    BY <2>3, FS_Interval
  <2> QED
    BY <1>1, <2>1, <2>2, <2>3, <2>4
<1>7. /\ \A e : At(v, e) \in V
      /\ \/ Elements(v) = {}
         \/ v.kind = "map" /\ Elements(v) \subseteq Keys
         \/ v.kind # "map" /\ Elements(v) \subseteq Nat
      /\ IsFiniteSet(Elements(v))
  <2>1. ASSUME v = Null PROVE (\A e : At(v, e) \in V) /\ Elements(v) = {}
    BY <1>1, <2>1, KindsAre, ReadsAre
  <2>5. \/ v = Null
        \/ \E x \in Leaves : v = Leaf(x)
        \/ \E K \in KeySets : \E f \in [K -> V] : v = MapOf(f)
        \/ \E s \in Seq(V) : v = VectorOf(s)
    BY <1>1, ValueIs, Zenon
  <2> QED
    BY <1>4, <1>5, <1>6, <2>1, <2>5, FS_EmptySet, Zenon
<1> QED
  BY <1>2, <1>7 DEF Element

(* The four kinds of value *)
LEMMA Shapes ==
  ASSUME NEW V, Closed(V), NEW v \in V
  PROVE  \/ v = Null
         \/ \E x \in Leaves : v = Leaf(x)
         \/ \E K \in KeySets : \E f \in [K -> V] : v = MapOf(f)
         \/ \E s \in Seq(V) : v = VectorOf(s)
<1>1. v \in ValuesOver(V)
  BY DEF Closed
<1> QED
  BY <1>1, ValueIs, Zenon

(* r reads w at e, and elsewhere what v reads. *)
Replaces(r, v, e, w) == At(r, e) = w /\ \A x \in Element \ {e} : At(r, x) = At(v, x)

(* An entry put into a map does that, an item put into a vector, ... *)
LEMMA EntryPut ==
  ASSUME NEW V, NEW K \in KeySets, NEW f \in [K -> V], NEW e \in Keys, NEW w \in V
  PROVE  /\ MapOf(WithEntry(f, e, w)) \in ValuesOver(V)
         /\ Replaces(MapOf(WithEntry(f, e, w)), MapOf(f), e, w)
         /\ e \in K /\ w = f[e] => WithEntry(f, e, w) = f
<1>1. PICK g : g = WithEntry(f, e, w)
  OBVIOUS
<1>2. /\ g \in [K \cup {e} -> V] /\ K \cup {e} \in KeySets
      /\ \A x \in K \cup {e} : g[x] = IF x = e THEN w ELSE f[x]
  BY <1>1, KeySetsAre DEF WithEntry
<1>3. MapOf(g) \in ValuesOver(V)
  BY <1>2, ValueIs, Zenon
<1>4. /\ \A x : At(MapOf(g), x) = IF x \in K \cup {e} THEN g[x] ELSE Null
      /\ \A x : At(MapOf(f), x) = IF x \in K THEN f[x] ELSE Null
  BY <1>2, ReadsAre
<1>5. Replaces(MapOf(g), MapOf(f), e, w)
  BY <1>2, <1>4 DEF Replaces
<1>6. e \in K /\ w = f[e] => g = f
  BY <1>2
<1> QED
  BY <1>1, <1>3, <1>5, <1>6

LEMMA ItemPut ==
  ASSUME NEW V, NEW s \in Seq(V), NEW e \in 0 .. (Len(s) - 1), NEW w \in V
  PROVE  /\ VectorOf([s EXCEPT ![e + 1] = w]) \in ValuesOver(V)
         /\ Replaces(VectorOf([s EXCEPT ![e + 1] = w]), VectorOf(s), e, w)
         /\ w = s[e + 1] => [s EXCEPT ![e + 1] = w] = s
<1>1. PICK t : t = [s EXCEPT ![e + 1] = w]
  OBVIOUS
<1>2. /\ t \in Seq(V) /\ Len(t) = Len(s) /\ Len(s) \in Nat
      /\ \A i \in 1 .. Len(s) : t[i] = IF i = e + 1 THEN w ELSE s[i]
  BY <1>1
<1>3. VectorOf(t) \in ValuesOver(V)
  BY <1>2, ValueIs, Zenon
<1>4. /\ \A x : At(VectorOf(t), x) = IF x \in 0 .. (Len(t) - 1) THEN t[x + 1] ELSE Null
      /\ \A x : At(VectorOf(s), x) = IF x \in 0 .. (Len(s) - 1) THEN s[x + 1] ELSE Null
  BY ReadsAre
<1>5. \A x \in 0 .. (Len(s) - 1) : x + 1 \in 1 .. Len(s) /\ (x + 1 = e + 1 <=> x = e)
  BY <1>2
<1>6. At(VectorOf(t), e) = w
  BY <1>2, <1>4, <1>5
<1>7. ASSUME NEW x \in Element \ {e} PROVE At(VectorOf(t), x) = At(VectorOf(s), x)
  BY <1>2, <1>4, <1>5, <1>7
<1>8. w = s[e + 1] => t = s
  BY <1>1
<1> QED
  BY <1>1, <1>3, <1>6, <1>7, <1>8 DEF Replaces

(* ... and a vector that has grown with null reads as before. *)
LEMMA LengthenedIs ==
  ASSUME NEW V, Null \in V, NEW s \in Seq(V), NEW n \in Nat
  PROVE  /\ Lengthened(s, n) \in Seq(V)
         /\ n <= Len(Lengthened(s, n))
         /\ \A x : At(VectorOf(Lengthened(s, n)), x) = At(VectorOf(s), x)
         /\ n <= Len(s) => Lengthened(s, n) = s
<1>1. PICK d \in Int : d = n - Len(s)
  OBVIOUS
<1>2. PICK r : r = [i \in 1 .. d |-> Null]
  OBVIOUS
<1>3. CASE d <= 0
  <2>1. 1 .. d = {}
    BY <1>3
  <2>2. r \in Seq(V) /\ Len(r) = 0
    <3>1. r \in [1 .. 0 -> V]
      BY <1>2, <2>1
    <3> QED
      BY <3>1
  <2>3. r = <<>>
    BY <2>2
  <2>4. Lengthened(s, n) = s
    <3>1. Lengthened(s, n) = s \o r
      BY <1>1, <1>2 DEF Lengthened
    <3>2. s \o <<>> = s
      OBVIOUS
    <3> QED
      BY <2>3, <3>1, <3>2
  <2> QED
    BY <1>1, <1>3, <2>4
<1>4. CASE d > 0
  <2>1. r \in Seq(V) /\ Len(r) = d /\ \A i \in 1 .. d : r[i] = Null
    BY <1>2, <1>4
  <2>2. PICK t : t = s \o r
    OBVIOUS
  <2>3. /\ t \in Seq(V) /\ Len(t) = n /\ Len(s) \in Nat /\ Len(s) < n
        /\ \A i \in 1 .. n : t[i] = IF i <= Len(s) THEN s[i] ELSE Null
    <3>1. PICK m \in Nat : m = Len(s)
      OBVIOUS
    <3>2. m + d = n /\ d \in Nat /\ m < n
      BY <1>1, <1>4, <3>1
    <3>3. t \in Seq(V) /\ Len(t) = m + d
      <4>1. s \o r \in Seq(V) /\ Len(s \o r) = Len(s) + Len(r)
        BY <2>1, ConcatProperties
      <4> QED
        BY <2>1, <2>2, <3>1, <4>1, Zenon
    <3>4. \A i \in 1 .. m + d : t[i] = IF i <= m THEN s[i] ELSE r[i - m]
      <4>1. \A i \in 1 .. Len(s) + Len(r) : (s \o r)[i] = IF i <= Len(s) THEN s[i] ELSE r[i - Len(s)]
        BY <2>1, ConcatProperties
      <4> QED
        BY <2>1, <2>2, <3>1, <4>1, Zenon
    <3>5. \A i \in 1 .. n : ~(i <= m) => i - m \in 1 .. d
      BY <3>1, <3>2
    <3> QED
      BY <2>1, <3>1, <3>2, <3>3, <3>4, <3>5
  <2>4. Lengthened(s, n) = t
    BY <1>1, <1>2, <2>2 DEF Lengthened
  <2>5. /\ \A x : At(VectorOf(t), x) = IF x \in 0 .. (Len(t) - 1) THEN t[x + 1] ELSE Null
        /\ \A x : At(VectorOf(s), x) = IF x \in 0 .. (Len(s) - 1) THEN s[x + 1] ELSE Null
    BY ReadsAre
  <2>6. \A x \in 0 .. (n - 1) : x + 1 \in 1 .. n /\ (x + 1 <= Len(s) <=> x \in 0 .. (Len(s) - 1))
    BY <2>3
  <2>7. \A x : x \in 0 .. (Len(s) - 1) => x \in 0 .. (n - 1)
    BY <2>3
  <2>8. \A x : At(VectorOf(t), x) = At(VectorOf(s), x)
    BY <2>3, <2>5, <2>6, <2>7
  <2> QED
    BY <1>1, <1>4, <2>3, <2>4, <2>8
<1> QED
  BY <1>1, <1>3, <1>4

(* The nothing a container starts from *)
LEMMA NothingIs ==
  /\ \A V : <<>> \in Seq(V) /\ <<>> \in [{} -> V]
  /\ \A V : MapOf(<<>>) \in ValuesOver(V) /\ VectorOf(<<>>) \in ValuesOver(V)
  /\ \A e : At(MapOf(<<>>), e) = Null /\ At(VectorOf(<<>>), e) = Null
<1>1. ASSUME NEW V PROVE <<>> \in Seq(V) /\ <<>> \in [{} -> V]
  <2>1. <<>> \in Seq(V) /\ Len(<<>>) = 0
    BY EmptySeq
  <2>2. <<>> \in [1 .. 0 -> V] /\ 1 .. 0 = {}
    BY <2>1
  <2> QED
    BY <2>1, <2>2
<1>2. ASSUME NEW V PROVE MapOf(<<>>) \in ValuesOver(V) /\ VectorOf(<<>>) \in ValuesOver(V)
  <2>1. {} \in KeySets
    BY KeySetsAre
  <2> QED
    BY <1>1, <2>1, ValueIs, Zenon
<1>3. DOMAIN <<>> = {} /\ 0 .. (Len(<<>>) - 1) = {}
  OBVIOUS
<1> QED
  BY <1>1, <1>2, <1>3, ReadsAre

(* Whether a value takes something at an element: as it is, or made into what the
   element needs *)
TakesAt(v, e) == (v.kind = "map" /\ e \in Keys) \/ e \in Elements(v)
MayTakeAt(v, e) == v.kind \in {"null", IF e \in Keys THEN "map" ELSE "vector"}

(* ImmerValue::set replaces the element, or leaves the value and it has none there. *)
LEMMA PutIs ==
  ASSUME NEW V, Closed(V), NEW v \in V, NEW e \in Element, NEW w \in V
  PROVE  /\ Put(v, e, w) \in ValuesOver(V)
         /\ TakesAt(v, e) => Replaces(Put(v, e, w), v, e, w)
         /\ ~TakesAt(v, e) => Put(v, e, w) = v /\ At(v, e) = Null
<1> DEFINE Good == /\ Put(v, e, w) \in ValuesOver(V)
                   /\ TakesAt(v, e) => Replaces(Put(v, e, w), v, e, w)
                   /\ ~TakesAt(v, e) => Put(v, e, w) = v /\ At(v, e) = Null
<1>1. v \in ValuesOver(V)
  BY DEF Closed
<1>2. ASSUME ~TakesAt(v, e) PROVE Good
  <2>1. Put(v, e, w) = v
    BY <1>2 DEF Put, TakesAt
  <2>2. At(v, e) = Null
    BY <1>2 DEF At, TakesAt
  <2> QED
    BY <1>1, <1>2, <2>1, <2>2
<1>3. ASSUME NEW K \in KeySets, NEW f \in [K -> V], v = MapOf(f), TakesAt(v, e) PROVE Good
  <2>1. e \in Keys
    BY <1>3, KindsAre DEF TakesAt
  <2>2. Put(v, e, w) = MapOf(WithEntry(f, e, w))
    BY <1>3, <2>1, KindsAre DEF Put
  <2>3. /\ MapOf(WithEntry(f, e, w)) \in ValuesOver(V)
        /\ Replaces(MapOf(WithEntry(f, e, w)), MapOf(f), e, w)
    BY <2>1, EntryPut
  <2> QED
    BY <1>3, <2>2, <2>3, Zenon
<1>4. ASSUME NEW s \in Seq(V), v = VectorOf(s), TakesAt(v, e) PROVE Good
  <2>1. e \in 0 .. (Len(s) - 1) /\ v.kind = "vector" /\ e \in Elements(v) /\ v.items = s
    BY <1>4, KindsAre DEF TakesAt
  <2>2. Put(v, e, w) = VectorOf([s EXCEPT ![e + 1] = w])
    BY <2>1 DEF Put
  <2>3. /\ VectorOf([s EXCEPT ![e + 1] = w]) \in ValuesOver(V)
        /\ Replaces(VectorOf([s EXCEPT ![e + 1] = w]), VectorOf(s), e, w)
    BY <2>1, ItemPut
  <2> QED
    BY <1>4, <2>2, <2>3, Zenon
<1>5. ASSUME v = Null \/ \E x \in Leaves : v = Leaf(x) PROVE ~TakesAt(v, e)
  BY <1>5, KindsAre DEF TakesAt
<1> HIDE DEF Good
<1>6. Good
  <2>1. CASE ~TakesAt(v, e)
    BY <1>2, <2>1, Zenon
  <2>2. CASE TakesAt(v, e)
    <3>1. \/ \E K \in KeySets : \E f \in [K -> V] : v = MapOf(f)
          \/ \E s \in Seq(V) : v = VectorOf(s)
      BY <1>5, <2>2, Shapes, Zenon
    <3> QED
      BY <1>3, <1>4, <2>2, <3>1, Zenon
  <2> QED
    BY <2>1, <2>2
<1> QED
  BY <1>6 DEF Good

(* So does set_at_path_element_vivify, and what is there already, put there again,
   changes nothing. *)
LEMMA PutVivifyIs ==
  ASSUME NEW V, Closed(V), NEW v \in V, NEW e \in Element, NEW w \in V
  PROVE  /\ PutVivify(v, e, w) \in ValuesOver(V)
         /\ MayTakeAt(v, e) => Replaces(PutVivify(v, e, w), v, e, w)
         /\ ~MayTakeAt(v, e) => PutVivify(v, e, w) = v /\ At(v, e) = Null
         /\ e \in Elements(v) /\ w = At(v, e) => PutVivify(v, e, w) = v
<1> DEFINE Good == /\ PutVivify(v, e, w) \in ValuesOver(V)
                   /\ MayTakeAt(v, e) => Replaces(PutVivify(v, e, w), v, e, w)
                   /\ ~MayTakeAt(v, e) => PutVivify(v, e, w) = v /\ At(v, e) = Null
                   /\ e \in Elements(v) /\ w = At(v, e) => PutVivify(v, e, w) = v
<1>1. v \in ValuesOver(V) /\ Null \in V
  BY DEF Closed
<1>2. \A x \in Keys : x \notin Nat
  BY PathAssumption
<1>3. ASSUME NEW K \in KeySets, NEW f \in [K -> V], v = MapOf(f) PROVE Good
  <2>1. v.kind = "map" /\ v.entries = f /\ Elements(v) = K
    BY <1>3, KindsAre
  <2>2. CASE e \in Keys
    <3>1. PutVivify(v, e, w) = MapOf(WithEntry(f, e, w)) /\ MayTakeAt(v, e)
      BY <2>1, <2>2 DEF PutVivify, MayTakeAt
    <3>2. /\ MapOf(WithEntry(f, e, w)) \in ValuesOver(V)
          /\ Replaces(MapOf(WithEntry(f, e, w)), MapOf(f), e, w)
          /\ e \in K /\ w = f[e] => WithEntry(f, e, w) = f
      BY <1>3, <2>2, EntryPut
    <3>3. e \in K => At(v, e) = f[e]
      BY <1>3, ReadsAre
    <3> QED
      BY <1>3, <2>1, <3>1, <3>2, <3>3, Zenon
  <2>3. CASE e \notin Keys
    <3>1. PutVivify(v, e, w) = v /\ e \notin Elements(v)
      BY <1>3, <2>1, <2>3, KeySetsAre DEF PutVivify
    <3>2. At(v, e) = Null /\ ~MayTakeAt(v, e)
      BY <2>1, <2>3, <3>1 DEF At, MayTakeAt
    <3> QED
      BY <1>1, <3>1, <3>2, Zenon
  <2> QED
    BY <2>2, <2>3
<1>4. ASSUME NEW s \in Seq(V), v = VectorOf(s) PROVE Good
  <2>1. v.kind = "vector" /\ v.items = s /\ Elements(v) = 0 .. (Len(s) - 1)
    BY <1>4, KindsAre
  <2>2. CASE e \notin Keys
    <3>1. PICK t : t = Lengthened(s, e + 1)
      OBVIOUS
    <3>2. e \in Nat /\ e + 1 \in Nat
      BY <2>2 DEF Element
    <3>3. /\ t \in Seq(V) /\ e + 1 <= Len(t)
          /\ \A x : At(VectorOf(t), x) = At(VectorOf(s), x)
          /\ e + 1 <= Len(s) => t = s
      BY <1>1, <3>1, <3>2, LengthenedIs
    <3>4. PutVivify(v, e, w) = VectorOf([t EXCEPT ![e + 1] = w]) /\ MayTakeAt(v, e)
      BY <2>1, <2>2, <3>1 DEF PutVivify, MayTakeAt
    <3>5. e \in 0 .. (Len(t) - 1)
      BY <3>2, <3>3
    <3>6. /\ VectorOf([t EXCEPT ![e + 1] = w]) \in ValuesOver(V)
          /\ Replaces(VectorOf([t EXCEPT ![e + 1] = w]), VectorOf(t), e, w)
          /\ w = t[e + 1] => [t EXCEPT ![e + 1] = w] = t
      BY <3>3, <3>5, ItemPut
    <3>7. Replaces(PutVivify(v, e, w), v, e, w)
      BY <1>4, <3>3, <3>4, <3>6 DEF Replaces
    <3>8. ASSUME e \in Elements(v), w = At(v, e) PROVE PutVivify(v, e, w) = v
      <4>1. t = s /\ At(v, e) = s[e + 1]
        BY <1>4, <2>1, <3>2, <3>3, <3>8, ReadsAre
      <4> QED
        BY <1>4, <3>4, <3>6, <3>8, <4>1
    <3> QED
      BY <3>4, <3>6, <3>7, <3>8
  <2>3. CASE e \in Keys
    <3>1. PutVivify(v, e, w) = v /\ e \notin Elements(v)
      BY <1>2, <2>1, <2>3 DEF PutVivify
    <3>2. At(v, e) = Null /\ ~MayTakeAt(v, e)
      BY <2>1, <2>3, <3>1 DEF At, MayTakeAt
    <3> QED
      BY <1>1, <3>1, <3>2, Zenon
  <2> QED
    BY <2>2, <2>3
<1>5. ASSUME v = Null PROVE Good
  <2>1. v.kind = "null" /\ Elements(v) = {} /\ MayTakeAt(v, e) /\ \A x : At(v, x) = Null
    BY <1>5, KindsAre, ReadsAre DEF MayTakeAt
  <2>2. CASE e \in Keys
    <3>1. PICK f : f = [x \in {e} |-> w]
      OBVIOUS
    <3>2. PutVivify(v, e, w) = MapOf(f)
      BY <2>1, <2>2, <3>1 DEF PutVivify
    <3>3. f \in [{e} -> V] /\ {e} \in KeySets
      BY <2>2, <3>1, KeySetsAre
    <3>4. MapOf(f) \in ValuesOver(V)
      BY <3>3, ValueIs, Zenon
    <3>5. \A x : At(MapOf(f), x) = IF x = e THEN w ELSE Null
      BY <3>1, ReadsAre
    <3>6. Replaces(MapOf(f), v, e, w)
      BY <2>1, <3>5 DEF Replaces
    <3> QED
      BY <2>1, <3>2, <3>4, <3>6
  <2>3. CASE e \notin Keys
    <3>1. PICK t : t = Lengthened(<<>>, e + 1)
      OBVIOUS
    <3>2. e \in Nat /\ e + 1 \in Nat
      BY <2>3 DEF Element
    <3>3. <<>> \in Seq(V)
      BY NothingIs
    <3>4. /\ t \in Seq(V) /\ e + 1 <= Len(t)
          /\ \A x : At(VectorOf(t), x) = At(VectorOf(<<>>), x)
      <4>1. PICK s \in Seq(V) : s = <<>>
        BY <3>3
      <4>2. /\ Lengthened(s, e + 1) \in Seq(V) /\ e + 1 <= Len(Lengthened(s, e + 1))
            /\ \A x : At(VectorOf(Lengthened(s, e + 1)), x) = At(VectorOf(s), x)
        BY <1>1, <3>2, LengthenedIs
      <4> QED
        BY <3>1, <4>1, <4>2, Zenon
    <3>5. PutVivify(v, e, w) = VectorOf([t EXCEPT ![e + 1] = w])
      BY <2>1, <2>3, <3>1 DEF PutVivify
    <3>6. e \in 0 .. (Len(t) - 1)
      BY <3>2, <3>4
    <3>7. /\ VectorOf([t EXCEPT ![e + 1] = w]) \in ValuesOver(V)
          /\ Replaces(VectorOf([t EXCEPT ![e + 1] = w]), VectorOf(t), e, w)
      BY <3>4, <3>6, ItemPut
    <3>8. Replaces(PutVivify(v, e, w), v, e, w)
      BY <2>1, <3>4, <3>5, <3>7, NothingIs DEF Replaces
    <3> QED
      BY <2>1, <3>5, <3>7, <3>8
  <2> QED
    BY <2>2, <2>3
<1>6. ASSUME NEW x \in Leaves, v = Leaf(x) PROVE Good
  <2>1. v.kind = "leaf" /\ Elements(v) = {} /\ At(v, e) = Null
    BY <1>6, KindsAre, ReadsAre
  <2>2. PutVivify(v, e, w) = v /\ ~MayTakeAt(v, e)
    BY <2>1 DEF PutVivify, MayTakeAt
  <2> QED
    BY <1>1, <2>1, <2>2
<1> HIDE DEF Good
<1>7. Good
  <2>1. \/ v = Null
        \/ \E x \in Leaves : v = Leaf(x)
        \/ \E K \in KeySets : \E f \in [K -> V] : v = MapOf(f)
        \/ \E s \in Seq(V) : v = VectorOf(s)
    BY Shapes, Zenon
  <2> QED
    BY <1>3, <1>4, <1>5, <1>6, <2>1, Zenon
<1> QED
  BY <1>7 DEF Good

(* erase_key_from_map leaves nothing at the key. *)
LEMMA WithoutKeyIs ==
  ASSUME NEW V, Closed(V), NEW v \in V, NEW e \in Keys
  PROVE  /\ WithoutKey(v, e) \in ValuesOver(V)
         /\ Replaces(WithoutKey(v, e), v, e, Null)
         /\ e \notin Elements(WithoutKey(v, e))
<1>1. v \in ValuesOver(V)
  BY DEF Closed
<1>2. ASSUME v.kind # "map"
      PROVE  WithoutKey(v, e) = v /\ e \notin Elements(v) /\ At(v, e) = Null
  <2>1. Elements(v) \subseteq Nat
    BY <1>2, AtIs
  <2>2. e \notin Elements(v)
    BY <2>1, PathAssumption
  <2> QED
    BY <1>2, <2>2 DEF WithoutKey, At
<1>3. ASSUME NEW K \in KeySets, NEW f \in [K -> V], v = MapOf(f)
      PROVE  /\ WithoutKey(v, e) \in ValuesOver(V)
             /\ Replaces(WithoutKey(v, e), v, e, Null)
             /\ e \notin Elements(WithoutKey(v, e))
  <2>1. PICK g : g = [x \in K \ {e} |-> f[x]]
    OBVIOUS
  <2>2. WithoutKey(v, e) = MapOf(g)
    BY <1>3, <2>1, KindsAre DEF WithoutKey
  <2>3. g \in [K \ {e} -> V] /\ K \ {e} \in KeySets
    BY <1>3, <2>1, KeySetsAre
  <2>4. MapOf(g) \in ValuesOver(V)
    BY <2>3, ValueIs, Zenon
  <2>5. /\ \A x : At(MapOf(g), x) = IF x \in K \ {e} THEN g[x] ELSE Null
        /\ \A x : At(MapOf(f), x) = IF x \in K THEN f[x] ELSE Null
    BY <2>3, ReadsAre
  <2>6. Replaces(MapOf(g), MapOf(f), e, Null)
    BY <2>1, <2>5 DEF Replaces
  <2>7. e \notin Elements(MapOf(g))
    BY <2>3, KindsAre
  <2> QED
    BY <1>3, <2>2, <2>4, <2>6, <2>7
<1>4. CASE v.kind # "map"
  BY <1>1, <1>2, <1>4 DEF Replaces
<1>5. CASE v.kind = "map"
  <2>2. /\ v # Null
        /\ \A x \in Leaves : v # Leaf(x)
        /\ \A s \in Seq(V) : v # VectorOf(s)
    BY <1>5, KindsAre
  <2>1. \E K \in KeySets : \E f \in [K -> V] : v = MapOf(f)
    BY <2>2, Shapes, Zenon
  <2> QED
    BY <1>3, <2>1, Zenon
<1> QED
  BY <1>4, <1>5

(* The first i elements of a path *)
Prefix(p, i) == SubSeq(p, 1, i)

LEMMA PrefixIs ==
  ASSUME NEW p \in Seq(Element), NEW i \in 0 .. Len(p)
  PROVE  /\ Prefix(p, i) \in Seq(Element) /\ Len(Prefix(p, i)) = i /\ i \in Nat
         /\ \A j \in 1 .. i : Prefix(p, i)[j] = p[j] /\ p[j] \in Element
         /\ i = 0 => Prefix(p, i) = <<>>
         /\ i = Len(p) => Prefix(p, i) = p
BY DEF Prefix

(* Paths that agree have the same prefixes. *)
LEMMA SamePrefix ==
  ASSUME NEW p \in Seq(Element), NEW q \in Seq(Element), NEW i \in 0 .. Len(p), i <= Len(q),
         \A j \in 1 .. i : p[j] = q[j]
  PROVE  Prefix(p, i) = Prefix(q, i)
<1>1. i \in 0 .. Len(q)
  OBVIOUS
<1>2. /\ Prefix(p, i) \in Seq(Element) /\ Len(Prefix(p, i)) = i
      /\ Prefix(q, i) \in Seq(Element) /\ Len(Prefix(q, i)) = i
      /\ \A j \in 1 .. i : Prefix(p, i)[j] = Prefix(q, i)[j]
  BY <1>1, PrefixIs
<1> QED
  BY <1>2, SeqEqual

LEMMA PrefixOfPrefix ==
  ASSUME NEW p \in Seq(Element), NEW i \in 0 .. Len(p), NEW j \in 0 .. i
  PROVE  Prefix(Prefix(p, i), j) = Prefix(p, j)
<1>1. /\ Prefix(p, i) \in Seq(Element) /\ Len(Prefix(p, i)) = i
      /\ \A k \in 1 .. i : Prefix(p, i)[k] = p[k]
  BY PrefixIs
<1>2. j \in 0 .. Len(Prefix(p, i)) /\ j <= Len(p) /\ \A k \in 1 .. j : k \in 1 .. i
  BY <1>1
<1>3. \A k \in 1 .. j : Prefix(p, i)[k] = p[k]
  BY <1>1, <1>2
<1> QED
  BY <1>1, <1>2, <1>3, SamePrefix

(* Of two paths one is a prefix of the other, or they part at some element. *)
LEMMA Within ==
  ASSUME NEW p \in Seq(Element), NEW q \in Seq(Element), IsPrefix(p, q)
  PROVE  Len(p) \in 0 .. Len(q) /\ Prefix(q, Len(p)) = p /\ \A j \in 1 .. Len(p) : p[j] = q[j]
<1>1. Len(p) \in 0 .. Len(q) /\ SubSeq(p, 1, Len(p)) = Prefix(q, Len(p))
  BY DEF IsPrefix, Prefix
<1>2. SubSeq(p, 1, Len(p)) = p
  BY SubSeqFull
<1>3. \A j \in 1 .. Len(p) : Prefix(q, Len(p))[j] = q[j]
  BY <1>1, PrefixIs
<1> QED
  BY <1>1, <1>2, <1>3

LEMMA Part ==
  ASSUME NEW p \in Seq(Element), NEW q \in Seq(Element), ~Related(p, q)
  PROVE  \E d \in 1 .. Len(p) :
           d <= Len(q) /\ p[d] # q[d] /\ Prefix(p, d - 1) = Prefix(q, d - 1)
<1> DEFINE D == {d \in 1 .. Len(p) : d <= Len(q) /\ p[d] # q[d]}
<1>1. D # {}
  <2> SUFFICES ASSUME D = {} PROVE Related(p, q)
    OBVIOUS
  <2>1. Len(p) \in Nat /\ Len(q) \in Nat
    OBVIOUS
  <2>2. \A j \in 1 .. Len(p) : j <= Len(q) => p[j] = q[j]
    OBVIOUS
  <2>3. CASE Len(p) <= Len(q)
    <3>1. Prefix(p, Len(p)) = Prefix(q, Len(p))
      BY <2>1, <2>2, <2>3, SamePrefix
    <3> QED
      BY <2>3, <3>1 DEF Related, IsPrefix, Prefix
  <2>4. CASE Len(q) <= Len(p)
    <3>1. Len(q) \in 0 .. Len(q) /\ \A j \in 1 .. Len(q) : j \in 1 .. Len(p) /\ q[j] = p[j]
      BY <2>1, <2>2, <2>4
    <3>2. Prefix(q, Len(q)) = Prefix(p, Len(q))
      BY <2>4, <3>1, SamePrefix
    <3> QED
      BY <2>4, <3>2 DEF Related, IsPrefix, Prefix
  <2> QED
    BY <2>1, <2>3, <2>4
<1>2. D \subseteq Nat
  OBVIOUS
<1>3. PICK d \in D : \A y \in D : d <= y
  BY <1>1, <1>2, Least
<1>4. d \in 1 .. Len(p) /\ d <= Len(q) /\ p[d] # q[d] /\ d \in Nat
  BY <1>3
<1>5. \A j \in 1 .. d - 1 : p[j] = q[j]
  <2> SUFFICES ASSUME NEW j \in 1 .. d - 1, p[j] # q[j] PROVE FALSE
    OBVIOUS
  <2>1. j \in 1 .. Len(p) /\ j <= Len(q) /\ ~(d <= j)
    BY <1>4
  <2> QED
    BY <1>3, <2>1
<1>6. d - 1 \in 0 .. Len(p) /\ d - 1 <= Len(q)
  BY <1>4
<1>7. Prefix(p, d - 1) = Prefix(q, d - 1)
  BY <1>5, <1>6, SamePrefix
<1> QED
  BY <1>4, <1>7

-----------------------------------------------------------------------------
(* Reading a path: get_at_path is a fold, which goes through a value for each
   prefix.  Readable(V): what is read in one of V is in V; this holds of a closed set,
   and of the nodes of a difference. *)
Readable(V) == \A v \in V : \A e : At(v, e) \in V

LEMMA ClosedReads ==
  ASSUME NEW V, Closed(V)
  PROVE  Readable(V)
BY AtIs DEF Readable

Way(g, V, v, p) ==
  /\ g \in [0 .. Len(p) -> V] /\ g[0] = v
  /\ \A i \in 1 .. Len(p) : g[i] = At(g[i - 1], p[i])

LEMMA WayTo ==
  ASSUME NEW V, Readable(V), NEW v \in V, NEW p \in Seq(Element)
  PROVE  \E g : Way(g, V, v, p) /\ Get(v, p) = g[Len(p)]
<1> DEFINE n == Len(p)
           S == DOMAIN p
           pick == [s \in (SUBSET S) \ {{}} |-> Max(s)]
           step == [i \in S |-> [x \in V |-> At(x, p[i])]]
           Solves(h) == h = [s \in SUBSET S |->
                               IF s = {} THEN v ELSE At(h[s \ {Max(s)}], p[Max(s)])]
           fold == CHOOSE h : Solves(h)
<1>1. IsFiniteSet(S) /\ S \subseteq Nat /\ S = 1 .. n /\ n \in Nat
  <2>1. n \in Nat /\ S = 1 .. n
    OBVIOUS
  <2>2. 1 \in Int /\ n \in Int
    BY <2>1
  <2>3. IsFiniteSet(1 .. n)
    BY <2>2, FS_Interval
  <2> QED
    BY <2>1, <2>3
<1>2. \A s \in (SUBSET S) \ {{}} : Max(s) \in s
  <2>1. n \in Nat /\ S \subseteq 0 .. n
    BY <1>1
  <2> HIDE DEF n, S
  <2> QED
    BY <2>1, Greatest
<1>3. \A s \in (SUBSET S) \ {{}} : pick[s] \in s /\ pick[s] = Max(s) /\ Max(s) \in S
  BY <1>2
<1>4. pick \in [(SUBSET S) \ {{}} -> S]
  BY <1>3
<1>5. step \in [S -> [V -> V]]
  BY DEF Readable
<1>6. \A i \in S, x \in V : step[i][x] = At(x, p[i])
  OBVIOUS
<1> HIDE DEF pick, step, S, n
<1>7. PICK h : IsFold(h, S, V, v, step, pick)
  <2>1. IsFiniteSet(S) /\ Steps(step, S, V) /\ Picks(pick, S)
    BY <1>1, <1>3, <1>4, <1>5 DEF Steps, Picks
  <2> QED
    BY <2>1, Recursion
<1>8. Solves(h)
  <2>1. h \in [SUBSET S -> V] /\ h = [s \in SUBSET S |-> h[s]]
    BY <1>7 DEF IsFold
  <2>2. ASSUME NEW s \in SUBSET S, s # {}
        PROVE  step[pick[s]][h[s \ {pick[s]}]] = At(h[s \ {Max(s)}], p[Max(s)])
    <3>1. pick[s] = Max(s) /\ Max(s) \in S /\ h[s \ {Max(s)}] \in V
      BY <1>3, <2>1, <2>2
    <3> QED
      BY <1>6, <3>1
  <2>3. \A s \in SUBSET S : h[s] = IF s = {} THEN v ELSE At(h[s \ {Max(s)}], p[Max(s)])
    BY <1>7, <2>2 DEF IsFold
  <2> QED
    BY <2>1, <2>3
<1>9. Solves(fold)
  BY <1>8
<1>10. Get(v, p) = fold[S]
  BY DEF Get, FoldLeft, MapThenFoldSet, S
<1> HIDE DEF fold
<1>11. \A s \in SUBSET S : fold[s] = IF s = {} THEN v ELSE At(fold[s \ {Max(s)}], p[Max(s)])
  BY <1>9
<1>12. ASSUME NEW i \in 1 .. n
       PROVE  fold[1 .. i] = At(fold[1 .. i - 1], p[i])
  <2>1. i \in Nat /\ i # 0 /\ 1 .. i \in SUBSET S
    BY <1>1
  <2>2. 1 .. i # {} /\ (1 .. i) \ {i} = 1 .. i - 1 /\ Max(1 .. i) = i
    BY <2>1, FromAbove
  <2> QED
    BY <1>11, <2>1, <2>2
<1> DEFINE T == {i \in 0 .. n : fold[1 .. i] \in V}
<1>13. 0 \in T /\ fold[1 .. 0] = v
  <2>1. 1 .. 0 = {} /\ 0 \in 0 .. n /\ {} \in SUBSET S
    BY <1>1
  <2> QED
    BY <1>11, <2>1
<1>14. ASSUME NEW i \in 0 .. n - 1, i \in T PROVE i + 1 \in T
  <2>1. i + 1 \in 1 .. n /\ i + 1 \in 0 .. n /\ (i + 1) - 1 = i
    BY <1>1
  <2>2. fold[1 .. i + 1] = At(fold[1 .. i], p[i + 1])
    BY <1>12, <2>1
  <2>3. fold[1 .. i + 1] \in V
    BY <1>14, <2>2 DEF Readable
  <2> QED
    BY <2>1, <2>3
<1>15. \A i \in 0 .. n : fold[1 .. i] \in V
  <2> HIDE DEF T
  <2>1. \A i \in 0 .. n : i \in T
    BY <1>1, <1>13, <1>14, Upwards
  <2> QED
    BY <2>1 DEF T
<1> DEFINE g == [i \in 0 .. n |-> fold[1 .. i]]
<1>16. g \in [0 .. n -> V] /\ g[0] = v /\ g[n] = fold[S]
  BY <1>1, <1>13, <1>15
<1>17. \A i \in 1 .. n : g[i] = At(g[i - 1], p[i])
  <2>1. \A i \in 1 .. n : i \in 0 .. n /\ i - 1 \in 0 .. n
    BY <1>1
  <2> QED
    BY <1>12, <2>1
<1> QED
  BY <1>10, <1>16, <1>17 DEF Way, n

LEMMA WayPast ==
  ASSUME NEW V, Readable(V), NEW v \in V, NEW p \in Seq(Element), NEW g, Way(g, V, v, p),
         NEW m \in 0 .. Len(p)
  PROVE  Get(v, Prefix(p, m)) = g[m]
<1>1. PICK x \in Seq(Element) : x = Prefix(p, m) /\ Len(x) = m /\ \A i \in 1 .. m : x[i] = p[i]
  BY PrefixIs
<1>2. PICK h : Way(h, V, v, x) /\ Get(v, x) = h[Len(x)]
  BY WayTo
<1> DEFINE T == {i \in 0 .. m : g[i] = h[i]}
<1>3. m \in Nat /\ Len(p) \in Nat /\ m <= Len(p)
  OBVIOUS
<1>4. 0 \in T
  BY <1>2, <1>3 DEF Way
<1>5. ASSUME NEW i \in 0 .. m - 1, i \in T PROVE i + 1 \in T
  <2>1. i + 1 \in 1 .. m /\ i + 1 \in 0 .. m /\ i + 1 \in 1 .. Len(p) /\ (i + 1) - 1 = i
    BY <1>3
  <2>2. h[i + 1] = At(h[i], x[i + 1]) /\ g[i + 1] = At(g[i], p[i + 1])
    BY <1>1, <1>2, <2>1 DEF Way
  <2>3. g[i] = h[i] /\ x[i + 1] = p[i + 1]
    BY <1>1, <1>5, <2>1
  <2> QED
    BY <2>1, <2>2, <2>3
<1> HIDE DEF T
<1>6. \A i \in 0 .. m : i \in T
  BY <1>3, <1>4, <1>5, Upwards
<1>7. m \in T
  BY <1>3, <1>6
<1> QED
  BY <1>1, <1>2, <1>7 DEF T

(* What each prefix reads: the root first, then what is at the next element. *)
LEMMA ReadIs ==
  ASSUME NEW V, Readable(V), NEW v \in V, NEW p \in Seq(Element)
  PROVE  /\ Get(v, Prefix(p, 0)) = v /\ Get(v, <<>>) = v
         /\ \A i \in 0 .. Len(p) : Get(v, Prefix(p, i)) \in V
         /\ \A i \in 1 .. Len(p) : Get(v, Prefix(p, i)) = At(Get(v, Prefix(p, i - 1)), p[i])
         /\ Get(v, p) = Get(v, Prefix(p, Len(p))) /\ Get(v, p) \in V
<1>1. PICK g : Way(g, V, v, p)
  BY WayTo
<1>2. \A i \in 0 .. Len(p) : Get(v, Prefix(p, i)) = g[i]
  BY <1>1, WayPast
<1>3. Len(p) \in Nat /\ 0 \in 0 .. Len(p) /\ Len(p) \in 0 .. Len(p)
  OBVIOUS
<1>4. \A i \in 1 .. Len(p) : i \in 0 .. Len(p) /\ i - 1 \in 0 .. Len(p)
  OBVIOUS
<1>5. Prefix(p, 0) = <<>> /\ Prefix(p, Len(p)) = p
  BY <1>3, PrefixIs
<1>6. g \in [0 .. Len(p) -> V] /\ g[0] = v /\ \A i \in 1 .. Len(p) : g[i] = At(g[i - 1], p[i])
  BY <1>1 DEF Way
<1>7. Get(v, Prefix(p, 0)) = v /\ Get(v, Prefix(p, Len(p))) \in V
  BY <1>2, <1>3, <1>6
<1> QED
  BY <1>2, <1>4, <1>5, <1>6, <1>7

LEMMA GetIs ==
  ASSUME NEW V, Closed(V), NEW v \in V, NEW p \in Seq(Element)
  PROVE  /\ Get(v, Prefix(p, 0)) = v /\ Get(v, <<>>) = v
         /\ \A i \in 0 .. Len(p) : Get(v, Prefix(p, i)) \in V
         /\ \A i \in 1 .. Len(p) : Get(v, Prefix(p, i)) = At(Get(v, Prefix(p, i - 1)), p[i])
         /\ Get(v, p) = Get(v, Prefix(p, Len(p))) /\ Get(v, p) \in V
<1>1. Readable(V)
  BY ClosedReads
<1> QED
  BY <1>1, ReadIs

LEMMA OneFurther ==
  ASSUME NEW V, Closed(V), NEW v \in V, NEW p \in Seq(Element), NEW i \in 0 .. Len(p) - 1
  PROVE  Get(v, Prefix(p, i + 1)) = At(Get(v, Prefix(p, i)), p[i + 1])
<1>1. PICK l \in 1 .. Len(p) : l = i + 1 /\ l - 1 = i
  OBVIOUS
<1>2. Get(v, Prefix(p, l)) = At(Get(v, Prefix(p, l - 1)), p[l])
  BY GetIs
<1> QED
  BY <1>1, <1>2

(* Values that read the same at a prefix do so along the rest of the path. *)
LEMMA ReadOn ==
  ASSUME NEW V, Closed(V), NEW u \in V, NEW v \in V, NEW q \in Seq(Element), NEW m \in 0 .. Len(q),
         Get(u, Prefix(q, m)) = Get(v, Prefix(q, m))
  PROVE  Get(u, q) = Get(v, q)
<1> DEFINE T == {i \in 0 .. Len(q) : m <= i => Get(u, Prefix(q, i)) = Get(v, Prefix(q, i))}
<1>1. Len(q) \in Nat /\ m \in Nat /\ m <= Len(q)
  OBVIOUS
<1>2. 0 \in T
  <2>1. 0 \in 0 .. Len(q) /\ (m <= 0 => m = 0)
    BY <1>1
  <2> QED
    BY <2>1
<1>3. ASSUME NEW i \in 0 .. Len(q) - 1, i \in T PROVE i + 1 \in T
  <2>1. i + 1 \in 1 .. Len(q) /\ i + 1 \in 0 .. Len(q) /\ (i + 1) - 1 = i
    BY <1>1
  <2>2. /\ Get(u, Prefix(q, i + 1)) = At(Get(u, Prefix(q, i)), q[i + 1])
        /\ Get(v, Prefix(q, i + 1)) = At(Get(v, Prefix(q, i)), q[i + 1])
    BY OneFurther
  <2>3. m <= i + 1 => m <= i \/ m = i + 1
    BY <1>1, <2>1
  <2>4. m <= i => Get(u, Prefix(q, i)) = Get(v, Prefix(q, i))
    BY <1>3
  <2>5. ASSUME m <= i + 1 PROVE Get(u, Prefix(q, i + 1)) = Get(v, Prefix(q, i + 1))
    BY <2>2, <2>3, <2>4, <2>5
  <2> QED
    BY <2>1, <2>5
<1> HIDE DEF T
<1>4. \A i \in 0 .. Len(q) : i \in T
  BY <1>1, <1>2, <1>3, Upwards
<1>5. Get(u, Prefix(q, Len(q))) = Get(v, Prefix(q, Len(q)))
  <2>1. Len(q) \in T
    BY <1>1, <1>4
  <2> QED
    BY <1>1, <2>1 DEF T
<1> QED
  BY <1>5, GetIs

(* Below null there is null: what is not null has its elements all along the path. *)
LEMMA NotNull ==
  ASSUME NEW V, Closed(V), NEW v \in V, NEW p \in Seq(Element), NEW m \in 0 .. Len(p),
         Get(v, Prefix(p, m)) # Null, NEW j \in 1 .. m
  PROVE  p[j] \in Elements(Get(v, Prefix(p, j - 1)))
<1> SUFFICES ASSUME p[j] \notin Elements(Get(v, Prefix(p, j - 1))) PROVE FALSE
  OBVIOUS
<1> DEFINE T == {i \in 0 .. m : j <= i => Get(v, Prefix(p, i)) = Null}
<1>1. Len(p) \in Nat /\ m \in Nat /\ m <= Len(p) /\ j \in Nat /\ j # 0
  OBVIOUS
<1>2. 0 \in T
  BY <1>1
<1>3. ASSUME NEW i \in 0 .. m - 1, i \in T PROVE i + 1 \in T
  <2>1. i + 1 \in 1 .. Len(p) /\ i + 1 \in 0 .. m /\ (i + 1) - 1 = i /\ i \in 0 .. Len(p)
    BY <1>1
  <2>2. Get(v, Prefix(p, i + 1)) = At(Get(v, Prefix(p, i)), p[i + 1]) /\ Get(v, Prefix(p, i)) \in V
    <3>1. i \in 0 .. Len(p) - 1
      BY <1>1
    <3>2. Get(v, Prefix(p, i)) \in V
      BY <2>1, GetIs
    <3> QED
      BY <3>1, <3>2, OneFurther
  <2>3. CASE j <= i
    <3>1. Get(v, Prefix(p, i)) = Null
      BY <1>3, <2>3
    <3> QED
      BY <2>1, <2>2, <3>1, ReadsAre
  <2>4. CASE j = i + 1
    <3>1. p[i + 1] \notin Elements(Get(v, Prefix(p, i)))
      BY <2>1, <2>4
    <3> QED
      BY <2>1, <2>2, <3>1, AtIs
  <2>5. j <= i + 1 => j <= i \/ j = i + 1
    BY <1>1, <2>1
  <2> QED
    BY <2>1, <2>3, <2>4, <2>5
<1> HIDE DEF T
<1>4. \A i \in 0 .. m : i \in T
  BY <1>1, <1>2, <1>3, Upwards
<1> QED
  BY <1>1, <1>4 DEF T

-----------------------------------------------------------------------------
(* An edit along a path, by set_at_path or by set_at_path_vivify: what stands at an
   element is put back with what stands below, from the end of the path to the
   root. *)
PreparedAt(root, p, i) ==
  LET child == Get(root, Prefix(p, i - 1))
  IN  IF child = Null /\ i > 1 THEN Fresh(p[i]) ELSE child

Rebuild(vivify, root, p, i, below) ==
  IF vivify THEN PutVivify(PreparedAt(root, p, i), p[i], below)
  ELSE Put(Get(root, Prefix(p, i - 1)), p[i], below)

EditAt(vivify, root, p, new) == IF vivify THEN VivifyAt(root, p, new) ELSE SetAt(root, p, new)

(* One step of it *)
LEMMA RebuildIs ==
  ASSUME NEW V, Closed(V), NEW root \in V, NEW p \in Seq(Element), NEW i \in 1 .. Len(p),
         NEW w \in V, NEW vivify \in BOOLEAN,
         NEW g, g = Get(root, Prefix(p, i - 1)), NEW r, r = Rebuild(vivify, root, p, i, w)
  PROVE  /\ r \in ValuesOver(V)
         /\ \A x \in Element \ {p[i]} : At(r, x) = At(g, x)
         /\ At(r, p[i]) = w \/ (At(r, p[i]) = Null /\ At(g, p[i]) = Null)
         /\ ~vivify => IF TakesAt(g, p[i]) THEN At(r, p[i]) = w ELSE r = g
         /\ vivify => IF MayTakeAt(g, p[i]) THEN At(r, p[i]) = w ELSE r = g /\ g # Null
         /\ vivify /\ p[i] \in Elements(g) /\ w = At(g, p[i]) => r = g
<1> DEFINE Good == /\ r \in ValuesOver(V)
                   /\ \A x \in Element \ {p[i]} : At(r, x) = At(g, x)
                   /\ At(r, p[i]) = w \/ (At(r, p[i]) = Null /\ At(g, p[i]) = Null)
                   /\ ~vivify => IF TakesAt(g, p[i]) THEN At(r, p[i]) = w ELSE r = g
                   /\ vivify => IF MayTakeAt(g, p[i]) THEN At(r, p[i]) = w ELSE r = g /\ g # Null
                   /\ vivify /\ p[i] \in Elements(g) /\ w = At(g, p[i]) => r = g
<1>1. i - 1 \in 0 .. Len(p) /\ p[i] \in Element
  OBVIOUS
<1>2. g \in V
  BY <1>1, GetIs
<1>3. PICK e \in Element : e = p[i]
  BY <1>1
<1>4. CASE ~vivify
  <2>1. r = Put(g, e, w)
    BY <1>3, <1>4 DEF Rebuild
  <2>2. /\ Put(g, e, w) \in ValuesOver(V)
        /\ TakesAt(g, e) => Replaces(Put(g, e, w), g, e, w)
        /\ ~TakesAt(g, e) => Put(g, e, w) = g /\ At(g, e) = Null
    BY <1>2, PutIs
  <2> QED
    BY <1>3, <1>4, <2>1, <2>2 DEF Replaces
<1>5. CASE vivify
  <2>1. PICK m : m = PreparedAt(root, p, i)
    OBVIOUS
  <2>2. m = g \/ (g = Null /\ m = Fresh(e))
    BY <1>3, <2>1 DEF PreparedAt
  <2>3. Fresh(e) \in V /\ MayTakeAt(Fresh(e), e) /\ \A x : At(Fresh(e), x) = Null
    BY NothingIs, KindsAre DEF Fresh, MayTakeAt, Closed
  <2>4. m \in V
    BY <1>2, <2>2, <2>3
  <2>5. r = PutVivify(m, e, w)
    BY <1>3, <1>5, <2>1 DEF Rebuild
  <2>6. /\ PutVivify(m, e, w) \in ValuesOver(V)
        /\ MayTakeAt(m, e) => Replaces(PutVivify(m, e, w), m, e, w)
        /\ ~MayTakeAt(m, e) => PutVivify(m, e, w) = m /\ At(m, e) = Null
        /\ e \in Elements(m) /\ w = At(m, e) => PutVivify(m, e, w) = m
    BY <2>4, PutVivifyIs
  <2>7. MayTakeAt(Null, e) /\ Elements(Null) = {} /\ \A x : At(Null, x) = Null
    BY KindsAre, ReadsAre DEF MayTakeAt
  <2>8. CASE m = g
    <3>1. ~MayTakeAt(g, e) => g # Null
      BY <2>7
    <3> QED
      BY <1>3, <1>5, <2>5, <2>6, <2>8, <3>1 DEF Replaces
  <2>9. CASE g = Null /\ m = Fresh(e)
    BY <1>3, <1>5, <2>3, <2>5, <2>6, <2>7, <2>9 DEF Replaces
  <2> QED
    BY <2>2, <2>8, <2>9
<1> QED
  BY <1>4, <1>5

(* The values an edit puts back, from what it puts at the end of the path up to the
   root, are there: over a closed set they are in a larger one. *)
Chain(a, W, vivify, root, p, new) ==
  /\ a \in [1 .. Len(p) + 1 -> W] /\ a[Len(p) + 1] = new
  /\ \A i \in 1 .. Len(p) : a[i] = Rebuild(vivify, root, p, i, a[i + 1])

LEMMA ChainExists ==
  ASSUME NEW V, Closed(V), NEW root \in V, NEW p \in Seq(Element), NEW new \in V,
         NEW vivify \in BOOLEAN
  PROVE  \E W, a : V \subseteq W /\ Closed(W) /\ Chain(a, W, vivify, root, p, new)
<1> DEFINE n == Len(p)
           From(k, W, a) ==
             /\ a \in [k + 1 .. n + 1 -> W] /\ a[n + 1] = new
             /\ \A i \in k + 1 .. n : a[i] = Rebuild(vivify, root, p, i, a[i + 1])
           T == {k \in 0 .. n : \E W, a : V \subseteq W /\ Closed(W) /\ From(k, W, a)}
<1>1. n \in Nat
  OBVIOUS
<1>2. n \in T
  <2>1. PICK a : a = [i \in {n + 1} |-> new]
    OBVIOUS
  <2>2. n + 1 .. n + 1 = {n + 1} /\ n + 1 .. n = {}
    BY <1>1
  <2>3. From(n, V, a)
    BY <2>1, <2>2
  <2> QED
    BY <1>1, <2>3
<1>3. ASSUME NEW k \in 0 .. n - 1, k + 1 \in T PROVE k \in T
  <2>1. PICK W, a : V \subseteq W /\ Closed(W) /\ From(k + 1, W, a)
    BY <1>3
  <2>2. /\ k \in 0 .. n /\ k + 1 \in 1 .. n /\ (k + 1) + 1 = k + 2
        /\ k + 2 \in k + 2 .. n + 1
        /\ \A i \in k + 1 .. n + 1 : i = k + 1 \/ i \in k + 2 .. n + 1
        /\ \A i \in k + 2 .. n + 1 : i # k + 1 /\ i \in k + 1 .. n + 1
        /\ \A i \in k + 1 .. n : i + 1 \in k + 2 .. n + 1 /\ (i = k + 1 \/ i \in k + 2 .. n)
        /\ n + 1 \in k + 2 .. n + 1 /\ k + 1 \in k + 1 .. n + 1
        /\ \A i \in k + 2 .. n : i \in k + 2 .. n + 1
    BY <1>1
  <2>3. /\ a \in [k + 2 .. n + 1 -> W] /\ a[n + 1] = new
        /\ \A i \in k + 2 .. n : a[i] = Rebuild(vivify, root, p, i, a[i + 1])
    BY <2>1, <2>2
  <2>4. PICK r : r = Rebuild(vivify, root, p, k + 1, a[k + 2])
    OBVIOUS
  <2>5. PICK w \in W : w = a[k + 2]
    BY <2>2, <2>3
  <2>6. r \in ValuesOver(W)
    <3>1. r = Rebuild(vivify, root, p, k + 1, w)
      BY <2>4, <2>5
    <3>2. root \in W
      BY <2>1
    <3> QED
      BY <2>1, <2>2, <3>1, <3>2, RebuildIs
  <2>7. Closed(W \cup {r}) /\ V \subseteq W \cup {r}
    BY <2>1, <2>6, Joined
  <2>8. PICK b : b = [i \in k + 1 .. n + 1 |-> IF i = k + 1 THEN r ELSE a[i]]
    OBVIOUS
  <2> HIDE DEF n
  <2>9. b \in [k + 1 .. n + 1 -> W \cup {r}] /\ b[k + 1] = r /\ \A i \in k + 2 .. n + 1 : b[i] = a[i]
    BY <2>2, <2>3, <2>8
  <2>10. b[n + 1] = new
    BY <2>2, <2>3, <2>9
  <2>11. ASSUME NEW i \in k + 1 .. n PROVE b[i] = Rebuild(vivify, root, p, i, b[i + 1])
    <3>1. b[i + 1] = a[i + 1]
      BY <2>2, <2>9
    <3>2. CASE i = k + 1
      BY <2>2, <2>4, <2>9, <3>1, <3>2
    <3>3. CASE i \in k + 2 .. n
      BY <2>2, <2>3, <2>9, <3>1, <3>3
    <3> QED
      BY <2>2, <3>2, <3>3
  <2>12. From(k, W \cup {r}, b)
    BY <2>9, <2>10, <2>11
  <2> HIDE DEF From
  <2> QED
    BY <2>2, <2>7, <2>12
<1> HIDE DEF T
<1>4. \A k \in 0 .. n : k \in T
  BY <1>1, <1>2, <1>3, Downwards
<1>5. 0 \in T
  BY <1>1, <1>4
<1>6. PICK W, a : V \subseteq W /\ Closed(W) /\ From(0, W, a)
  BY <1>5 DEF T
<1>7. Chain(a, W, vivify, root, p, new)
  BY <1>6 DEF Chain
<1> QED
  BY <1>6, <1>7

(* ... and the edit gives the first of them. *)
LEMMA EditIs ==
  ASSUME NEW V, Closed(V), NEW root \in V, NEW p \in Seq(Element), NEW new \in V,
         NEW vivify \in BOOLEAN
  PROVE  \E W, a : /\ V \subseteq W /\ Closed(W) /\ Chain(a, W, vivify, root, p, new)
                   /\ EditAt(vivify, root, p, new) = a[1]
<1> DEFINE n == Len(p)
           Solves(h) == h = [i \in 1 .. (n + 1) |->
                               IF i > n THEN new ELSE Rebuild(vivify, root, p, i, h[i + 1])]
           at == CHOOSE h : Solves(h)
<1>1. n \in Nat
  OBVIOUS
<1>2. PICK W, a : V \subseteq W /\ Closed(W) /\ Chain(a, W, vivify, root, p, new)
  BY ChainExists
<1>3. Solves(a)
  <2>1. /\ a = [i \in 1 .. (n + 1) |-> a[i]] /\ a[n + 1] = new
        /\ \A i \in 1 .. n : a[i] = Rebuild(vivify, root, p, i, a[i + 1])
    BY <1>2 DEF Chain
  <2>2. \A i \in 1 .. (n + 1) : IF i > n THEN i = n + 1 ELSE i \in 1 .. n
    BY <1>1
  <2>3. \A i \in 1 .. (n + 1) : a[i] = IF i > n THEN new ELSE Rebuild(vivify, root, p, i, a[i + 1])
    BY <2>1, <2>2
  <2> QED
    BY <2>1, <2>3
<1>4. Solves(at)
  BY <1>3
<1>5. EditAt(vivify, root, p, new) = at[1]
  BY DEF EditAt, VivifyAt, SetAt, Rebuild, PreparedAt, Prefix
<1> HIDE DEF at
<1>6. \A i \in 1 .. n + 1 : at[i] = IF i > n THEN new ELSE Rebuild(vivify, root, p, i, at[i + 1])
  BY <1>4
<1> DEFINE T == {i \in 0 .. n : at[i + 1] = a[i + 1]}
<1>7. n \in T
  BY <1>1, <1>2, <1>6 DEF Chain
<1>8. ASSUME NEW i \in 0 .. n - 1, i + 1 \in T PROVE i \in T
  <2>1. i \in 0 .. n /\ i + 1 \in 1 .. n /\ i + 1 \in 1 .. n + 1 /\ ~(i + 1 > n)
    BY <1>1
  <2>2. at[(i + 1) + 1] = a[(i + 1) + 1]
    BY <1>8
  <2>3. at[i + 1] = Rebuild(vivify, root, p, i + 1, at[(i + 1) + 1])
    BY <1>6, <2>1
  <2>4. a[i + 1] = Rebuild(vivify, root, p, i + 1, a[(i + 1) + 1])
    BY <1>2, <2>1 DEF Chain
  <2> QED
    BY <2>1, <2>2, <2>3, <2>4
<1> HIDE DEF T
<1>9. \A i \in 0 .. n : i \in T
  BY <1>1, <1>7, <1>8, Downwards
<1>10. at[1] = a[1]
  <2>1. 0 \in T /\ 0 + 1 = 1
    BY <1>1, <1>9
  <2> QED
    BY <2>1 DEF T
<1> QED
  BY <1>2, <1>5, <1>10

(* What the chain of an edit has in common with what stood there: each of its values
   reads the same beside the path, and at the path the next of the chain, or null
   where there was null. *)
Rebuilt(a, W, root, p) ==
  /\ a \in [1 .. Len(p) + 1 -> W]
  /\ \A i \in 1 .. Len(p) :
       /\ \A x \in Element \ {p[i]} : At(a[i], x) = At(Get(root, Prefix(p, i - 1)), x)
       /\ \/ At(a[i], p[i]) = a[i + 1]
          \/ At(a[i], p[i]) = Null /\ Get(root, Prefix(p, i)) = Null

LEMMA ChainRebuilt ==
  ASSUME NEW W, Closed(W), NEW root \in W, NEW p \in Seq(Element), NEW new,
         NEW vivify \in BOOLEAN, NEW a, Chain(a, W, vivify, root, p, new)
  PROVE  Rebuilt(a, W, root, p)
<1>1. a \in [1 .. Len(p) + 1 -> W]
  BY DEF Chain
<1>2. ASSUME NEW i \in 1 .. Len(p)
      PROVE  /\ \A x \in Element \ {p[i]} : At(a[i], x) = At(Get(root, Prefix(p, i - 1)), x)
             /\ \/ At(a[i], p[i]) = a[i + 1]
                \/ At(a[i], p[i]) = Null /\ Get(root, Prefix(p, i)) = Null
  <2>1. PICK w \in W : w = a[i + 1]
    <3>1. i + 1 \in 1 .. Len(p) + 1
      OBVIOUS
    <3> QED
      BY <1>1, <3>1
  <2>2. PICK g : g = Get(root, Prefix(p, i - 1))
    OBVIOUS
  <2>3. PICK r : r = a[i]
    OBVIOUS
  <2>4. r = Rebuild(vivify, root, p, i, w)
    BY <2>1, <2>3 DEF Chain
  <2>5. /\ \A x \in Element \ {p[i]} : At(r, x) = At(g, x)
        /\ At(r, p[i]) = w \/ (At(r, p[i]) = Null /\ At(g, p[i]) = Null)
    BY <2>2, <2>4, RebuildIs
  <2>6. Get(root, Prefix(p, i)) = At(g, p[i])
    BY <2>2, GetIs
  <2> QED
    BY <2>1, <2>2, <2>3, <2>5, <2>6
<1> QED
  BY <1>1, <1>2 DEF Rebuilt

(* So the edited value reads a value of the chain at each prefix of the path, or null
   as before, ... *)
LEMMA OnTheWay ==
  ASSUME NEW W, Closed(W), NEW root \in W, NEW p \in Seq(Element), NEW a, Rebuilt(a, W, root, p),
         NEW m \in 0 .. Len(p)
  PROVE  \/ Get(a[1], Prefix(p, m)) = a[m + 1]
         \/ Get(a[1], Prefix(p, m)) = Null /\ Get(root, Prefix(p, m)) = Null
<1> DEFINE T == {i \in 0 .. Len(p) :
                   \/ Get(a[1], Prefix(p, i)) = a[i + 1]
                   \/ Get(a[1], Prefix(p, i)) = Null /\ Get(root, Prefix(p, i)) = Null}
<1>1. Len(p) \in Nat /\ a[1] \in W
  BY DEF Rebuilt
<1>2. 0 \in T
  BY <1>1, GetIs
<1>3. ASSUME NEW i \in 0 .. Len(p) - 1, i \in T PROVE i + 1 \in T
  <2>1. i + 1 \in 1 .. Len(p) /\ i + 1 \in 0 .. Len(p) /\ (i + 1) - 1 = i
    BY <1>1
  <2>2. /\ Get(a[1], Prefix(p, i + 1)) = At(Get(a[1], Prefix(p, i)), p[i + 1])
        /\ Get(root, Prefix(p, i + 1)) = At(Get(root, Prefix(p, i)), p[i + 1])
    BY <1>1, OneFurther
  <2>3. \/ At(a[i + 1], p[i + 1]) = a[(i + 1) + 1]
        \/ At(a[i + 1], p[i + 1]) = Null /\ Get(root, Prefix(p, i + 1)) = Null
    BY <2>1 DEF Rebuilt
  <2>4. \A e : At(Null, e) = Null
    BY ReadsAre
  <2>5. \/ Get(a[1], Prefix(p, i)) = a[i + 1]
        \/ Get(a[1], Prefix(p, i)) = Null /\ Get(root, Prefix(p, i)) = Null
    BY <1>3
  <2> QED
    BY <2>1, <2>2, <2>3, <2>4, <2>5
<1> HIDE DEF T
<1>4. \A i \in 0 .. Len(p) : i \in T
  BY <1>1, <1>2, <1>3, Upwards
<1>5. m \in T
  BY <1>4
<1> QED
  BY <1>5 DEF T

(* ... the end of the chain at the path where nothing stopped it, ... *)
LEMMA ToTheEnd ==
  ASSUME NEW W, Closed(W), NEW root \in W, NEW p \in Seq(Element), NEW a, Rebuilt(a, W, root, p),
         \A i \in 1 .. Len(p) : At(a[i], p[i]) = a[i + 1]
  PROVE  Get(a[1], p) = a[Len(p) + 1]
<1> DEFINE T == {i \in 0 .. Len(p) : Get(a[1], Prefix(p, i)) = a[i + 1]}
<1>1. Len(p) \in Nat /\ a[1] \in W
  BY DEF Rebuilt
<1>2. 0 \in T
  BY <1>1, GetIs
<1>3. ASSUME NEW i \in 0 .. Len(p) - 1, i \in T PROVE i + 1 \in T
  <2>1. i + 1 \in 1 .. Len(p) /\ i + 1 \in 0 .. Len(p) /\ (i + 1) - 1 = i
    BY <1>1
  <2>2. Get(a[1], Prefix(p, i + 1)) = At(Get(a[1], Prefix(p, i)), p[i + 1])
    BY <1>1, OneFurther
  <2>3. At(a[i + 1], p[i + 1]) = a[(i + 1) + 1]
    BY <2>1
  <2>4. Get(a[1], Prefix(p, i)) = a[i + 1]
    BY <1>3
  <2> QED
    BY <2>1, <2>2, <2>3, <2>4
<1> HIDE DEF T
<1>4. \A i \in 0 .. Len(p) : i \in T
  BY <1>1, <1>2, <1>3, Upwards
<1>5. Get(a[1], Prefix(p, Len(p))) = a[Len(p) + 1]
  <2>1. Len(p) \in T
    BY <1>1, <1>4
  <2> QED
    BY <2>1 DEF T
<1> QED
  BY <1>1, <1>5, GetIs

(* ... and beside the path what was there. *)
LEMMA Beside ==
  ASSUME NEW W, Closed(W), NEW root \in W, NEW p \in Seq(Element), NEW a, Rebuilt(a, W, root, p),
         NEW q \in Seq(Element), ~Related(p, q)
  PROVE  Get(a[1], q) = Get(root, q)
<1>1. PICK d \in 1 .. Len(p) : d <= Len(q) /\ p[d] # q[d] /\ Prefix(p, d - 1) = Prefix(q, d - 1)
  BY Part
<1>2. d \in 1 .. Len(q) /\ d - 1 \in 0 .. Len(p) /\ d \in 0 .. Len(q) /\ (d - 1) + 1 = d
  BY <1>1
<1>3. a[1] \in W
  <2>1. 1 \in 1 .. Len(p) + 1
    OBVIOUS
  <2> QED
    BY <2>1 DEF Rebuilt
<1>4. /\ Get(a[1], Prefix(q, d)) = At(Get(a[1], Prefix(p, d - 1)), q[d])
      /\ Get(root, Prefix(q, d)) = At(Get(root, Prefix(p, d - 1)), q[d])
  BY <1>1, <1>2, <1>3, GetIs
<1>5. At(a[d], q[d]) = At(Get(root, Prefix(p, d - 1)), q[d])
  <2>1. q[d] \in Element \ {p[d]}
    BY <1>1, <1>2
  <2> QED
    BY <2>1 DEF Rebuilt
<1>6. \/ Get(a[1], Prefix(p, d - 1)) = a[d]
      \/ Get(a[1], Prefix(p, d - 1)) = Null /\ Get(root, Prefix(p, d - 1)) = Null
  <2>1. PICK m \in 0 .. Len(p) : m = d - 1
    BY <1>2
  <2>2. \/ Get(a[1], Prefix(p, m)) = a[m + 1]
        \/ Get(a[1], Prefix(p, m)) = Null /\ Get(root, Prefix(p, m)) = Null
    BY OnTheWay
  <2> QED
    BY <1>2, <2>1, <2>2
<1>7. Get(a[1], Prefix(q, d)) = Get(root, Prefix(q, d))
  <2>1. PICK u, g : u = Get(a[1], Prefix(p, d - 1)) /\ g = Get(root, Prefix(p, d - 1))
    OBVIOUS
  <2>2. u = a[d] \/ (u = Null /\ g = Null)
    BY <1>6, <2>1, Zenon
  <2>3. At(u, q[d]) = At(g, q[d])
    BY <1>5, <2>1, <2>2, Zenon
  <2> QED
    BY <1>4, <2>1, <2>3, Zenon
<1> QED
  BY <1>2, <1>3, <1>7, ReadOn

-----------------------------------------------------------------------------
(* What each edit makes the value read.  The last element of a path, and the path to
   it: *)
LEMMA EndOf ==
  ASSUME NEW p \in Seq(Element), p # <<>>
  PROVE  /\ Len(p) \in 1 .. Len(p) /\ Len(p) \in Nat /\ Len(p) - 1 \in 0 .. Len(p)
         /\ (Len(p) - 1) + 1 = Len(p)
         /\ Front(p) = Prefix(p, Len(p) - 1) /\ Last(p) = p[Len(p)]
         /\ Front(p) \in Seq(Element) /\ Len(Front(p)) = Len(p) - 1
         /\ \A i \in 1 .. Len(p) - 1 : i \in 1 .. Len(p) /\ Front(p)[i] = p[i]
<1>1. PICK n \in Nat : n = Len(p) /\ n # 0
  OBVIOUS
<1>2. n \in 1 .. n /\ n - 1 \in 0 .. n /\ (n - 1) + 1 = n /\ \A i \in 1 .. n - 1 : i \in 1 .. n
  BY <1>1
<1>3. Front(p) = Prefix(p, n - 1) /\ Last(p) = p[n]
  BY <1>1 DEF Front, Last, Prefix
<1>4. PICK m \in 0 .. n : m = n - 1
  BY <1>2
<1>5. /\ Prefix(p, m) \in Seq(Element) /\ Len(Prefix(p, m)) = m
      /\ \A i \in 1 .. m : Prefix(p, m)[i] = p[i]
  BY <1>1, PrefixIs
<1>6. /\ Front(p) \in Seq(Element) /\ Len(Front(p)) = n - 1
      /\ \A i \in 1 .. n - 1 : Front(p)[i] = p[i]
  BY <1>3, <1>4, <1>5, Zenon
<1> QED
  BY <1>1, <1>2, <1>3, <1>6, Zenon

(* A path is taken when its last container takes the last element. *)
LEMMA TakesIs ==
  ASSUME NEW V, Closed(V), NEW v \in V, NEW p \in Seq(Element)
  PROVE  /\ Takes(v, p) => \A i \in 1 .. Len(p) : TakesAt(Get(v, Prefix(p, i - 1)), p[i])
         /\ ~Takes(v, p) => \E n \in 1 .. Len(p) :
                               n = Len(p) /\ ~TakesAt(Get(v, Prefix(p, n - 1)), p[n])
<1>1. CASE p = <<>>
  BY <1>1 DEF Takes
<1>2. CASE p # <<>>
  <2> DEFINE n == Len(p)
  <2>1. /\ n \in Nat /\ n - 1 \in 0 .. n /\ n \in 1 .. n
        /\ Front(p) = Prefix(p, n - 1) /\ Last(p) = p[n]
        /\ Front(p) \in Seq(Element) /\ Len(Front(p)) = n - 1
        /\ \A i \in 1 .. n - 1 : i \in 1 .. n /\ Front(p)[i] = p[i]
    BY <1>2, EndOf
  <2>2. DOMAIN Front(p) = 1 .. n - 1
    BY <2>1
  <2>3. \A i \in 1 .. n - 1 : SubSeq(Front(p), 1, i - 1) = Prefix(p, i - 1)
    <3> SUFFICES ASSUME NEW i \in 1 .. n - 1 PROVE Prefix(Front(p), i - 1) = Prefix(p, i - 1)
      BY DEF Prefix
    <3>1. PICK m \in 0 .. Len(p) : m = n - 1
      BY <2>1
    <3>2. PICK j \in 0 .. m : j = i - 1
      BY <2>1, <3>1
    <3>3. Prefix(Prefix(p, m), j) = Prefix(p, j)
      BY PrefixOfPrefix
    <3> QED
      BY <2>1, <3>1, <3>2, <3>3
  <2>4. IsValidPath(v, Front(p))
          <=> \A i \in 1 .. n - 1 : p[i] \in Elements(Get(v, Prefix(p, i - 1)))
    BY <2>1, <2>2, <2>3 DEF IsValidPath
  <2>5. Takes(v, p) <=> IsValidPath(v, Front(p)) /\ TakesAt(Get(v, Prefix(p, n - 1)), p[n])
    BY <1>2, <2>1 DEF Takes, TakesAt
  <2>6. ASSUME Takes(v, p), NEW i \in 1 .. n PROVE TakesAt(Get(v, Prefix(p, i - 1)), p[i])
    <3>1. CASE i = n
      BY <2>5, <2>6, <3>1
    <3>2. CASE i # n
      <4>1. i \in 1 .. n - 1
        BY <2>1, <3>2
      <4> QED
        BY <2>4, <2>5, <2>6, <4>1 DEF TakesAt
    <3> QED
      BY <3>1, <3>2
  <2>7. ASSUME TakesAt(Get(v, Prefix(p, n - 1)), p[n]) PROVE Takes(v, p)
    <3>1. Get(v, Prefix(p, n - 1)) # Null
      BY <2>7, KindsAre DEF TakesAt
    <3>2. PICK m \in 0 .. Len(p) : m = n - 1
      BY <2>1
    <3>3. \A j \in 1 .. m : p[j] \in Elements(Get(v, Prefix(p, j - 1)))
      BY <3>1, <3>2, NotNull
    <3> QED
      BY <2>4, <2>5, <2>7, <3>2, <3>3
  <2>8. PICK l \in 1 .. Len(p) : l = n
    BY <2>1
  <2>9. ASSUME ~Takes(v, p) PROVE ~TakesAt(Get(v, Prefix(p, l - 1)), p[l])
    BY <2>7, <2>8, <2>9, Zenon
  <2> QED
    BY <1>2, <2>6, <2>8, <2>9
<1> QED
  BY <1>1, <1>2

(* set_at_path *)
LEMMA SetReads ==
  ASSUME NEW V, Closed(V), NEW v \in V, NEW p \in Seq(Element), NEW new \in V,
         NEW r, r = SetAt(v, p, new)
  PROVE  /\ \E W : V \subseteq W /\ Closed(W) /\ r \in W
         /\ \A q \in Seq(Element) : ~Related(p, q) => Get(r, q) = Get(v, q)
         /\ Takes(v, p) => Get(r, p) = new
         /\ ~Takes(v, p) => \A q \in Seq(Element) : IsStrictPrefix(q, p) \/ Get(r, q) = Get(v, q)
<1>0. PICK vivify \in BOOLEAN : ~vivify
  OBVIOUS
<1>1. PICK W, a : /\ V \subseteq W /\ Closed(W) /\ Chain(a, W, vivify, v, p, new)
                  /\ EditAt(vivify, v, p, new) = a[1]
  BY EditIs
<1>2. r = a[1] /\ v \in W
  BY <1>0, <1>1 DEF EditAt
<1>3. Rebuilt(a, W, v, p)
  BY <1>1, <1>2, ChainRebuilt
<1>4. r \in W
  <2>1. 1 \in 1 .. Len(p) + 1
    OBVIOUS
  <2> QED
    BY <1>2, <1>3, <2>1 DEF Rebuilt
<1>5. ASSUME NEW q \in Seq(Element), ~Related(p, q) PROVE Get(r, q) = Get(v, q)
  BY <1>1, <1>2, <1>3, <1>5, Beside
<1>6. ASSUME NEW i \in 1 .. Len(p)
      PROVE  IF TakesAt(Get(v, Prefix(p, i - 1)), p[i]) THEN At(a[i], p[i]) = a[i + 1]
             ELSE a[i] = Get(v, Prefix(p, i - 1))
  <2>1. PICK w \in W : w = a[i + 1]
    <3>1. i + 1 \in 1 .. Len(p) + 1
      OBVIOUS
    <3> QED
      BY <1>3, <3>1 DEF Rebuilt
  <2>2. PICK g : g = Get(v, Prefix(p, i - 1))
    OBVIOUS
  <2>3. PICK s : s = a[i]
    OBVIOUS
  <2>4. s = Rebuild(vivify, v, p, i, w)
    BY <1>1, <2>1, <2>3 DEF Chain
  <2>5. IF TakesAt(g, p[i]) THEN At(s, p[i]) = w ELSE s = g
    BY <1>0, <1>1, <1>2, <2>2, <2>4, RebuildIs
  <2> QED
    BY <2>1, <2>2, <2>3, <2>5
<1>7. ASSUME NEW i \in 1 .. Len(p), ~TakesAt(Get(v, Prefix(p, i - 1)), p[i])
      PROVE  a[i] = Get(v, Prefix(p, i - 1))
  BY <1>6, <1>7
<1>8. ASSUME Takes(v, p) PROVE Get(r, p) = new
  <2>1. \A i \in 1 .. Len(p) : TakesAt(Get(v, Prefix(p, i - 1)), p[i])
    BY <1>8, TakesIs
  <2>2. \A i \in 1 .. Len(p) : At(a[i], p[i]) = a[i + 1]
    BY <1>6, <2>1
  <2>3. Get(a[1], p) = a[Len(p) + 1]
    BY <1>1, <1>2, <1>3, <2>2, ToTheEnd
  <2> QED
    BY <1>1, <1>2, <2>3 DEF Chain
<1>9. ASSUME ~Takes(v, p), NEW q \in Seq(Element), ~IsStrictPrefix(q, p)
      PROVE  Get(r, q) = Get(v, q)
  <2>1. PICK n \in 1 .. Len(p) : n = Len(p) /\ ~TakesAt(Get(v, Prefix(p, n - 1)), p[n])
    BY <1>9, TakesIs
  <2>2. a[n] = Get(v, Prefix(p, n - 1))
    BY <1>7, <2>1
  <2>3. Len(p) \in Nat
    OBVIOUS
  <2>4. PICK m \in 0 .. Len(p) : m = n - 1 /\ m + 1 = n /\ m <= Len(p)
    BY <2>3
  <2>5. \/ Get(a[1], Prefix(p, m)) = a[m + 1]
        \/ Get(a[1], Prefix(p, m)) = Null /\ Get(v, Prefix(p, m)) = Null
    BY <1>1, <1>2, <1>3, OnTheWay
  <2>6. Get(r, Prefix(p, m)) = Get(v, Prefix(p, m))
    BY <1>2, <2>2, <2>4, <2>5
  <2>7. CASE ~Related(p, q)
    BY <1>5, <2>7
  <2>8. CASE IsPrefix(p, q)
    <3>1. Len(p) \in 0 .. Len(q) /\ \A j \in 1 .. Len(p) : p[j] = q[j]
      BY <2>8, Within
    <3>2. m \in 0 .. Len(q) /\ m <= Len(q) /\ \A j \in 1 .. m : p[j] = q[j]
      BY <2>3, <2>4, <3>1
    <3>3. Prefix(p, m) = Prefix(q, m)
      BY <3>2, SamePrefix
    <3>4. Get(r, Prefix(q, m)) = Get(v, Prefix(q, m))
      BY <2>6, <3>3
    <3> QED
      BY <1>1, <1>2, <1>4, <3>2, <3>4, ReadOn
  <2>9. CASE IsPrefix(q, p)
    <3>1. q = p
      BY <1>9, <2>9 DEF IsStrictPrefix
    <3>2. IsPrefix(p, q)
      BY <2>9, <3>1
    <3> QED
      BY <2>8, <3>2
  <2> QED
    BY <2>7, <2>8, <2>9 DEF Related
<1> QED
  BY <1>1, <1>4, <1>5, <1>8, <1>9

(* set_at_path_vivify *)
LEMMA VivifyReads ==
  ASSUME NEW V, Closed(V), NEW v \in V, NEW p \in Seq(Element), NEW new \in V,
         NEW r, r = VivifyAt(v, p, new)
  PROVE  /\ \E W : V \subseteq W /\ Closed(W) /\ r \in W
         /\ \A q \in Seq(Element) : ~Related(p, q) => Get(r, q) = Get(v, q)
         /\ MayTake(v, p) => Get(r, p) = new
         /\ ~MayTake(v, p) => r = v
<1>0. PICK vivify \in BOOLEAN : vivify
  OBVIOUS
<1>1. PICK W, a : /\ V \subseteq W /\ Closed(W) /\ Chain(a, W, vivify, v, p, new)
                  /\ EditAt(vivify, v, p, new) = a[1]
  BY EditIs
<1>2. r = a[1] /\ v \in W
  BY <1>0, <1>1 DEF EditAt
<1>3. Rebuilt(a, W, v, p)
  BY <1>1, <1>2, ChainRebuilt
<1>4. r \in W
  <2>1. 1 \in 1 .. Len(p) + 1
    OBVIOUS
  <2> QED
    BY <1>2, <1>3, <2>1 DEF Rebuilt
<1>5. ASSUME NEW q \in Seq(Element), ~Related(p, q) PROVE Get(r, q) = Get(v, q)
  BY <1>1, <1>2, <1>3, <1>5, Beside
<1>6. ASSUME NEW i \in 1 .. Len(p), NEW g, g = Get(v, Prefix(p, i - 1))
      PROVE  /\ IF MayTakeAt(g, p[i]) THEN At(a[i], p[i]) = a[i + 1] ELSE a[i] = g /\ g # Null
             /\ p[i] \in Elements(g) /\ a[i + 1] = At(g, p[i]) => a[i] = g
  <2>1. PICK w \in W : w = a[i + 1]
    <3>1. i + 1 \in 1 .. Len(p) + 1
      OBVIOUS
    <3> QED
      BY <1>3, <3>1 DEF Rebuilt
  <2>2. PICK s : s = a[i]
    OBVIOUS
  <2>3. s = Rebuild(vivify, v, p, i, w)
    BY <1>1, <2>1, <2>2 DEF Chain
  <2>4. /\ vivify => IF MayTakeAt(g, p[i]) THEN At(s, p[i]) = w ELSE s = g /\ g # Null
        /\ vivify /\ p[i] \in Elements(g) /\ w = At(g, p[i]) => s = g
    BY <1>1, <1>2, <1>6, <2>3, RebuildIs
  <2>5. /\ IF MayTakeAt(g, p[i]) THEN At(s, p[i]) = w ELSE s = g /\ g # Null
        /\ p[i] \in Elements(g) /\ w = At(g, p[i]) => s = g
    BY <1>0, <2>4
  <2> QED
    BY <2>1, <2>2, <2>5
<1>7. MayTake(v, p) <=> \A i \in 1 .. Len(p) : MayTakeAt(Get(v, Prefix(p, i - 1)), p[i])
  BY DEF MayTake, MayTakeAt, Prefix
<1>8. ASSUME MayTake(v, p) PROVE Get(r, p) = new
  <2>1. \A i \in 1 .. Len(p) : At(a[i], p[i]) = a[i + 1]
    BY <1>6, <1>7, <1>8
  <2>2. Get(a[1], p) = a[Len(p) + 1]
    BY <1>1, <1>2, <1>3, <2>1, ToTheEnd
  <2> QED
    BY <1>1, <1>2, <2>2 DEF Chain
<1>9. ASSUME ~MayTake(v, p) PROVE r = v
  <2>1. PICK i \in 1 .. Len(p) : ~MayTakeAt(Get(v, Prefix(p, i - 1)), p[i])
    BY <1>7, <1>9
  <2>2. PICK m \in 0 .. Len(p) : m = i - 1 /\ m + 1 = i
    OBVIOUS
  <2>3. a[i] = Get(v, Prefix(p, m)) /\ Get(v, Prefix(p, m)) # Null
    BY <1>6, <2>1, <2>2
  <2>4. \A j \in 1 .. m : p[j] \in Elements(Get(v, Prefix(p, j - 1)))
    BY <2>3, NotNull
  <2> DEFINE T == {j \in 0 .. m : a[j + 1] = Get(v, Prefix(p, j))}
  <2>5. m \in T /\ m \in Nat
    BY <2>2, <2>3
  <2>6. ASSUME NEW j \in 0 .. m - 1, j + 1 \in T PROVE j \in T
    <3>1. /\ j \in 0 .. m /\ j + 1 \in 1 .. m /\ j + 1 \in 1 .. Len(p) /\ (j + 1) - 1 = j
      BY <2>2
    <3>2. a[(j + 1) + 1] = Get(v, Prefix(p, j + 1))
      BY <2>6
    <3>3. Get(v, Prefix(p, j + 1)) = At(Get(v, Prefix(p, j)), p[j + 1])
      BY <3>1, GetIs
    <3>4. p[j + 1] \in Elements(Get(v, Prefix(p, j)))
      BY <2>4, <3>1
    <3>5. a[j + 1] = Get(v, Prefix(p, j))
      BY <1>6, <3>1, <3>2, <3>3, <3>4
    <3> QED
      BY <3>1, <3>5
  <2> HIDE DEF T
  <2>7. \A j \in 0 .. m : j \in T
    BY <2>5, <2>6, Downwards
  <2>8. a[1] = Get(v, Prefix(p, 0))
    <3>1. 0 \in T /\ 0 + 1 = 1
      BY <2>5, <2>7
    <3> QED
      BY <3>1 DEF T
  <2> QED
    BY <1>2, <2>8, GetIs
<1> QED
  BY <1>1, <1>4, <1>5, <1>8, <1>9

(* erase_at_path *)
LEMMA EraseReads ==
  ASSUME NEW V, Closed(V), NEW v \in V, NEW p \in Seq(Element), NEW r, r = EraseAt(v, p)
  PROVE  /\ \E W : V \subseteq W /\ Closed(W) /\ r \in W
         /\ \A q \in Seq(Element) : ~Related(p, q) => Get(r, q) = Get(v, q)
         /\ Get(r, p) = Null
         /\ p # <<>> /\ Last(p) \in Keys => ~IsValidPath(r, p)
<1> DEFINE n == Len(p)
<1>0. PICK vivify \in BOOLEAN : ~vivify /\ Null \in V
  BY DEF Closed
<1>1. CASE p = <<>>
  <2>1. r = Null
    BY <1>1 DEF EraseAt
  <2>2. \A q \in Seq(Element) : Related(p, q)
    BY <1>1 DEF Related, IsPrefix
  <2>3. Get(r, p) = Null
    BY <1>0, <1>1, <2>1, GetIs
  <2> QED
    BY <1>0, <1>1, <2>1, <2>2, <2>3
<1>2. ASSUME NEW W, NEW a, V \subseteq W, Closed(W), Rebuilt(a, W, v, p), a[n + 1] = Null, r = a[1]
      PROVE  /\ r \in W
             /\ \A q \in Seq(Element) : ~Related(p, q) => Get(r, q) = Get(v, q)
             /\ Get(r, p) = Null
  <2>1. v \in W /\ n \in 0 .. Len(p) /\ 1 \in 1 .. Len(p) + 1
    BY <1>2
  <2>2. r \in W
    BY <1>2, <2>1 DEF Rebuilt
  <2>3. ASSUME NEW q \in Seq(Element), ~Related(p, q) PROVE Get(r, q) = Get(v, q)
    BY <1>2, <2>1, <2>3, Beside
  <2>4. \/ Get(a[1], Prefix(p, n)) = a[n + 1]
        \/ Get(a[1], Prefix(p, n)) = Null /\ Get(v, Prefix(p, n)) = Null
    BY <1>2, <2>1, OnTheWay
  <2>5. Get(r, p) = Get(r, Prefix(p, n))
    BY <1>2, <2>2, GetIs
  <2> QED
    BY <1>2, <2>2, <2>3, <2>4, <2>5
<1>3. CASE p # <<>> /\ Last(p) \notin Keys
  <2>1. r = SetAt(v, p, Null)
    BY <1>3 DEF EraseAt
  <2>2. PICK W, a : /\ V \subseteq W /\ Closed(W) /\ Chain(a, W, vivify, v, p, Null)
                    /\ EditAt(vivify, v, p, Null) = a[1]
    BY <1>0, EditIs
  <2>3. r = a[1] /\ v \in W /\ a[n + 1] = Null
    BY <1>0, <2>1, <2>2 DEF EditAt, Chain
  <2>4. Rebuilt(a, W, v, p)
    BY <2>2, <2>3, ChainRebuilt
  <2>5. /\ r \in W
        /\ \A q \in Seq(Element) : ~Related(p, q) => Get(r, q) = Get(v, q)
        /\ Get(r, p) = Null
    BY <1>2, <2>2, <2>3, <2>4
  <2> QED
    BY <1>3, <2>2, <2>5
<1>4. CASE p # <<>> /\ Last(p) \in Keys
  <2>1. /\ n \in 1 .. n /\ n \in Nat /\ n - 1 \in 0 .. n /\ (n - 1) + 1 = n
        /\ Front(p) = Prefix(p, n - 1) /\ Last(p) = p[n]
        /\ Front(p) \in Seq(Element) /\ Len(Front(p)) = n - 1
        /\ \A i \in 1 .. n - 1 : i \in 1 .. n /\ Front(p)[i] = p[i]
    BY <1>4, EndOf
  <2>2. PICK f \in Seq(Element) : f = Front(p)
    BY <2>1
  <2>3. PICK e \in Keys : e = p[n]
    BY <1>4, <2>1
  <2>4. PICK g : g = Get(v, Prefix(p, n - 1))
    OBVIOUS
  <2>5. g \in V
    BY <2>1, <2>4, GetIs
  <2>6. PICK w : w = WithoutKey(g, e)
    OBVIOUS
  <2>7. w \in ValuesOver(V) /\ Replaces(w, g, e, Null) /\ e \notin Elements(w)
    BY <2>5, <2>6, WithoutKeyIs
  <2>8. r = SetAt(v, f, w)
    BY <1>4, <2>1, <2>2, <2>3, <2>4, <2>6 DEF EraseAt
  <2>9. PICK U : U = V \cup {w}
    OBVIOUS
  <2>10. Closed(U) /\ v \in U /\ w \in U /\ V \subseteq U
    BY <2>7, <2>9, Joined
  <2>11. PICK W, b : /\ U \subseteq W /\ Closed(W) /\ Chain(b, W, vivify, v, f, w)
                     /\ EditAt(vivify, v, f, w) = b[1]
    BY <2>10, EditIs
  <2>12. r = b[1] /\ v \in W /\ b[Len(f) + 1] = w /\ Null \in W
    BY <1>0, <2>8, <2>10, <2>11 DEF EditAt, Chain
  <2>13. Rebuilt(b, W, v, f)
    BY <2>11, <2>12, ChainRebuilt
  <2>14. PICK a : a = [i \in 1 .. n + 1 |-> IF i = n + 1 THEN Null ELSE b[i]]
    OBVIOUS
  <2> HIDE DEF n
  <2>15. b \in [1 .. n -> W] /\ b[n] = w
    BY <2>1, <2>2, <2>12, <2>13 DEF Rebuilt
  <2>16. /\ a \in [1 .. n + 1 -> W] /\ a[n + 1] = Null
         /\ \A i \in 1 .. n : a[i] = b[i]
    <3>1. \A i \in 1 .. n + 1 : i = n + 1 \/ i \in 1 .. n
      BY <2>1
    <3>2. \A i \in 1 .. n : i # n + 1 /\ i \in 1 .. n + 1
      BY <2>1
    <3>3. n + 1 \in 1 .. n + 1
      BY <2>1
    <3> QED
      BY <2>12, <2>14, <2>15, <3>1, <3>2, <3>3
  <2>17. ASSUME NEW i \in 1 .. n
         PROVE  /\ \A x \in Element \ {p[i]} : At(a[i], x) = At(Get(v, Prefix(p, i - 1)), x)
                /\ \/ At(a[i], p[i]) = a[i + 1]
                   \/ At(a[i], p[i]) = Null /\ Get(v, Prefix(p, i)) = Null
    <3>1. CASE i = n
      BY <2>3, <2>4, <2>7, <2>15, <2>16, <3>1 DEF Replaces
    <3>2. CASE i # n
      <4>1. i \in 1 .. n - 1 /\ i + 1 \in 1 .. n /\ i - 1 \in 0 .. n - 1 /\ i \in 0 .. n - 1
        <5>1. n \in Nat
          BY <2>1
        <5> QED
          BY <3>2, <5>1
      <4>2. i \in 1 .. Len(f) /\ f[i] = p[i]
        BY <2>1, <2>2, <4>1
      <4>3. Prefix(f, i - 1) = Prefix(p, i - 1) /\ Prefix(f, i) = Prefix(p, i)
        <5>1. PICK m \in 0 .. Len(p) : m = n - 1
          BY <2>1, Zenon DEF n
        <5>2. \A j \in 0 .. m : Prefix(Prefix(p, m), j) = Prefix(p, j)
          BY PrefixOfPrefix
        <5>3. f = Prefix(p, m) /\ i - 1 \in 0 .. m /\ i \in 0 .. m
          BY <2>1, <2>2, <4>1, <5>1, Zenon
        <5> QED
          BY <5>2, <5>3, Zenon
      <4>4. /\ \A x \in Element \ {f[i]} : At(b[i], x) = At(Get(v, Prefix(f, i - 1)), x)
            /\ \/ At(b[i], f[i]) = b[i + 1]
               \/ At(b[i], f[i]) = Null /\ Get(v, Prefix(f, i)) = Null
        BY <2>13, <4>2 DEF Rebuilt
      <4>5. a[i] = b[i] /\ a[i + 1] = b[i + 1]
        BY <2>16, <4>1
      <4> QED
        BY <4>2, <4>3, <4>4, <4>5
    <3> QED
      BY <3>1, <3>2
  <2>18. Rebuilt(a, W, v, p)
    BY <2>16, <2>17 DEF Rebuilt, n
  <2>19. r = a[1]
    <3>1. 1 \in 1 .. n
      BY <2>1
    <3> QED
      BY <2>12, <2>16, <3>1
  <2>20. V \subseteq W
    BY <2>10, <2>11
  <2>21. /\ r \in W
         /\ \A q \in Seq(Element) : ~Related(p, q) => Get(r, q) = Get(v, q)
         /\ Get(r, p) = Null
    BY <1>2, <2>11, <2>16, <2>18, <2>19, <2>20, Zenon
  <2>22. ~IsValidPath(r, p)
    <3>1. PICK m \in 0 .. Len(p) : m = n - 1 /\ m + 1 = n
      BY <2>1, Zenon DEF n
    <3>2. \/ Get(a[1], Prefix(p, m)) = a[m + 1]
          \/ Get(a[1], Prefix(p, m)) = Null /\ Get(v, Prefix(p, m)) = Null
      BY <2>11, <2>12, <2>18, OnTheWay
    <3>3. a[n] = w
      BY <2>1, <2>15, <2>16
    <3>4. e \notin Elements(Get(r, Prefix(p, n - 1)))
      BY <2>7, <2>19, <3>1, <3>2, <3>3, KindsAre
    <3>5. n \in DOMAIN p
      BY <2>1 DEF n
    <3> QED
      BY <2>3, <3>4, <3>5 DEF IsValidPath, Prefix
  <2> QED
    BY <2>11, <2>20, <2>21, <2>22
<1> QED
  BY <1>1, <1>3, <1>4

-----------------------------------------------------------------------------
(* Together, and over the steps of the document *)
ReadsBack(v) ==
  \A p \in Paths, new \in Atoms :
    /\ \A q \in Paths : ~Related(p, q) =>
         /\ Get(SetAt(v, p, new), q) = Get(v, q)
         /\ Get(VivifyAt(v, p, new), q) = Get(v, q)
         /\ Get(EraseAt(v, p), q) = Get(v, q)
    /\ IF Takes(v, p) THEN Get(SetAt(v, p, new), p) = new
       ELSE \A q \in Paths : IsStrictPrefix(q, p) \/ Get(SetAt(v, p, new), q) = Get(v, q)
    /\ IF MayTake(v, p) THEN Get(VivifyAt(v, p, new), p) = new ELSE VivifyAt(v, p, new) = v
    /\ Get(EraseAt(v, p), p) = Null
    /\ p # <<>> /\ Last(p) \in Keys => ~IsValidPath(EraseAt(v, p), p)

LEMMA AtomsAre ==
  ASSUME NEW V, Closed(V), NEW v \in V, NEW p \in Paths, NEW new \in Atoms
  PROVE  /\ p \in Seq(Element)
         /\ \E U : V \subseteq U /\ Closed(U) /\ v \in U /\ new \in U
<1>1. p \in Seq(Element)
  BY PathAssumption DEF Element
<1>2. new \in ValuesOver(V)
  BY NothingIs, ValueIs DEF Atoms
<1>3. Closed(V \cup {new})
  BY <1>2, Joined
<1> QED
  BY <1>1, <1>3

LEMMA AllReadBack ==
  ASSUME NEW V, Closed(V), NEW v \in V
  PROVE  ReadsBack(v)
<1> SUFFICES
      ASSUME NEW p \in Paths, NEW new \in Atoms
      PROVE  /\ \A q \in Paths : ~Related(p, q) =>
                  /\ Get(SetAt(v, p, new), q) = Get(v, q)
                  /\ Get(VivifyAt(v, p, new), q) = Get(v, q)
                  /\ Get(EraseAt(v, p), q) = Get(v, q)
             /\ IF Takes(v, p) THEN Get(SetAt(v, p, new), p) = new
                ELSE \A q \in Paths : IsStrictPrefix(q, p) \/ Get(SetAt(v, p, new), q) = Get(v, q)
             /\ IF MayTake(v, p) THEN Get(VivifyAt(v, p, new), p) = new ELSE VivifyAt(v, p, new) = v
             /\ Get(EraseAt(v, p), p) = Null
             /\ p # <<>> /\ Last(p) \in Keys => ~IsValidPath(EraseAt(v, p), p)
  BY DEF ReadsBack
<1>1. p \in Seq(Element) /\ \A q \in Paths : q \in Seq(Element)
  BY PathAssumption DEF Element
<1>2. PICK U : V \subseteq U /\ Closed(U) /\ v \in U /\ new \in U
  BY AtomsAre
<1>3. PICK s, c, d : s = SetAt(v, p, new) /\ c = VivifyAt(v, p, new) /\ d = EraseAt(v, p)
  OBVIOUS
<1>4. /\ \A q \in Seq(Element) : ~Related(p, q) => Get(s, q) = Get(v, q)
      /\ Takes(v, p) => Get(s, p) = new
      /\ ~Takes(v, p) => \A q \in Seq(Element) : IsStrictPrefix(q, p) \/ Get(s, q) = Get(v, q)
  BY <1>1, <1>2, <1>3, SetReads
<1>5. /\ \A q \in Seq(Element) : ~Related(p, q) => Get(c, q) = Get(v, q)
      /\ MayTake(v, p) => Get(c, p) = new
      /\ ~MayTake(v, p) => c = v
  BY <1>1, <1>2, <1>3, VivifyReads
<1>6. /\ \A q \in Seq(Element) : ~Related(p, q) => Get(d, q) = Get(v, q)
      /\ Get(d, p) = Null
      /\ p # <<>> /\ Last(p) \in Keys => ~IsValidPath(d, p)
  BY <1>1, <1>2, <1>3, EraseReads
<1> QED
  BY <1>1, <1>3, <1>4, <1>5, <1>6

-----------------------------------------------------------------------------
(* Places.  One is further than another by the element it has at its end. *)
LEMMA PlacesAre == Places = Seq(Element)
BY DEF Places, Element

LEMMA StepOn ==
  ASSUME NEW p \in Places, NEW e \in Element
  PROVE  /\ Append(p, e) \in Places /\ Len(Append(p, e)) = Len(p) + 1 /\ Len(p) \in Nat
         /\ Append(p, e)[Len(p) + 1] = e /\ Prefix(Append(p, e), Len(p)) = p
         /\ \A i \in 0 .. Len(p) : Prefix(Append(p, e), i) = Prefix(p, i)
         /\ \A i \in 1 .. Len(p) : Append(p, e)[i] = p[i]
<1>0. p \in Seq(Element) /\ Len(p) \in Nat
  BY PlacesAre
<1>1. PICK q : q = Append(p, e) /\ q \in Seq(Element)
  BY <1>0, AppendProperties
<1>2. Len(q) = Len(p) + 1 /\ q[Len(p) + 1] = e /\ \A i \in 1 .. Len(p) : q[i] = p[i]
  BY <1>0, <1>1
<1>3. \A i \in 0 .. Len(p) : Prefix(q, i) = Prefix(p, i)
  <2> SUFFICES ASSUME NEW i \in 0 .. Len(p) PROVE Prefix(p, i) = Prefix(q, i)
    OBVIOUS
  <2>1. i <= Len(q) /\ \A j \in 1 .. i : p[j] = q[j]
    BY <1>0, <1>2
  <2> QED
    BY <1>0, <1>1, <2>1, SamePrefix
<1>4. Prefix(p, Len(p)) = p /\ Len(p) \in 0 .. Len(p)
  BY <1>0, PrefixIs
<1> QED
  BY <1>0, <1>1, <1>2, <1>3, <1>4, PlacesAre

(* What is read one element further *)
LEMMA ReadFurther ==
  ASSUME NEW V, Readable(V), NEW v \in V, NEW p \in Places
  PROVE  /\ Get(v, <<>>) = v /\ Get(v, p) \in V
         /\ \A e \in Element : Get(v, Append(p, e)) = At(Get(v, p), e)
<1>0. p \in Seq(Element)
  BY PlacesAre
<1>1. Get(v, <<>>) = v /\ Get(v, p) \in V
  BY <1>0, ReadIs
<1>2. ASSUME NEW e \in Element PROVE Get(v, Append(p, e)) = At(Get(v, p), e)
  <2>1. PICK q : q = Append(p, e) /\ q \in Seq(Element)
    BY <1>0, AppendProperties
  <2>2. /\ Len(q) = Len(p) + 1 /\ Len(p) \in Nat /\ q[Len(p) + 1] = e
        /\ Prefix(q, Len(p)) = p
    BY <2>1, StepOn
  <2>3. PICK m \in 1 .. Len(q) : m = Len(p) + 1 /\ m - 1 = Len(p)
    BY <2>2
  <2>4. q \in Seq(Element)
    BY <2>1
  <2>5. /\ Get(v, Prefix(q, m)) = At(Get(v, Prefix(q, m - 1)), q[m])
        /\ Get(v, Prefix(q, Len(q))) = Get(v, q)
    BY <2>4, ReadIs
  <2> QED
    BY <2>1, <2>2, <2>3, <2>5
<1> QED
  BY <1>1, <1>2

(* Induction from the ends of paths to the root *)
LEMMA FromTheEnds ==
  ASSUME NEW n \in Nat, NEW G,
         \A p \in Places : Len(p) > n => p \in G,
         \A p \in Places : (\A e \in Element : Append(p, e) \in G) => p \in G
  PROVE  \A p \in Places : p \in G
<1> DEFINE T == {m \in 0 .. n + 1 : \A p \in Places : Len(p) >= m => p \in G}
<1>0. \A p \in Places : Len(p) \in Nat
  BY PlacesAre
<1>1. n + 1 \in T /\ n + 1 \in Nat
  BY <1>0
<1>2. ASSUME NEW m \in 0 .. (n + 1) - 1, m + 1 \in T PROVE m \in T
  <2>1. ASSUME NEW p \in Places, Len(p) = m PROVE p \in G
    <3>1. \A e \in Element : Append(p, e) \in Places /\ Len(Append(p, e)) = m + 1
      BY <2>1, StepOn
    <3>2. \A e \in Element : Append(p, e) \in G
      <4>1. m + 1 >= m + 1 /\ \A q \in Places : Len(q) >= m + 1 => q \in G
        BY <1>2
      <4> QED
        BY <3>1, <4>1
    <3> QED
      BY <3>2
  <2>2. \A p \in Places : Len(p) >= m => Len(p) = m \/ Len(p) >= m + 1
    BY <1>0
  <2> QED
    BY <1>2, <2>1, <2>2
<1> HIDE DEF T
<1>3. \A m \in 0 .. n + 1 : m \in T
  BY <1>1, <1>2, Downwards
<1>4. 0 \in T
  BY <1>3
<1> QED
  BY <1>0, <1>4 DEF T

(* What is beyond a place is the place itself or beyond one further. *)
LEMMA Beyond ==
  ASSUME NEW p \in Places
  PROVE  /\ IsPrefix(<<>>, p) /\ IsPrefix(p, p)
         /\ \A q \in Places : IsPrefix(p, q)
              => \/ q = p
                 \/ /\ Len(p) + 1 \in 1 .. Len(q) /\ q[Len(p) + 1] \in Element
                    /\ IsPrefix(Append(p, q[Len(p) + 1]), q)
         /\ \A q \in Places, e \in Element : IsPrefix(Append(p, e), q) => IsPrefix(p, q)
<1>0. p \in Seq(Element) /\ Len(p) \in Nat
  BY PlacesAre
<1>1. IsPrefix(<<>>, p) /\ IsPrefix(p, p)
  BY <1>0 DEF IsPrefix
<1>2. ASSUME NEW q \in Places, IsPrefix(p, q), q # p
      PROVE  /\ Len(p) + 1 \in 1 .. Len(q) /\ q[Len(p) + 1] \in Element
             /\ IsPrefix(Append(p, q[Len(p) + 1]), q)
  <2>1. q \in Seq(Element) /\ Len(q) \in Nat
    BY PlacesAre
  <2>2. Len(p) \in 0 .. Len(q) /\ Prefix(q, Len(p)) = p /\ \A j \in 1 .. Len(p) : p[j] = q[j]
    BY <1>0, <1>2, <2>1, Within
  <2>3. Len(p) # Len(q)
    BY <1>2, <2>1, <2>2, PrefixIs
  <2>4. Len(p) + 1 \in 1 .. Len(q) /\ q[Len(p) + 1] \in Element
    BY <1>0, <2>1, <2>2, <2>3
  <2>5. PICK r : r = Append(p, q[Len(p) + 1]) /\ r \in Seq(Element)
    BY <1>0, <2>4, AppendProperties
  <2>6. Len(r) = Len(p) + 1 /\ \A j \in 1 .. Len(r) : r[j] = q[j]
    BY <1>0, <2>2, <2>5
  <2>7. Prefix(r, Len(r)) = Prefix(q, Len(r))
    <3>1. Len(r) \in 0 .. Len(r) /\ Len(r) <= Len(q)
      BY <1>0, <2>1, <2>4, <2>6
    <3> QED
      BY <2>1, <2>5, <2>6, <3>1, SamePrefix
  <2>8. IsPrefix(r, q)
    <3>1. Len(r) <= Len(q)
      BY <1>0, <2>1, <2>4, <2>6
    <3> QED
      BY <2>7, <3>1 DEF IsPrefix, Prefix
  <2> QED
    BY <2>4, <2>5, <2>8
<1>3. ASSUME NEW q \in Places, NEW e \in Element, IsPrefix(Append(p, e), q)
      PROVE  IsPrefix(p, q)
  <2>1. q \in Seq(Element) /\ Len(q) \in Nat
    BY PlacesAre
  <2>2. PICK r : r = Append(p, e) /\ r \in Seq(Element)
    BY <1>0, AppendProperties
  <2>3. Len(r) = Len(p) + 1 /\ \A j \in 1 .. Len(p) : r[j] = p[j]
    BY <1>0, <2>2
  <2>4. Len(r) \in 0 .. Len(q) /\ \A j \in 1 .. Len(r) : r[j] = q[j]
    BY <1>3, <2>1, <2>2, Within
  <2>5. Len(p) \in 0 .. Len(p) /\ Len(p) <= Len(q) /\ \A j \in 1 .. Len(p) : p[j] = q[j]
    <3>1. \A j \in 1 .. Len(p) : j \in 1 .. Len(r)
      BY <1>0, <2>3
    <3> QED
      BY <1>0, <2>1, <2>3, <2>4, <3>1
  <2>6. Prefix(p, Len(p)) = Prefix(q, Len(p))
    BY <1>0, <2>1, <2>5, SamePrefix
  <2> QED
    BY <2>5, <2>6 DEF IsPrefix, Prefix
<1> QED
  BY <1>1, <1>2, <1>3

(* The valid paths of a document are its places. *)
LEMMA ValidOn ==
  ASSUME NEW v, NEW p \in Places
  PROVE  /\ IsValidPath(v, <<>>)
         /\ \A e \in Element :
              IsValidPath(v, Append(p, e)) <=> IsValidPath(v, p) /\ e \in Elements(Get(v, p))
<1>1. IsValidPath(v, <<>>)
  BY DEF IsValidPath
<1>2. ASSUME NEW e \in Element
      PROVE  IsValidPath(v, Append(p, e)) <=> IsValidPath(v, p) /\ e \in Elements(Get(v, p))
  <2>0. p \in Seq(Element) /\ Len(p) \in Nat
    BY PlacesAre
  <2>1. PICK q : q = Append(p, e) /\ q \in Seq(Element)
    BY <2>0, AppendProperties
  <2>2. /\ Len(q) = Len(p) + 1 /\ q[Len(p) + 1] = e
        /\ \A i \in 0 .. Len(p) : Prefix(q, i) = Prefix(p, i)
        /\ \A i \in 1 .. Len(p) : q[i] = p[i]
        /\ Prefix(q, Len(p)) = p
    BY <2>1, StepOn
  <2>3. DOMAIN q = 1 .. Len(p) + 1 /\ DOMAIN p = 1 .. Len(p)
    BY <2>0, <2>1, <2>2
  <2>4. \A i \in 1 .. Len(p) : q[i] \in Elements(Get(v, Prefix(q, i - 1)))
                               <=> p[i] \in Elements(Get(v, Prefix(p, i - 1)))
    <3>1. \A i \in 1 .. Len(p) : i - 1 \in 0 .. Len(p)
      BY <2>0
    <3> QED
      BY <2>2, <3>1
  <2>5. PICK l : l = Len(p) + 1 /\ l - 1 = Len(p) /\ l \in Nat
    BY <2>0
  <2>6. IsValidPath(v, q) <=> \A i \in 1 .. l : q[i] \in Elements(Get(v, Prefix(q, i - 1)))
    BY <2>3, <2>5 DEF IsValidPath, Prefix
  <2>7. \A i : i \in 1 .. l <=> i \in 1 .. Len(p) \/ i = l
    BY <2>0, <2>5
  <2>8. IsValidPath(v, p) <=> \A i \in 1 .. Len(p) : p[i] \in Elements(Get(v, Prefix(p, i - 1)))
    BY <2>3 DEF IsValidPath, Prefix
  <2>9. q[l] \in Elements(Get(v, Prefix(q, l - 1))) <=> e \in Elements(Get(v, p))
    BY <2>2, <2>5
  <2> QED
    BY <2>1, <2>4, <2>6, <2>7, <2>8, <2>9
<1> QED
  BY <1>1, <1>2

(* No path longer than n reads anything in v. *)
Ends(v, n) == \A p \in Places : Len(p) > n => Get(v, p) = Null

LEMMA PlacesInIs ==
  ASSUME NEW V, Closed(V), NEW v \in V, NEW n \in Nat, Ends(v, n)
  PROVE  PlacesIn(v) = {p \in Places : IsValidPath(v, p)}
<1> DEFINE Solves(h) ==
             h = [p \in Places |-> {p} \cup UNION {h[Append(p, e)] : e \in Elements(Get(v, p))}]
           from == CHOOSE h : Solves(h)
           Valid(p, q) == \A i \in Len(p) + 1 .. Len(q) : q[i] \in Elements(Get(v, Prefix(q, i - 1)))
           From(p) == {q \in Places : IsPrefix(p, q) /\ Valid(p, q)}
<1>1. Readable(V) /\ \A p \in Places : Len(p) \in Nat /\ Get(v, p) \in V /\ Elements(Get(v, p)) \subseteq Element
  <2>1. Readable(V)
    BY ClosedReads
  <2>2. \A p \in Places : Get(v, p) \in V
    BY <2>1, ReadFurther
  <2>3. \A p \in Places : Elements(Get(v, p)) \subseteq Element
    BY <2>2, AtIs
  <2> QED
    BY <2>1, <2>2, <2>3, PlacesAre
<1>2. ASSUME NEW p \in Places
      PROVE  From(p) = {p} \cup UNION {From(Append(p, e)) : e \in Elements(Get(v, p))}
  <2>1. p \in From(p)
    BY <1>1, Beyond
  <2>2. ASSUME NEW e \in Elements(Get(v, p)), NEW q \in From(Append(p, e))
        PROVE  q \in From(p)
    <3>0. e \in Element
      BY <1>1
    <3>1. IsPrefix(Append(p, e), q) /\ q \in Places /\ IsPrefix(p, q) /\ Valid(Append(p, e), q)
      BY <3>0, Beyond
    <3>2. /\ Len(Append(p, e)) = Len(p) + 1 /\ Append(p, e)[Len(p) + 1] = e
          /\ Append(p, e) \in Seq(Element) /\ p \in Seq(Element) /\ q \in Seq(Element)
      BY <3>0, <3>1, StepOn, PlacesAre
    <3>3. Prefix(q, Len(p)) = p /\ q[Len(p) + 1] = e
      <4>1. Prefix(q, Len(p)) = p
        BY <3>1, <3>2, Within
      <4>2. \A j \in 1 .. Len(Append(p, e)) : Append(p, e)[j] = q[j]
        BY <3>1, <3>2, Within
      <4>3. Len(p) + 1 \in 1 .. Len(Append(p, e))
        BY <1>1, <3>2
      <4> QED
        BY <3>2, <4>1, <4>2, <4>3
    <3>4. Len(p) \in Nat /\ Len(q) \in Nat
      BY <1>1, <3>1
    <3>5. ASSUME NEW i \in Len(p) + 1 .. Len(q)
          PROVE  q[i] \in Elements(Get(v, Prefix(q, i - 1)))
      <4>1. CASE i = Len(p) + 1
        <5>1. i - 1 = Len(p)
          BY <3>4, <4>1
        <5> QED
          BY <3>3, <4>1, <5>1
      <4>2. CASE i # Len(p) + 1
        <5>1. i \in Len(Append(p, e)) + 1 .. Len(q)
          BY <3>2, <3>4, <4>2
        <5> QED
          BY <3>1, <5>1
      <4> QED
        BY <4>1, <4>2
    <3> QED
      BY <3>1, <3>5
  <2>3. ASSUME NEW q \in From(p), q # p
        PROVE  \E e \in Elements(Get(v, p)) : q \in From(Append(p, e))
    <3>1. q \in Places /\ IsPrefix(p, q) /\ Valid(p, q)
      OBVIOUS
    <3>2. PICK e \in Element : e = q[Len(p) + 1] /\ Len(p) + 1 \in 1 .. Len(q) /\ IsPrefix(Append(p, e), q)
      BY <2>3, <3>1, Beyond
    <3>3. Prefix(q, Len(p)) = p /\ Len(p) \in Nat /\ Len(q) \in Nat /\ Len(Append(p, e)) = Len(p) + 1
      <4>1. p \in Seq(Element) /\ q \in Seq(Element)
        BY <3>1, PlacesAre
      <4> QED
        BY <1>1, <3>1, <4>1, Within, StepOn
    <3>4. e \in Elements(Get(v, p))
      <4>1. PICK l : l = Len(p) + 1 /\ l - 1 = Len(p) /\ l \in Len(p) + 1 .. Len(q)
        BY <3>2, <3>3
      <4>2. q[l] \in Elements(Get(v, Prefix(q, l - 1)))
        BY <3>1, <4>1
      <4> QED
        BY <3>2, <3>3, <4>1, <4>2
    <3>5. Valid(Append(p, e), q)
      <4>1. \A i : i \in Len(Append(p, e)) + 1 .. Len(q) => i \in Len(p) + 1 .. Len(q)
        BY <3>3
      <4> QED
        BY <3>1, <4>1
    <3> QED
      BY <3>1, <3>2, <3>4, <3>5
  <2> HIDE DEF From
  <2> QED
    BY <2>1, <2>2, <2>3
<1> HIDE DEF From
<1>3. Solves(from)
  <2> DEFINE h == [p \in Places |-> From(p)]
  <2>1. \A p \in Places : \A e \in Elements(Get(v, p)) : h[Append(p, e)] = From(Append(p, e))
    BY <1>1, StepOn
  <2>2. \A p \in Places : h[p] = {p} \cup UNION {h[Append(p, e)] : e \in Elements(Get(v, p))}
    <3> SUFFICES ASSUME NEW p \in Places
                 PROVE  From(p) = {p} \cup UNION {h[Append(p, e)] : e \in Elements(Get(v, p))}
      OBVIOUS
    <3>1. {h[Append(p, e)] : e \in Elements(Get(v, p))} = {From(Append(p, e)) : e \in Elements(Get(v, p))}
      BY <2>1
    <3> QED
      BY <1>2, <3>1
  <2>3. h = [p \in Places |-> h[p]]
    OBVIOUS
  <2> HIDE DEF h
  <2>4. Solves(h)
    BY <2>2, <2>3
  <2> QED
    BY <2>4
<1>4. PlacesIn(v) = from[<<>>]
  BY DEF PlacesIn
<1> HIDE DEF from
<1>5. \A p \in Places : from[p] = {p} \cup UNION {from[Append(p, e)] : e \in Elements(Get(v, p))}
  BY <1>3
<1> DEFINE G == {p \in Places : from[p] = From(p)}
<1>6. ASSUME NEW p \in Places, Len(p) > n PROVE p \in G
  <2>1. Elements(Get(v, p)) = {}
    BY <1>6, KindsAre DEF Ends
  <2>2. {from[Append(p, e)] : e \in Elements(Get(v, p))} = {From(Append(p, e)) : e \in Elements(Get(v, p))}
    BY <2>1
  <2> QED
    BY <1>2, <1>5, <2>2
<1>7. ASSUME NEW p \in Places, \A e \in Element : Append(p, e) \in G PROVE p \in G
  <2>1. \A e \in Elements(Get(v, p)) : from[Append(p, e)] = From(Append(p, e))
    BY <1>1, <1>7
  <2>2. {from[Append(p, e)] : e \in Elements(Get(v, p))} = {From(Append(p, e)) : e \in Elements(Get(v, p))}
    BY <2>1
  <2> QED
    BY <1>2, <1>5, <2>2
<1>8. <<>> \in Places /\ Len(<<>>) = 0
  BY PlacesAre, EmptySeq
<1>9. from[<<>>] = From(<<>>)
  <2> HIDE DEF G
  <2>1. \A p \in Places : p \in G
    BY <1>6, <1>7, FromTheEnds
  <2> QED
    BY <1>8, <2>1 DEF G
<1>10. From(<<>>) = {p \in Places : IsValidPath(v, p)}
  <2>1. \A p \in Places : IsPrefix(<<>>, p) /\ DOMAIN p = 1 .. Len(p)
    BY Beyond, PlacesAre
  <2>2. \A p \in Places : (\A i \in 0 + 1 .. Len(p) : p[i] \in Elements(Get(v, Prefix(p, i - 1))))
                            <=> IsValidPath(v, p)
    BY <2>1 DEF IsValidPath, Prefix
  <2>3. \A p \in Places : Valid(<<>>, p) <=> IsValidPath(v, p)
    BY <1>8, <2>2
  <2> HIDE DEF Valid
  <2> QED
    BY <2>1, <2>3 DEF From
<1> QED
  BY <1>4, <1>9, <1>10

(* The functions the recursions define.  Each exists since what they recurse on ends:
   it is there for long paths, and if for those longer than m, then for those as long. *)
EntriesOf(h, v, mark, p) ==
  LET part == Get(v, p)
  IN  CASE part.kind = "leaf" -> Node(mark, part)
        [] part.kind = "null" -> Null
        [] OTHER -> MapOf([e \in Elements(part) |-> h[Append(p, e)]])

IsEntries(h, v, mark) == h = [p \in Places |-> EntriesOf(h, v, mark, p)]

LEMMA EntriesAre ==
  ASSUME NEW V, Closed(V), NEW v \in V, NEW n \in Nat, Ends(v, n), NEW mark
  PROVE  \E h : IsEntries(h, v, mark) /\ \A p \in Places : CollectEntries(v, p, mark) = h[p]
<1> DEFINE Of(h, p) == EntriesOf(h, v, mark, p)
           From(m) == {p \in Places : Len(p) >= m}
           T == {m \in 0 .. n + 1 : \E h : h = [p \in From(m) |-> Of(h, p)]}
<1>1. \A p \in Places : Len(p) \in Nat /\ Elements(Get(v, p)) \subseteq Element
  <2>1. \A p \in Places : Get(v, p) \in V
    BY ClosedReads, ReadFurther
  <2> QED
    BY <2>1, AtIs, PlacesAre
<1>2. n + 1 \in T
  <2>1. ASSUME NEW p \in From(n + 1) PROVE Get(v, p) = Null
    BY <1>1 DEF Ends
  <2>2. PICK h : h = [p \in From(n + 1) |-> Null]
    OBVIOUS
  <2>3. \A p \in From(n + 1) : Of(h, p) = Null
    BY <2>1, KindsAre DEF EntriesOf
  <2> HIDE DEF Of, From
  <2>4. h = [p \in From(n + 1) |-> Of(h, p)]
    BY <2>2, <2>3
  <2> QED
    BY <2>4
<1>3. ASSUME NEW m \in 0 .. (n + 1) - 1, m + 1 \in T PROVE m \in T
  <2>1. PICK h : h = [p \in From(m + 1) |-> Of(h, p)]
    BY <1>3
  <2>2. PICK g : g = [p \in From(m) |-> IF Len(p) = m THEN Of(h, p) ELSE h[p]]
    OBVIOUS
  <2>3. ASSUME NEW p \in From(m) PROVE Of(g, p) = Of(h, p)
    <3>1. ASSUME NEW e \in Elements(Get(v, p)) PROVE g[Append(p, e)] = h[Append(p, e)]
      <4>1. Append(p, e) \in From(m) /\ Len(Append(p, e)) # m
        BY <1>1, StepOn
      <4> QED
        BY <2>2, <4>1
    <3>2. [e \in Elements(Get(v, p)) |-> g[Append(p, e)]] = [e \in Elements(Get(v, p)) |-> h[Append(p, e)]]
      BY <3>1
    <3> QED
      BY <3>2 DEF EntriesOf
  <2>4. \A p \in From(m) : Len(p) # m => p \in From(m + 1)
    BY <1>1
  <2> HIDE DEF Of, From
  <2>5. \A p \in From(m) : g[p] = Of(g, p)
    BY <2>1, <2>2, <2>3, <2>4
  <2>6. g = [p \in From(m) |-> Of(g, p)]
    BY <2>2, <2>5
  <2> QED
    BY <2>6
<1> HIDE DEF T
<1>4. \A m \in 0 .. n + 1 : m \in T
  BY <1>2, <1>3, Downwards
<1>5. 0 \in T /\ From(0) = Places
  BY <1>1, <1>4
<1>6. PICK g : g = [p \in Places |-> Of(g, p)]
  BY <1>5 DEF T
<1> DEFINE at == CHOOSE h : h = [p \in Places |-> Of(h, p)]
<1>7. at = [p \in Places |-> Of(at, p)]
  BY <1>6
<1>8. \A p \in Places : CollectEntries(v, p, mark) = at[p]
  BY DEF CollectEntries, EntriesOf
<1>9. IsEntries(at, v, mark)
  BY <1>7 DEF IsEntries
<1> QED
  BY <1>8, <1>9

ChangeOf(h, old, new, p) ==
  LET o == Get(old, p)
      n == Get(new, p)
      Child(e) ==
        CASE e \notin Elements(o) -> CollectEntries(new, Append(p, e), "add")
          [] e \notin Elements(n) -> CollectEntries(old, Append(p, e), "remove")
          [] OTHER -> h[Append(p, e)]
  IN  IF o = n THEN Null
      ELSE IF o.kind # n.kind \/ o.kind = "leaf" THEN Node("change", n)
      ELSE MapOf([e \in Differing(o, n) |-> Child(e)])

IsDiff(h, old, new) == h = [p \in Places |-> ChangeOf(h, old, new, p)]

LEMMA DiffIs ==
  ASSUME NEW V, Closed(V), NEW old \in V, NEW new \in V,
         NEW end \in Nat, Ends(old, end), Ends(new, end)
  PROVE  \E h : IsDiff(h, old, new) /\ DiffAsValue(old, new) = h[<<>>]
<1> DEFINE Of(h, p) == ChangeOf(h, old, new, p)
           From(m) == {p \in Places : Len(p) >= m}
           T == {m \in 0 .. end + 1 : \E h : h = [p \in From(m) |-> Of(h, p)]}
<1>1. \A p \in Places : /\ Len(p) \in Nat
                        /\ Elements(Get(old, p)) \subseteq Element /\ Elements(Get(new, p)) \subseteq Element
  <2>1. \A p \in Places : Get(old, p) \in V /\ Get(new, p) \in V
    BY ClosedReads, ReadFurther
  <2> QED
    BY <2>1, AtIs, PlacesAre
<1>2. end + 1 \in T
  <2>1. ASSUME NEW p \in From(end + 1) PROVE Get(old, p) = Null /\ Get(new, p) = Null
    BY <1>1 DEF Ends
  <2>2. PICK h : h = [p \in From(end + 1) |-> Null]
    OBVIOUS
  <2>3. \A p \in From(end + 1) : Of(h, p) = Null
    BY <2>1, KindsAre DEF ChangeOf
  <2> HIDE DEF Of, From
  <2>4. h = [p \in From(end + 1) |-> Of(h, p)]
    BY <2>2, <2>3
  <2> QED
    BY <2>4
<1>3. ASSUME NEW m \in 0 .. (end + 1) - 1, m + 1 \in T PROVE m \in T
  <2>1. PICK h : h = [p \in From(m + 1) |-> Of(h, p)]
    BY <1>3
  <2>2. PICK g : g = [p \in From(m) |-> IF Len(p) = m THEN Of(h, p) ELSE h[p]]
    OBVIOUS
  <2>3. ASSUME NEW p \in From(m) PROVE Of(g, p) = Of(h, p)
    <3>1. ASSUME NEW e \in Elements(Get(old, p)) \cup Elements(Get(new, p))
          PROVE  g[Append(p, e)] = h[Append(p, e)]
      <4>1. Append(p, e) \in From(m) /\ Len(Append(p, e)) # m
        BY <1>1, StepOn
      <4> QED
        BY <2>2, <4>1
    <3> DEFINE Child(f, e) ==
                 CASE e \notin Elements(Get(old, p)) -> CollectEntries(new, Append(p, e), "add")
                   [] e \notin Elements(Get(new, p)) -> CollectEntries(old, Append(p, e), "remove")
                   [] OTHER -> f[Append(p, e)]
    <3>2. \A e \in Differing(Get(old, p), Get(new, p)) : Child(g, e) = Child(h, e)
      BY <3>1 DEF Differing
    <3>3. [e \in Differing(Get(old, p), Get(new, p)) |-> Child(g, e)]
            = [e \in Differing(Get(old, p), Get(new, p)) |-> Child(h, e)]
      BY <3>2
    <3> QED
      BY <3>3 DEF ChangeOf
  <2>4. \A p \in From(m) : Len(p) # m => p \in From(m + 1)
    BY <1>1
  <2> HIDE DEF Of, From
  <2>5. \A p \in From(m) : g[p] = Of(g, p)
    BY <2>1, <2>2, <2>3, <2>4
  <2>6. g = [p \in From(m) |-> Of(g, p)]
    BY <2>2, <2>5
  <2> QED
    BY <2>6
<1> HIDE DEF T
<1>4. \A m \in 0 .. end + 1 : m \in T
  BY <1>2, <1>3, Downwards
<1>5. 0 \in T /\ From(0) = Places
  BY <1>1, <1>4
<1>6. PICK g : g = [p \in Places |-> Of(g, p)]
  BY <1>5 DEF T
<1> DEFINE at == CHOOSE h : h = [p \in Places |-> Of(h, p)]
<1>7. at = [p \in Places |-> Of(at, p)]
  BY <1>6
<1>8. DiffAsValue(old, new) = at[<<>>]
  BY DEF DiffAsValue, ChangeOf
<1>9. IsDiff(at, old, new)
  BY <1>7 DEF IsDiff
<1> QED
  BY <1>8, <1>9

AppliedOf(h, root, diff, p) ==
  LET r == Get(root, p)
      d == Get(diff, p)
      children == [e \in DOMAIN d.entries |-> h[Append(p, e)]]
  IN  IF d.kind = "diff" THEN IF d.type = "remove" THEN Null ELSE IF d.new = Null THEN Thrown ELSE d.new
      ELSE IF d.kind # "map" \/ \E e \in DOMAIN d.entries : children[e] = Thrown THEN Thrown
      ELSE CASE r.kind = "map" -> MergedMap(r.entries, children)
             [] r.kind = "null" -> MergedMap(<<>>, children)
             [] r.kind = "vector" /\ DOMAIN d.entries \cap Keys = {} -> MergedVector(r.items, children)
             [] OTHER -> Thrown

IsApplied(h, root, diff) == h = [p \in Places |-> AppliedOf(h, root, diff, p)]

LEMMA ApplyIs ==
  ASSUME NEW root, NEW diff, NEW end \in Nat, Ends(diff, end),
         \A p \in Places : Get(diff, p).kind = "map" => DOMAIN Get(diff, p).entries \subseteq Element
  PROVE  \E h : IsApplied(h, root, diff) /\ ApplyNode(root, diff) = h[<<>>]
<1> DEFINE Of(h, p) == AppliedOf(h, root, diff, p)
           From(m) == {p \in Places : Len(p) >= m}
           T == {m \in 0 .. end + 1 : \E h : h = [p \in From(m) |-> Of(h, p)]}
<1>1. \A p \in Places : Len(p) \in Nat
  BY PlacesAre
<1>2. end + 1 \in T
  <2>1. ASSUME NEW p \in From(end + 1) PROVE Get(diff, p) = Null
    BY <1>1 DEF Ends
  <2>2. PICK h : h = [p \in From(end + 1) |-> Thrown]
    OBVIOUS
  <2>3. \A p \in From(end + 1) : Of(h, p) = Thrown
    BY <2>1, KindsAre DEF AppliedOf
  <2> HIDE DEF Of, From
  <2>4. h = [p \in From(end + 1) |-> Of(h, p)]
    BY <2>2, <2>3
  <2> QED
    BY <2>4
<1>3. ASSUME NEW m \in 0 .. (end + 1) - 1, m + 1 \in T PROVE m \in T
  <2>1. PICK h : h = [p \in From(m + 1) |-> Of(h, p)]
    BY <1>3
  <2>2. PICK g : g = [p \in From(m) |-> IF Len(p) = m THEN Of(h, p) ELSE h[p]]
    OBVIOUS
  <2>3. ASSUME NEW p \in From(m) PROVE Of(g, p) = Of(h, p)
    <3>1. CASE Get(diff, p).kind = "map"
      <4>1. ASSUME NEW e \in DOMAIN Get(diff, p).entries PROVE g[Append(p, e)] = h[Append(p, e)]
        <5>1. Append(p, e) \in From(m) /\ Len(Append(p, e)) # m
          BY <1>1, <3>1, StepOn
        <5> QED
          BY <2>2, <5>1
      <4>2. [e \in DOMAIN Get(diff, p).entries |-> g[Append(p, e)]]
              = [e \in DOMAIN Get(diff, p).entries |-> h[Append(p, e)]]
        BY <4>1
      <4>3. PICK c : /\ c = [e \in DOMAIN Get(diff, p).entries |-> g[Append(p, e)]]
                     /\ c = [e \in DOMAIN Get(diff, p).entries |-> h[Append(p, e)]]
        BY <4>2
      <4> QED
        BY <4>3 DEF AppliedOf
    <3>2. CASE Get(diff, p).kind # "map"
      BY <3>2 DEF AppliedOf
    <3> QED
      BY <3>1, <3>2
  <2>4. \A p \in From(m) : Len(p) # m => p \in From(m + 1)
    BY <1>1
  <2> HIDE DEF Of, From
  <2>5. \A p \in From(m) : g[p] = Of(g, p)
    BY <2>1, <2>2, <2>3, <2>4
  <2>6. g = [p \in From(m) |-> Of(g, p)]
    BY <2>2, <2>5
  <2> QED
    BY <2>6
<1> HIDE DEF T
<1>4. \A m \in 0 .. end + 1 : m \in T
  BY <1>2, <1>3, Downwards
<1>5. 0 \in T /\ From(0) = Places
  BY <1>1, <1>4
<1>6. PICK g : g = [p \in Places |-> Of(g, p)]
  BY <1>5 DEF T
<1> DEFINE at == CHOOSE h : h = [p \in Places |-> Of(h, p)]
<1>7. at = [p \in Places |-> Of(at, p)]
  BY <1>6
<1>8. ApplyNode(root, diff) = at[<<>>]
  BY DEF ApplyNode, AppliedOf
<1>9. IsApplied(at, root, diff)
  BY <1>7 DEF IsApplied
<1> QED
  BY <1>8, <1>9

-----------------------------------------------------------------------------
(* The difference as a tree: what its nodes are, and what is read in it *)
LEMMA NodesAre ==
  /\ \A t, x : /\ Node(t, x).kind = "diff" /\ Node(t, x).type = t /\ Node(t, x).new = x
               /\ Elements(Node(t, x)) = {} /\ Node(t, x) # Null
               /\ \A e : At(Node(t, x), e) = Null
  /\ Thrown # Null /\ Thrown.kind = "thrown"
  /\ \A f : MapOf(f) # Thrown /\ MapOf(f) # Null
  /\ \A s : VectorOf(s) # Thrown /\ VectorOf(s) # Null
  /\ \A f, s : MapOf(f) # VectorOf(s)
<1>1. \A t, x : /\ Node(t, x).kind = "diff" /\ Node(t, x).type = t /\ Node(t, x).new = x
                /\ Elements(Node(t, x)) = {}
  BY DEF Node, Elements
<1>2. Thrown.kind = "thrown"
  BY DEF Thrown
<1>3. /\ \A t, x : Node(t, x) # Null
      /\ Thrown # Null
      /\ \A f : MapOf(f) # Thrown /\ MapOf(f) # Null
      /\ \A s : VectorOf(s) # Thrown /\ VectorOf(s) # Null
      /\ \A f, s : MapOf(f) # VectorOf(s)
  <2>1. /\ \A t, x : Node(t, x).kind # Null.kind
        /\ Thrown.kind # Null.kind
        /\ \A f : MapOf(f).kind # Thrown.kind /\ MapOf(f).kind # Null.kind
        /\ \A s : VectorOf(s).kind # Thrown.kind /\ VectorOf(s).kind # Null.kind
        /\ \A f, s : MapOf(f).kind # VectorOf(s).kind
    BY <1>1, <1>2, KindsAre
  <2> QED
    BY <2>1
<1>4. \A t, x, e : At(Node(t, x), e) = Null
  BY <1>1 DEF At
<1> QED
  BY <1>1, <1>2, <1>3, <1>4

LEMMA KindOf ==
  ASSUME NEW V, Closed(V), NEW v \in V
  PROVE  /\ v # Thrown /\ (v.kind = "null" <=> v = Null)
         /\ v.kind \in {"null", "leaf", "map", "vector"}
         /\ v.kind \in {"null", "leaf"} => Elements(v) = {}
         /\ v.kind = "map" => \E K \in KeySets : \E f \in [K -> V] : v = MapOf(f)
         /\ v.kind = "vector" => \E s \in Seq(V) : v = VectorOf(s)
<1>1. ASSUME v = Null PROVE v # Thrown /\ v.kind = "null" /\ Elements(v) = {}
  BY <1>1, KindsAre, NodesAre
<1>2. ASSUME NEW x \in Leaves, v = Leaf(x) PROVE v # Thrown /\ v.kind = "leaf" /\ Elements(v) = {}
  BY <1>2, KindsAre, NodesAre
<1>3. ASSUME NEW K \in KeySets, NEW f \in [K -> V], v = MapOf(f) PROVE v # Thrown /\ v.kind = "map"
  BY <1>3, KindsAre, NodesAre
<1>4. ASSUME NEW s \in Seq(V), v = VectorOf(s) PROVE v # Thrown /\ v.kind = "vector"
  BY <1>4, KindsAre, NodesAre
<1>5. Null.kind = "null"
  BY KindsAre
<1>6. \/ v = Null
      \/ \E x \in Leaves : v = Leaf(x)
      \/ \E K \in KeySets : \E f \in [K -> V] : v = MapOf(f)
      \/ \E s \in Seq(V) : v = VectorOf(s)
  BY Shapes
<1> QED
  BY <1>1, <1>2, <1>3, <1>4, <1>5, <1>6

(* Induction from the root to the ends of paths *)
LEMMA FromTheRoot ==
  ASSUME NEW G, <<>> \in G,
         \A p \in Places : p \in G => \A e \in Element : Append(p, e) \in G
  PROVE  \A p \in Places : p \in G
<1> SUFFICES ASSUME NEW p \in Places PROVE p \in G
  OBVIOUS
<1> DEFINE T == {i \in 0 .. Len(p) : Prefix(p, i) \in G}
<1>1. p \in Seq(Element) /\ Len(p) \in Nat
  BY PlacesAre
<1>2. 0 \in T
  BY <1>1, PrefixIs
<1>3. ASSUME NEW i \in 0 .. Len(p) - 1, i \in T PROVE i + 1 \in T
  <2>1. i \in 0 .. Len(p) /\ i + 1 \in 0 .. Len(p) /\ i + 1 \in 1 .. Len(p)
    BY <1>1
  <2>2. PICK q : q = Prefix(p, i) /\ q \in Places /\ q \in Seq(Element) /\ Len(q) = i
                 /\ \A j \in 1 .. i : q[j] = p[j]
    BY <1>1, <2>1, PrefixIs, PlacesAre
  <2>3. p[i + 1] \in Element
    BY <1>1, <2>1
  <2>4. PICK r : r = Append(q, p[i + 1]) /\ r \in Seq(Element) /\ Len(r) = i + 1 /\ r[i + 1] = p[i + 1]
                 /\ \A j \in 1 .. i : r[j] = q[j]
    <3>1. PICK e \in Element : e = p[i + 1]
      BY <2>3
    <3>2. /\ Append(q, e) \in Seq(Element) /\ Len(Append(q, e)) = Len(q) + 1
          /\ Append(q, e)[Len(q) + 1] = e /\ \A j \in 1 .. Len(q) : Append(q, e)[j] = q[j]
      BY <2>2, AppendProperties
    <3> QED
      BY <2>2, <3>1, <3>2
  <2>5. r = Prefix(p, i + 1)
    <3>1. PICK s : s = Prefix(p, i + 1) /\ s \in Seq(Element) /\ Len(s) = i + 1
                   /\ \A j \in 1 .. i + 1 : s[j] = p[j]
      BY <1>1, <2>1, PrefixIs
    <3>2. \A j \in 1 .. i + 1 : r[j] = s[j]
      <4>1. \A j \in 1 .. i + 1 : j \in 1 .. i \/ j = i + 1
        BY <2>1
      <4> QED
        BY <2>2, <2>4, <3>1, <4>1
    <3> QED
      BY <2>4, <3>1, <3>2, SeqEqual
  <2>6. q \in G
    BY <1>3, <2>2
  <2>7. r \in G
    BY <2>2, <2>3, <2>4, <2>6
  <2> QED
    BY <2>1, <2>5, <2>7
<1> HIDE DEF T
<1>4. \A i \in 0 .. Len(p) : i \in T
  BY <1>1, <1>2, <1>3, Upwards
<1>5. Prefix(p, Len(p)) \in G
  BY <1>1, <1>4 DEF T
<1> QED
  BY <1>1, <1>5, PrefixIs

LEMMA EntriesRead ==
  ASSUME NEW V, Closed(V), NEW v \in V, NEW mark, NEW h, IsEntries(h, v, mark), NEW p \in Places
  PROVE  /\ \A e : At(h[p], e) = IF e \in Elements(Get(v, p)) THEN h[Append(p, e)] ELSE Null
         /\ Get(v, p).kind = "leaf" => h[p] = Node(mark, Get(v, p))
         /\ Get(v, p).kind = "null" => h[p] = Null
         /\ Get(v, p).kind \in {"map", "vector"}
              => h[p].kind = "map" /\ DOMAIN h[p].entries = Elements(Get(v, p))
         /\ h[p].kind = "map" => DOMAIN h[p].entries \subseteq Element
<1> DEFINE part == Get(v, p)
<1>1. part \in V /\ Elements(part) \subseteq Element
  <2>1. part \in V
    BY ClosedReads, ReadFurther
  <2> QED
    BY <2>1, AtIs
<1>2. h[p] = CASE part.kind = "leaf" -> Node(mark, part)
               [] part.kind = "null" -> Null
               [] OTHER -> MapOf([e \in Elements(part) |-> h[Append(p, e)]])
  BY DEF IsEntries, EntriesOf
<1> HIDE DEF part
<1>3. part.kind \in {"null", "leaf"} => Elements(part) = {}
  BY <1>1, KindOf
<1>4. part.kind \in {"null", "leaf", "map", "vector"}
  BY <1>1, KindOf
<1>5. CASE part.kind = "leaf"
  <2>1. h[p] = Node(mark, part)
    BY <1>2, <1>5
  <2> QED
    BY <1>3, <1>5, <2>1, NodesAre DEF part
<1>6. CASE part.kind = "null"
  <2>1. h[p] = Null
    BY <1>2, <1>6
  <2> QED
    BY <1>3, <1>6, <2>1, KindsAre, ReadsAre DEF part
<1>7. CASE part.kind \in {"map", "vector"}
  <2>1. PICK f : f = [e \in Elements(part) |-> h[Append(p, e)]]
    OBVIOUS
  <2>2. h[p] = MapOf(f) /\ DOMAIN f = Elements(part)
    BY <1>2, <1>7, <2>1
  <2>3. \A e : At(h[p], e) = IF e \in Elements(part) THEN h[Append(p, e)] ELSE Null
    BY <2>1, <2>2, ReadsAre
  <2>4. h[p].kind = "map" /\ DOMAIN h[p].entries = Elements(part)
    BY <2>2, KindsAre
  <2> QED
    BY <1>1, <1>7, <2>3, <2>4 DEF part
<1> QED
  BY <1>4, <1>5, <1>6, <1>7

(* The documents, what there is to add, to remove and to change at each place, and
   the whole difference *)
Told(V, end, old, new, add, remove, change) ==
  /\ Closed(V) /\ old \in V /\ new \in V
  /\ end \in Nat /\ Ends(old, end) /\ Ends(new, end)
  /\ IsEntries(add, new, "add") /\ (\A p \in Places : CollectEntries(new, p, "add") = add[p])
  /\ IsEntries(remove, old, "remove") /\ (\A p \in Places : CollectEntries(old, p, "remove") = remove[p])
  /\ IsDiff(change, old, new) /\ DiffAsValue(old, new) = change[<<>>]

LEMMA ChangeReads ==
  ASSUME NEW V, NEW end, NEW old, NEW new, NEW add, NEW remove, NEW change,
         Told(V, end, old, new, add, remove, change),
         NEW p \in Places, NEW o, o = Get(old, p), NEW n, n = Get(new, p)
  PROVE  /\ o = n => change[p] = Null
         /\ o # n /\ (o.kind # n.kind \/ o.kind = "leaf") => change[p] = Node("change", n)
         /\ o # n /\ o.kind = n.kind /\ o.kind # "leaf"
              => /\ change[p].kind = "map" /\ DOMAIN change[p].entries = Differing(o, n)
                 /\ \A e \in Differing(o, n) :
                      At(change[p], e) = IF e \notin Elements(o) THEN add[Append(p, e)]
                                         ELSE IF e \notin Elements(n) THEN remove[Append(p, e)]
                                         ELSE change[Append(p, e)]
         /\ \A e : At(change[p], e) \in {Null, add[Append(p, e)], remove[Append(p, e)], change[Append(p, e)]}
         /\ change[p].kind = "map" => DOMAIN change[p].entries \subseteq Element
         /\ \A e : e \notin Element => At(change[p], e) = Null
<1>0. o \in V /\ n \in V /\ Elements(o) \subseteq Element /\ Elements(n) \subseteq Element
  <2>1. o \in V /\ n \in V
    BY ClosedReads, ReadFurther DEF Told
  <2> QED
    BY <2>1, AtIs DEF Told
<1> DEFINE Child(e) ==
             CASE e \notin Elements(o) -> CollectEntries(new, Append(p, e), "add")
               [] e \notin Elements(n) -> CollectEntries(old, Append(p, e), "remove")
               [] OTHER -> change[Append(p, e)]
<1>1. change[p] = IF o = n THEN Null
                  ELSE IF o.kind # n.kind \/ o.kind = "leaf" THEN Node("change", n)
                  ELSE MapOf([e \in Differing(o, n) |-> Child(e)])
  <2>1. change[p] = ChangeOf(change, old, new, p)
    BY DEF Told, IsDiff
  <2> QED
    BY <2>1 DEF ChangeOf
<1>2. \A e \in Differing(o, n) :
        Child(e) = IF e \notin Elements(o) THEN add[Append(p, e)]
                   ELSE IF e \notin Elements(n) THEN remove[Append(p, e)]
                   ELSE change[Append(p, e)]
  <2>1. \A e \in Differing(o, n) : e \in Element
    BY <1>0 DEF Differing
  <2>2. \A e \in Differing(o, n) : Append(p, e) \in Places
    BY <2>1, StepOn
  <2>3. \A q \in Places : CollectEntries(new, q, "add") = add[q] /\ CollectEntries(old, q, "remove") = remove[q]
    BY DEF Told
  <2>4. ASSUME NEW e \in Differing(o, n)
        PROVE  Child(e) = IF e \notin Elements(o) THEN add[Append(p, e)]
                          ELSE IF e \notin Elements(n) THEN remove[Append(p, e)]
                          ELSE change[Append(p, e)]
    <3>1. /\ CollectEntries(new, Append(p, e), "add") = add[Append(p, e)]
          /\ CollectEntries(old, Append(p, e), "remove") = remove[Append(p, e)]
      BY <2>2, <2>3
    <3>2. e \in Elements(o) \/ e \in Elements(n)
      BY DEF Differing
    <3> QED
      BY <3>1, <3>2
  <2> QED
    BY <2>4
<1> HIDE DEF Child
<1>3. CASE o = n
  <2>1. change[p] = Null
    BY <1>1, <1>3
  <2> QED
    BY <1>3, <2>1, ReadsAre, KindsAre
<1>4. CASE o # n /\ (o.kind # n.kind \/ o.kind = "leaf")
  <2>1. change[p] = Node("change", n)
    BY <1>1, <1>4
  <2> QED
    BY <1>4, <2>1, NodesAre
<1>5. CASE o # n /\ o.kind = n.kind /\ o.kind # "leaf"
  <2>1. PICK f : f = [e \in Differing(o, n) |-> Child(e)]
    OBVIOUS
  <2>2. change[p] = MapOf(f)
    BY <1>1, <1>5, <2>1
  <2>3. \A e : At(change[p], e) = IF e \in Differing(o, n) THEN Child(e) ELSE Null
    BY <2>1, <2>2, ReadsAre
  <2>4. change[p].kind = "map" /\ DOMAIN change[p].entries = Differing(o, n)
    BY <2>1, <2>2, KindsAre
  <2>5. Differing(o, n) \subseteq Element
    BY <1>0 DEF Differing
  <2>6. \A e : At(change[p], e) \in {Null, add[Append(p, e)], remove[Append(p, e)], change[Append(p, e)]}
    BY <1>2, <2>3
  <2> QED
    BY <1>2, <1>5, <2>3, <2>4, <2>5, <2>6
<1> QED
  BY <1>3, <1>4, <1>5

LEMMA ToldIs ==
  ASSUME NEW V, Closed(V), NEW old \in V, NEW new \in V,
         NEW end \in Nat, Ends(old, end), Ends(new, end)
  PROVE  \E add, remove, change : Told(V, end, old, new, add, remove, change)
<1>1. PICK add : IsEntries(add, new, "add") /\ \A p \in Places : CollectEntries(new, p, "add") = add[p]
  BY EntriesAre
<1>2. PICK remove : /\ IsEntries(remove, old, "remove")
                    /\ \A p \in Places : CollectEntries(old, p, "remove") = remove[p]
  BY EntriesAre
<1>3. PICK change : IsDiff(change, old, new) /\ DiffAsValue(old, new) = change[<<>>]
  BY DiffIs
<1> QED
  BY <1>1, <1>2, <1>3 DEF Told

(* Reading in the difference, and that applying it is defined *)
LEMMA TreeIs ==
  ASSUME NEW V, NEW end, NEW old, NEW new, NEW add, NEW remove, NEW change,
         Told(V, end, old, new, add, remove, change), NEW diff, diff = change[<<>>]
  PROVE  /\ Get(diff, <<>>) = diff
         /\ \A p \in Places, e \in Element : Get(diff, Append(p, e)) = At(Get(diff, p), e)
         /\ \E a : IsApplied(a, old, diff) /\ ApplyNode(old, diff) = a[<<>>]
<1> DEFINE At3(p) == {Null, add[p], remove[p], change[p]}
           W == UNION {At3(p) : p \in Places}
<1>0. /\ Closed(V) /\ old \in V /\ new \in V /\ Ends(old, end) /\ Ends(new, end) /\ end \in Nat
      /\ IsEntries(add, new, "add") /\ IsEntries(remove, old, "remove")
  BY DEF Told
<1>1. ASSUME NEW p \in Places
      PROVE  /\ \A w \in At3(p), e \in Element : At(w, e) \in At3(Append(p, e))
             /\ \A w \in At3(p) : \A e : e \notin Element => At(w, e) = Null
             /\ \A w \in At3(p) : w.kind = "map" => DOMAIN w.entries \subseteq Element
  <2>1. /\ \A e : At(add[p], e) = IF e \in Elements(Get(new, p)) THEN add[Append(p, e)] ELSE Null
        /\ add[p].kind = "map" => DOMAIN add[p].entries \subseteq Element
    BY <1>0, EntriesRead
  <2>2. /\ \A e : At(remove[p], e) = IF e \in Elements(Get(old, p)) THEN remove[Append(p, e)] ELSE Null
        /\ remove[p].kind = "map" => DOMAIN remove[p].entries \subseteq Element
    BY <1>0, EntriesRead
  <2>3. /\ \A e : At(change[p], e) \in At3(Append(p, e))
        /\ \A e : e \notin Element => At(change[p], e) = Null
        /\ change[p].kind = "map" => DOMAIN change[p].entries \subseteq Element
    BY ChangeReads
  <2>4. Elements(Get(new, p)) \subseteq Element /\ Elements(Get(old, p)) \subseteq Element
    <3>1. Get(new, p) \in V /\ Get(old, p) \in V
      BY <1>0, ClosedReads, ReadFurther
    <3> QED
      BY <1>0, <3>1, AtIs
  <2>5. (\A e : At(Null, e) = Null) /\ Null.kind # "map"
    BY ReadsAre, KindsAre
  <2> QED
    BY <2>1, <2>2, <2>3, <2>4, <2>5
<1>2. <<>> \in Places /\ \A p \in Places, e \in Element : Append(p, e) \in Places
  BY PlacesAre, EmptySeq, StepOn
<1> HIDE DEF At3
<1>3. Readable(W)
  <2> SUFFICES ASSUME NEW p \in Places, NEW w \in At3(p), NEW e PROVE At(w, e) \in W
    BY DEF Readable
  <2>1. CASE e \in Element
    BY <1>1, <1>2, <2>1
  <2>2. CASE e \notin Element
    <3>1. At(w, e) = Null /\ Null \in At3(p)
      BY <1>1, <2>2 DEF At3
    <3> QED
      BY <3>1
  <2> QED
    BY <2>1, <2>2
<1>4. diff \in At3(<<>>) /\ diff \in W
  <2>1. diff \in At3(<<>>)
    BY DEF At3
  <2> QED
    BY <1>2, <2>1
<1> HIDE DEF W
<1>5. /\ Get(diff, <<>>) = diff
      /\ \A p \in Places, e \in Element : Get(diff, Append(p, e)) = At(Get(diff, p), e)
  BY <1>2, <1>3, <1>4, ReadFurther
<1> DEFINE G == {p \in Places : Get(diff, p) \in At3(p)}
<1>6. \A p \in Places : Get(diff, p) \in At3(p)
  <2>1. <<>> \in G
    BY <1>2, <1>4, <1>5
  <2>2. ASSUME NEW p \in Places, p \in G PROVE \A e \in Element : Append(p, e) \in G
    BY <1>1, <1>2, <1>5, <2>2
  <2> HIDE DEF G
  <2>3. \A p \in Places : p \in G
    BY <2>1, <2>2, FromTheRoot
  <2> QED
    BY <2>3 DEF G
<1>7. Ends(diff, end)
  <2> SUFFICES ASSUME NEW p \in Places, Len(p) > end PROVE Get(diff, p) = Null
    BY DEF Ends
  <2>1. Get(old, p) = Null /\ Get(new, p) = Null /\ Null.kind = "null"
    BY <1>0, KindsAre DEF Ends
  <2>2. add[p] = Null /\ remove[p] = Null
    BY <1>0, <2>1, EntriesRead
  <2>3. change[p] = Null
    BY <2>1, ChangeReads
  <2> QED
    BY <1>6, <2>2, <2>3 DEF At3
<1>8. \A p \in Places : Get(diff, p).kind = "map" => DOMAIN Get(diff, p).entries \subseteq Element
  BY <1>1, <1>6
<1>9. \E a : IsApplied(a, old, diff) /\ ApplyNode(old, diff) = a[<<>>]
  BY <1>0, <1>7, <1>8, ApplyIs
<1> QED
  BY <1>5, <1>9

(* A place of a document is above another, or further than another. *)
LEMMA ValidBefore ==
  ASSUME NEW v, NEW p \in Places, NEW q \in Places, IsPrefix(p, q), IsValidPath(v, q)
  PROVE  IsValidPath(v, p)
<1>1. p \in Seq(Element) /\ q \in Seq(Element) /\ Len(p) \in Nat /\ Len(q) \in Nat
  BY PlacesAre
<1>2. Len(p) \in 0 .. Len(q) /\ Prefix(q, Len(p)) = p /\ \A j \in 1 .. Len(p) : p[j] = q[j]
  BY <1>1, Within
<1>3. ASSUME NEW i \in DOMAIN p PROVE p[i] \in Elements(Get(v, Prefix(p, i - 1)))
  <2>1. i \in 1 .. Len(p) /\ i \in DOMAIN q /\ i - 1 \in 0 .. Len(p)
    BY <1>1, <1>2
  <2>2. Prefix(Prefix(q, Len(p)), i - 1) = Prefix(q, i - 1)
    BY <1>1, <1>2, <2>1, PrefixOfPrefix
  <2>3. q[i] \in Elements(Get(v, Prefix(q, i - 1)))
    BY <2>1 DEF IsValidPath, Prefix
  <2> QED
    BY <1>2, <2>1, <2>2, <2>3
<1> QED
  BY <1>3 DEF IsValidPath, Prefix

LEMMA PlacesBelow ==
  ASSUME NEW v, NEW p \in Places, NEW q \in Places, IsPrefix(p, q), IsValidPath(v, q), q # p
  PROVE  \E e \in Element : /\ e \in Elements(Get(v, p)) /\ IsPrefix(Append(p, e), q)
                            /\ e = q[Len(p) + 1] /\ IsValidPath(v, Append(p, e))
<1>1. PICK e \in Element : e = q[Len(p) + 1] /\ IsPrefix(Append(p, e), q)
  BY Beyond
<1>2. Append(p, e) \in Places
  BY StepOn
<1>3. IsValidPath(v, Append(p, e))
  BY <1>1, <1>2, ValidBefore
<1>4. e \in Elements(Get(v, p))
  BY <1>3, ValidOn
<1> QED
  BY <1>1, <1>3, <1>4

LEMMA AddableIs ==
  ASSUME NEW V, Closed(V), NEW v \in V, NEW end \in Nat, Ends(v, end),
         NEW p \in Places, IsValidPath(v, p)
  PROVE  Addable(v, p)
           <=> /\ Get(v, p).kind \in {"leaf", "map"}
               /\ \A e \in Elements(Get(v, p)) : Addable(v, Append(p, e))
<1>1. \A q : q \in PlacesIn(v) <=> q \in Places /\ IsValidPath(v, q)
  BY PlacesInIs
<1>2. Elements(Get(v, p)) \subseteq Element
  <2>1. Get(v, p) \in V
    BY ClosedReads, ReadFurther
  <2> QED
    BY <2>1, AtIs
<1>3. ASSUME Addable(v, p)
      PROVE  /\ Get(v, p).kind \in {"leaf", "map"}
             /\ \A e \in Elements(Get(v, p)) : Addable(v, Append(p, e))
  <2>1. IsPrefix(p, p) /\ p \in PlacesIn(v)
    BY <1>1, Beyond
  <2>2. ASSUME NEW e \in Elements(Get(v, p)), NEW q \in PlacesIn(v), IsPrefix(Append(p, e), q)
        PROVE  Get(v, q).kind \in {"leaf", "map"}
    <3>1. IsPrefix(p, q)
      BY <1>1, <1>2, <2>2, Beyond
    <3> QED
      BY <1>3, <3>1 DEF Addable
  <2> QED
    BY <1>3, <2>1, <2>2 DEF Addable
<1>4. ASSUME Get(v, p).kind \in {"leaf", "map"},
             \A e \in Elements(Get(v, p)) : Addable(v, Append(p, e))
      PROVE  Addable(v, p)
  <2> SUFFICES ASSUME NEW q \in PlacesIn(v), IsPrefix(p, q) PROVE Get(v, q).kind \in {"leaf", "map"}
    BY DEF Addable
  <2>1. CASE q = p
    BY <1>4, <2>1
  <2>2. CASE q # p
    <3>1. PICK e \in Elements(Get(v, p)) : IsPrefix(Append(p, e), q)
      BY <1>1, <2>2, PlacesBelow
    <3> QED
      BY <1>4, <3>1 DEF Addable
  <2> QED
    BY <2>1, <2>2
<1> QED
  BY <1>3, <1>4

(* What is carried at a place and below it *)
CarriedFrom(old, new, p) ==
  \A q \in PlacesIn(old) \cap PlacesIn(new) : IsPrefix(p, q) => Carried(old, new, q)

LEMMA CarriedFromIs ==
  ASSUME NEW V, Closed(V), NEW old \in V, NEW new \in V, NEW end \in Nat, Ends(old, end), Ends(new, end),
         NEW p \in Places, IsValidPath(old, p), IsValidPath(new, p)
  PROVE  CarriedFrom(old, new, p)
           <=> /\ Carried(old, new, p)
               /\ \A e \in Elements(Get(old, p)) \cap Elements(Get(new, p)) :
                    CarriedFrom(old, new, Append(p, e))
<1>1. /\ \A q : q \in PlacesIn(old) <=> q \in Places /\ IsValidPath(old, q)
      /\ \A q : q \in PlacesIn(new) <=> q \in Places /\ IsValidPath(new, q)
  BY PlacesInIs
<1>2. Elements(Get(old, p)) \subseteq Element
  <2>1. Get(old, p) \in V
    BY ClosedReads, ReadFurther
  <2> QED
    BY <2>1, AtIs
<1>3. ASSUME CarriedFrom(old, new, p)
      PROVE  /\ Carried(old, new, p)
             /\ \A e \in Elements(Get(old, p)) \cap Elements(Get(new, p)) :
                  CarriedFrom(old, new, Append(p, e))
  <2>1. IsPrefix(p, p) /\ p \in PlacesIn(old) \cap PlacesIn(new)
    BY <1>1, Beyond
  <2>2. ASSUME NEW e \in Elements(Get(old, p)) \cap Elements(Get(new, p)),
               NEW q \in PlacesIn(old) \cap PlacesIn(new), IsPrefix(Append(p, e), q)
        PROVE  Carried(old, new, q)
    <3>1. IsPrefix(p, q)
      BY <1>1, <1>2, <2>2, Beyond
    <3> QED
      BY <1>3, <3>1 DEF CarriedFrom
  <2> QED
    BY <1>3, <2>1, <2>2 DEF CarriedFrom
<1>4. ASSUME Carried(old, new, p),
             \A e \in Elements(Get(old, p)) \cap Elements(Get(new, p)) : CarriedFrom(old, new, Append(p, e))
      PROVE  CarriedFrom(old, new, p)
  <2> SUFFICES ASSUME NEW q \in PlacesIn(old) \cap PlacesIn(new), IsPrefix(p, q) PROVE Carried(old, new, q)
    BY DEF CarriedFrom
  <2>1. CASE q = p
    BY <1>4, <2>1
  <2>2. CASE q # p
    <3>0. q \in Places /\ IsValidPath(old, q) /\ IsValidPath(new, q)
      BY <1>1
    <3>1. PICK e : e = q[Len(p) + 1] /\ e \in Elements(Get(old, p)) /\ IsPrefix(Append(p, e), q)
      BY <2>2, <3>0, PlacesBelow
    <3>2. e \in Elements(Get(new, p))
      BY <2>2, <3>0, <3>1, PlacesBelow
    <3> QED
      BY <1>4, <3>1, <3>2 DEF CarriedFrom
  <2> QED
    BY <2>1, <2>2
<1> QED
  BY <1>3, <1>4

-----------------------------------------------------------------------------
(* Applying a tree: what comes out at a place, by what the tree has there *)
LEMMA AppliedIs ==
  ASSUME NEW root, NEW diff, NEW a, IsApplied(a, root, diff), NEW p \in Places,
         NEW r, r = Get(root, p), NEW d, d = Get(diff, p)
  PROVE  /\ \A t, x : d = Node(t, x) => a[p] = IF t = "remove" THEN Null ELSE IF x = Null THEN Thrown ELSE x
         /\ d = Null => a[p] = Thrown
         /\ \A c : d.kind = "map" /\ c = [e \in DOMAIN d.entries |-> a[Append(p, e)]]
              => /\ a[p] # Null
                 /\ (\E e \in DOMAIN c : c[e] = Thrown) => a[p] = Thrown
                 /\ (\A e \in DOMAIN c : c[e] # Thrown)
                      => /\ r.kind = "map" => a[p] = MergedMap(r.entries, c)
                         /\ r.kind = "null" => a[p] = MergedMap(<<>>, c)
                         /\ r.kind = "vector" /\ DOMAIN c \cap Keys = {} => a[p] = MergedVector(r.items, c)
<1>1. a[p] = AppliedOf(a, root, diff, p)
  BY DEF IsApplied
<1>2. ASSUME NEW t, NEW x, d = Node(t, x)
      PROVE  a[p] = IF t = "remove" THEN Null ELSE IF x = Null THEN Thrown ELSE x
  <2>1. d.kind = "diff" /\ d.type = t /\ d.new = x
    BY <1>2, NodesAre
  <2>2. Get(diff, p).kind = "diff" /\ Get(diff, p).type = t /\ Get(diff, p).new = x
    BY <2>1
  <2> QED
    BY <1>1, <2>2 DEF AppliedOf
<1>3. ASSUME d = Null PROVE a[p] = Thrown
  <2>1. Get(diff, p).kind = "null"
    BY <1>3, KindsAre
  <2> QED
    BY <1>1, <2>1 DEF AppliedOf
<1>4. ASSUME NEW c, d.kind = "map", c = [e \in DOMAIN d.entries |-> a[Append(p, e)]]
      PROVE  /\ a[p] # Null
             /\ (\E e \in DOMAIN c : c[e] = Thrown) => a[p] = Thrown
             /\ (\A e \in DOMAIN c : c[e] # Thrown)
                  => /\ r.kind = "map" => a[p] = MergedMap(r.entries, c)
                     /\ r.kind = "null" => a[p] = MergedMap(<<>>, c)
                     /\ r.kind = "vector" /\ DOMAIN c \cap Keys = {} => a[p] = MergedVector(r.items, c)
  <2>0. Get(diff, p).kind = "map" /\ c = [e \in DOMAIN Get(diff, p).entries |-> a[Append(p, e)]]
    BY <1>4
  <2>1. a[p] = IF \E e \in DOMAIN d.entries : c[e] = Thrown THEN Thrown
               ELSE CASE r.kind = "map" -> MergedMap(r.entries, c)
                      [] r.kind = "null" -> MergedMap(<<>>, c)
                      [] r.kind = "vector" /\ DOMAIN d.entries \cap Keys = {} -> MergedVector(r.items, c)
                      [] OTHER -> Thrown
    BY <1>1, <2>0 DEF AppliedOf
  <2>2. DOMAIN c = DOMAIN d.entries
    BY <1>4
  <2>3. \A f, g : MergedMap(f, g) # Null /\ MergedVector(f, g) # Null
    BY NodesAre DEF MergedMap, MergedVector
  <2>4. Thrown # Null
    BY NodesAre
  <2> QED
    BY <2>1, <2>2, <2>3, <2>4
<1> QED
  BY <1>2, <1>3, <1>4

(* Maps merged and a map *)
MergedKeys(f, c) == (DOMAIN f \cup DOMAIN c) \ {e \in DOMAIN c : c[e] = Null}
MergedAt(f, c, e) == IF e \in DOMAIN c THEN c[e] ELSE f[e]

LEMMA MergedMapIs ==
  ASSUME NEW f, NEW c
  PROVE  /\ MergedMap(f, c) = MapOf([e \in MergedKeys(f, c) |-> MergedAt(f, c, e)])
         /\ \A s : MergedMap(f, c) # VectorOf(s)
<1>1. MergedMap(f, c) = MapOf([e \in MergedKeys(f, c) |-> MergedAt(f, c, e)])
  BY DEF MergedMap, MergedKeys, MergedAt
<1> QED
  BY <1>1, NodesAre

LEMMA MergedIs ==
  ASSUME NEW f, NEW c, NEW L, NEW g, DOMAIN g = L, g = [e \in L |-> g[e]]
  PROVE  (MergedMap(f, c) = MapOf(g)) <=> (MergedKeys(f, c) = L /\ \A e \in L : g[e] = MergedAt(f, c, e))
<1> DEFINE h == [e \in MergedKeys(f, c) |-> MergedAt(f, c, e)]
<1>1. DOMAIN h = MergedKeys(f, c) /\ \A e \in MergedKeys(f, c) : h[e] = MergedAt(f, c, e)
  OBVIOUS
<1>2. ASSUME MergedKeys(f, c) = L, \A e \in L : g[e] = MergedAt(f, c, e) PROVE h = g
  <2>1. g = [e \in L |-> MergedAt(f, c, e)]
    BY <1>2
  <2> QED
    BY <1>2, <2>1
<1>3. MergedMap(f, c) = MapOf(h)
  BY MergedMapIs
<1> HIDE DEF h
<1>4. MapOf(h).entries = h /\ MapOf(g).entries = g
  BY KindsAre
<1>5. ASSUME MergedMap(f, c) = MapOf(g)
      PROVE  MergedKeys(f, c) = L /\ \A e \in L : g[e] = MergedAt(f, c, e)
  <2>1. h = g
    BY <1>3, <1>4, <1>5
  <2>2. MergedKeys(f, c) = L
    BY <1>1, <2>1
  <2> QED
    BY <1>1, <2>1, <2>2
<1> QED
  BY <1>2, <1>3, <1>5

(* A removal is null for a leaf and nothing else. *)
LEMMA Removed ==
  ASSUME NEW V, NEW end, NEW old, NEW new, NEW add, NEW remove, NEW change,
         Told(V, end, old, new, add, remove, change), NEW diff, NEW a, IsApplied(a, old, diff),
         NEW p \in Places, Get(diff, p) = remove[p]
  PROVE  a[p] = Null <=> Get(old, p).kind = "leaf"
<1>1. Closed(V) /\ Get(old, p) \in V /\ IsEntries(remove, old, "remove")
  <2>1. Closed(V) /\ old \in V
    BY DEF Told
  <2> QED
    BY <2>1, ClosedReads, ReadFurther DEF Told
<1>2. Get(old, p).kind \in {"null", "leaf", "map", "vector"}
  BY <1>1, KindOf
<1>3. /\ Get(old, p).kind = "leaf" => remove[p] = Node("remove", Get(old, p))
      /\ Get(old, p).kind = "null" => remove[p] = Null
      /\ Get(old, p).kind \in {"map", "vector"} => remove[p].kind = "map"
  <2>1. old \in V
    BY DEF Told
  <2> QED
    BY <1>1, <2>1, EntriesRead
<1>4. CASE Get(old, p).kind = "leaf"
  BY <1>3, <1>4, AppliedIs
<1>5. CASE Get(old, p).kind = "null"
  BY <1>3, <1>5, AppliedIs, NodesAre
<1>6. CASE Get(old, p).kind \in {"map", "vector"}
  <2>1. Get(diff, p).kind = "map"
    BY <1>3, <1>6
  <2>2. PICK c : c = [e \in DOMAIN Get(diff, p).entries |-> a[Append(p, e)]]
    OBVIOUS
  <2>3. a[p] # Null
    BY <2>1, <2>2, AppliedIs
  <2> QED
    BY <1>6, <2>3
<1> QED
  BY <1>2, <1>4, <1>5, <1>6

(* An addition is what is added if it can be. *)
LEMMA Added ==
  ASSUME NEW V, NEW end, NEW old, NEW new, NEW add, NEW remove, NEW change,
         Told(V, end, old, new, add, remove, change), NEW diff, diff = change[<<>>],
         NEW a, IsApplied(a, old, diff)
  PROVE  \A p \in Places :
           IsValidPath(new, p) /\ Get(old, p) = Null /\ Get(diff, p) = add[p]
             => a[p] # Null /\ (a[p] = Get(new, p) <=> Addable(new, p))
<1> DEFINE G == {p \in Places :
                   IsValidPath(new, p) /\ Get(old, p) = Null /\ Get(diff, p) = add[p]
                     => a[p] # Null /\ (a[p] = Get(new, p) <=> Addable(new, p))}
<1>0. /\ Closed(V) /\ old \in V /\ new \in V /\ end \in Nat /\ Ends(old, end) /\ Ends(new, end)
      /\ IsEntries(add, new, "add")
  BY DEF Told
<1>1. ASSUME NEW p \in Places, \A e \in Element : e \in Elements(Get(new, p)) => Append(p, e) \in G
      PROVE  p \in G
  <2> SUFFICES ASSUME IsValidPath(new, p), Get(old, p) = Null, Get(diff, p) = add[p]
               PROVE  a[p] # Null /\ (a[p] = Get(new, p) <=> Addable(new, p))
    OBVIOUS
  <2>1. PICK n : n = Get(new, p) /\ n \in V
    BY <1>0, ClosedReads, ReadFurther
  <2>2. Elements(n) \subseteq Element /\ n.kind \in {"null", "leaf", "map", "vector"} /\ n # Thrown
        /\ (n.kind = "null" <=> n = Null) /\ (n.kind \in {"null", "leaf"} => Elements(n) = {})
    BY <1>0, <2>1, AtIs, KindOf
  <2>3. /\ \A e : At(add[p], e) = IF e \in Elements(n) THEN add[Append(p, e)] ELSE Null
        /\ n.kind = "leaf" => add[p] = Node("add", n)
        /\ n.kind = "null" => add[p] = Null
        /\ n.kind \in {"map", "vector"} => add[p].kind = "map" /\ DOMAIN add[p].entries = Elements(n)
    BY <1>0, <2>1, EntriesRead
  <2>4. Addable(new, p) <=> n.kind \in {"leaf", "map"} /\ \A e \in Elements(n) : Addable(new, Append(p, e))
    BY <1>0, <2>1, AddableIs
  <2>5. ASSUME NEW e \in Elements(n)
        PROVE  /\ a[Append(p, e)] # Null /\ Get(new, Append(p, e)) = At(n, e) /\ At(n, e) # Thrown
               /\ a[Append(p, e)] = At(n, e) <=> Addable(new, Append(p, e))
    <3>1. e \in Element /\ Append(p, e) \in G
      BY <1>1, <2>1, <2>2
    <3>2. IsValidPath(new, Append(p, e))
      BY <2>1, <3>1, ValidOn
    <3>3. Get(new, Append(p, e)) = At(n, e) /\ Get(old, Append(p, e)) = At(Null, e)
      BY <1>0, <2>1, <3>1, ClosedReads, ReadFurther
    <3>4. Get(diff, Append(p, e)) = add[Append(p, e)]
      BY <2>3, <3>1, TreeIs
    <3>5. At(Null, e) = Null /\ At(n, e) \in V
      BY <1>0, <2>1, ReadsAre, AtIs
    <3>6. At(n, e) # Thrown
      BY <1>0, <3>5, KindOf
    <3> QED
      BY <3>1, <3>2, <3>3, <3>4, <3>5, <3>6
  <2>6. CASE n.kind = "leaf"
    <3>1. Get(diff, p) = Node("add", n)
      BY <2>3, <2>6
    <3>2. n # Null /\ "add" # "remove"
      BY <2>2, <2>6
    <3>3. a[p] = n
      BY <3>1, <3>2, AppliedIs
    <3> QED
      BY <2>1, <2>2, <2>4, <2>6, <3>2, <3>3
  <2>7. CASE n.kind = "null"
    <3>1. a[p] = Thrown
      BY <2>3, <2>7, AppliedIs
    <3> QED
      BY <2>1, <2>2, <2>4, <2>7, <3>1, NodesAre
  <2>8. CASE n.kind \in {"map", "vector"}
    <3>1. Get(diff, p).kind = "map" /\ DOMAIN Get(diff, p).entries = Elements(n)
      BY <2>3, <2>8
    <3>2. PICK c : c = [e \in Elements(n) |-> a[Append(p, e)]]
      OBVIOUS
    <3>3. /\ a[p] # Null
          /\ (\E e \in Elements(n) : c[e] = Thrown) => a[p] = Thrown
          /\ (\A e \in Elements(n) : c[e] # Thrown) => a[p] = MergedMap(<<>>, c)
      <4>1. Get(old, p).kind = "null" /\ DOMAIN c = Elements(n)
        BY <3>2, KindsAre
      <4>2. c = [e \in DOMAIN Get(diff, p).entries |-> a[Append(p, e)]]
        BY <3>1, <3>2
      <4> QED
        BY <3>1, <4>1, <4>2, AppliedIs
    <3>4. CASE \E e \in Elements(n) : c[e] = Thrown
      <4>1. PICK e \in Elements(n) : c[e] = Thrown
        BY <3>4
      <4>2. ~Addable(new, Append(p, e))
        BY <2>5, <3>2, <4>1
      <4> QED
        BY <2>1, <2>2, <2>4, <3>3, <3>4, <4>2
    <3>5. CASE (\A e \in Elements(n) : c[e] # Thrown) /\ n.kind = "vector"
      <4>1. PICK s : n = VectorOf(s)
        BY <1>0, <2>1, <3>5, KindOf
      <4>2. MergedMap(<<>>, c) # n
        BY <4>1, MergedMapIs
      <4> QED
        BY <2>1, <2>4, <3>3, <3>5, <4>2
    <3>6. CASE (\A e \in Elements(n) : c[e] # Thrown) /\ n.kind = "map"
      <4>1. PICK K \in KeySets : \E f \in [K -> V] : n = MapOf(f)
        <5>1. Closed(V) /\ n \in V /\ n.kind = "map"
          BY <1>0, <2>1, <3>6
        <5> QED
          BY <5>1, KindOf, Zenon
      <4>0. PICK f \in [K -> V] : n = MapOf(f)
        BY <4>1
      <4>2. Elements(n) = K /\ \A e \in K : At(n, e) = f[e]
        BY <4>0, KindsAre, ReadsAre
      <4>3. \A e \in K : c[e] = a[Append(p, e)] /\ c[e] # Null
        BY <2>5, <3>2, <4>2
      <4>4. MergedMap(<<>>, c) = n <=> \A e \in K : f[e] = c[e]
        <5>1. DOMAIN c = K
          BY <3>2, <4>2
        <5>2. DOMAIN <<>> = {}
          OBVIOUS
        <5>3. MergedKeys(<<>>, c) = K
          BY <4>3, <5>1, <5>2 DEF MergedKeys
        <5>4. \A e \in K : MergedAt(<<>>, c, e) = c[e]
          BY <5>1 DEF MergedAt
        <5>5. DOMAIN f = K /\ f = [e \in K |-> f[e]]
          OBVIOUS
        <5>6. (MergedMap(<<>>, c) = MapOf(f))
                <=> (MergedKeys(<<>>, c) = K /\ \A e \in K : f[e] = MergedAt(<<>>, c, e))
          BY <5>5, MergedIs
        <5> QED
          BY <4>0, <5>3, <5>4, <5>6
      <4>5. \A e \in K : f[e] = c[e] <=> Addable(new, Append(p, e))
        BY <2>5, <4>2, <4>3
      <4> QED
        BY <2>1, <2>4, <3>3, <3>6, <4>2, <4>4, <4>5
    <3> QED
      BY <2>8, <3>4, <3>5, <3>6
  <2> QED
    BY <2>2, <2>6, <2>7, <2>8
<1>2. ASSUME NEW p \in Places, Len(p) > end PROVE p \in G
  <2>1. Elements(Get(new, p)) = {}
    BY <1>0, <1>2, KindsAre DEF Ends
  <2> QED
    BY <1>1, <2>1
<1>3. ASSUME NEW p \in Places, \A e \in Element : Append(p, e) \in G PROVE p \in G
  BY <1>1, <1>3
<1> HIDE DEF G
<1>4. \A p \in Places : p \in G
  BY <1>0, <1>2, <1>3, FromTheEnds
<1> QED
  BY <1>4 DEF G

(* Merging the children that differ into a map, or into a vector, gives the other
   map, or vector, where what was removed came out null and the rest is as there. *)
\* The children c of those that differ, D, of the entries L and M of two maps
Merges(f, g, c, L, M, D) ==
  /\ DOMAIN f = L /\ DOMAIN g = M /\ g = [e \in M |-> g[e]] /\ DOMAIN c = D
  /\ D \subseteq L \cup M /\ M \ L \subseteq D /\ L \ M \subseteq D
  /\ \A e \in M : e \in D => c[e] # Null
  /\ \A e \in M : e \notin D => f[e] = g[e]

LEMMA MapFits ==
  ASSUME NEW f, NEW g, NEW c, NEW L, NEW M, NEW D, Merges(f, g, c, L, M, D)
  PROVE  MergedMap(f, c) = MapOf(g)
           <=> (\A e \in L \ M : c[e] = Null) /\ \A e \in M : e \in D => c[e] = g[e]
<1> USE DEF Merges
<1>1. MergedMap(f, c) = MapOf(g) <=> (MergedKeys(f, c) = M /\ \A e \in M : g[e] = MergedAt(f, c, e))
  BY MergedIs
<1>2. MergedKeys(f, c) = M <=> \A e \in L \ M : c[e] = Null
  <2>1. \A e : e \in MergedKeys(f, c) <=> e \in L \cup D /\ ~(e \in D /\ c[e] = Null)
    BY DEF MergedKeys
  <2>2. \A e : e \in L \cup D <=> e \in L \cup M
    OBVIOUS
  <2> QED
    BY <2>1, <2>2
<1>3. \A e \in M : g[e] = MergedAt(f, c, e) <=> (e \in D => c[e] = g[e])
  BY DEF MergedAt
<1> QED
  BY <1>1, <1>2, <1>3

\* The children c of those that differ, D, of the elements L and M of two vectors
Grown(V, s, t, c, L, M, D) ==
  /\ Null \in V /\ s \in Seq(V) /\ t \in Seq(V)
  /\ L = 0 .. (Len(s) - 1) /\ M = 0 .. (Len(t) - 1)
  /\ DOMAIN c = D /\ D \subseteq L \cup M /\ M \ L \subseteq D
  /\ \A e \in M : e \in D => c[e] # Null
  /\ \A e \in M : e \notin D => s[e + 1] = t[e + 1]

LEMMA VectorFits ==
  ASSUME NEW V, NEW s, NEW t, NEW c, NEW L, NEW M, NEW D, Grown(V, s, t, c, L, M, D)
  PROVE  MergedVector(s, c) = VectorOf(t)
           <=> Len(s) <= Len(t) /\ \A e \in M : e \in D => c[e] = t[e + 1]
<1>0. /\ Null \in V /\ s \in Seq(V) /\ t \in Seq(V)
      /\ L = 0 .. (Len(s) - 1) /\ M = 0 .. (Len(t) - 1)
      /\ DOMAIN c = D /\ D \subseteq L \cup M /\ M \ L \subseteq D
      /\ \A e \in M : e \in D => c[e] # Null
      /\ \A e \in M : e \notin D => s[e + 1] = t[e + 1]
  BY DEF Grown
<1> USE <1>0
<1>1. PICK k \in Nat : k = Len(s)
  OBVIOUS
<1>2. PICK l \in Nat : l = Len(t)
  OBVIOUS
<1> DEFINE present == {e \in D : c[e] # Null}
           I == {k} \cup {e + 1 : e \in present}
           m == Max(I)
           longer == Lengthened(s, m)
           r == [i \in 1 .. m |-> IF i - 1 \in D THEN c[i - 1] ELSE longer[i]]
<1>3. \A e \in D : e \in Nat /\ (e < k \/ e < l)
  BY <1>1, <1>2
<1>4. I \subseteq 0 .. k + l /\ k \in I
  <2>1. \A e \in D : e + 1 \in 0 .. k + l
    BY <1>3
  <2> QED
    BY <2>1
<1>5. m \in I /\ \A y \in I : m >= y
  <2>1. k + l \in Nat
    OBVIOUS
  <2> HIDE DEF I
  <2> QED
    BY <1>4, <2>1, Greatest
<1>6. m \in Nat /\ k <= m
  BY <1>4, <1>5
<1>7. MergedVector(s, c) = VectorOf(r)
  BY <1>1 DEF MergedVector
<1>8. DOMAIN r = 1 .. m /\ \A i \in 1 .. m : r[i] = IF i - 1 \in D THEN c[i - 1] ELSE longer[i]
  OBVIOUS
<1>9. k <= l => m = l
  <2> SUFFICES ASSUME k <= l PROVE m = l
    OBVIOUS
  <2>1. \A y \in I : y <= l
    BY <1>3
  <2>2. l \in I
    <3>1. CASE k = l
      BY <3>1
    <3>2. CASE k < l
      <4>1. l - 1 \in 0 .. (l - 1) /\ l - 1 \notin 0 .. (k - 1) /\ (l - 1) + 1 = l
        BY <3>2
      <4>2. l - 1 \in D /\ c[l - 1] # Null
        BY <1>1, <1>2, <4>1
      <4> QED
        BY <4>1, <4>2
    <3> QED
      BY <3>1, <3>2
  <2> HIDE DEF I
  <2> QED
    BY <1>5, <1>6, <2>1, <2>2
<1> HIDE DEF I
<1>10. \A i \in 1 .. k : longer[i] = s[i]
  <2>1. /\ longer \in Seq(V) /\ m <= Len(longer)
        /\ \A x : At(VectorOf(longer), x) = At(VectorOf(s), x)
    BY <1>6, LengthenedIs
  <2> HIDE DEF longer, m
  <2> SUFFICES ASSUME NEW i \in 1 .. k PROVE longer[i] = s[i]
    OBVIOUS
  <2>2. PICK x : x = i - 1
    OBVIOUS
  <2>3. x \in 0 .. (Len(s) - 1) /\ x \in 0 .. (Len(longer) - 1) /\ x + 1 = i
    BY <1>1, <1>6, <2>1, <2>2
  <2>4. At(VectorOf(s), x) = s[x + 1] /\ At(VectorOf(longer), x) = longer[x + 1]
    BY <2>3, ReadsAre
  <2> QED
    BY <2>1, <2>3, <2>4
<1> HIDE DEF longer, m, r
<1>11. MergedVector(s, c) = VectorOf(t) <=> r = t
  <2>1. VectorOf(r).items = r /\ VectorOf(t).items = t
    BY KindsAre
  <2> QED
    BY <1>7, <2>1
<1>12. t \in [1 .. l -> V]
  BY <1>2
<1>13. ASSUME r = t PROVE k <= l /\ \A e \in 0 .. (l - 1) : e \in D => c[e] = t[e + 1]
  <2>1. m = l
    <3>1. 1 .. m = 1 .. l
      BY <1>8, <1>12, <1>13
    <3>2. m \in 0 .. m /\ l \in 0 .. l
      BY <1>6
    <3>3. m >= 1 => m \in 1 .. l
      BY <1>6, <3>1
    <3>4. l >= 1 => l \in 1 .. m
      BY <1>6, <3>1
    <3> QED
      BY <1>6, <3>3, <3>4
  <2>2. ASSUME NEW e \in 0 .. (l - 1), e \in D PROVE c[e] = t[e + 1]
    <3>1. e + 1 \in 1 .. m /\ (e + 1) - 1 = e
      BY <2>1
    <3>2. r[e + 1] = c[e]
      BY <1>8, <2>2, <3>1
    <3> QED
      BY <1>13, <3>2
  <2> QED
    BY <1>6, <2>1, <2>2
<1>14. ASSUME k <= l, \A e \in 0 .. (l - 1) : e \in D => c[e] = t[e + 1] PROVE r = t
  <2>1. m = l
    BY <1>9, <1>14
  <2>2. ASSUME NEW i \in 1 .. l PROVE r[i] = t[i]
    <3>1. PICK e : e = i - 1
      OBVIOUS
    <3>2. e \in 0 .. (l - 1) /\ e + 1 = i
      BY <3>1
    <3>3. CASE e \in D
      BY <1>8, <1>14, <2>1, <3>1, <3>2, <3>3
    <3>4. CASE e \notin D
      <4>1. i \in 1 .. k
        <5>1. e \in 0 .. (k - 1)
          BY <1>1, <1>2, <3>2, <3>4
        <5> QED
          BY <3>2, <5>1
      <4>2. s[i] = t[i]
        BY <1>2, <3>2, <3>4
      <4> QED
        BY <1>8, <1>10, <2>1, <3>1, <3>4, <4>1, <4>2
    <3> QED
      BY <3>3, <3>4
  <2>3. r = [i \in 1 .. m |-> r[i]]
    BY DEF r
  <2>4. t = [i \in 1 .. l |-> t[i]]
    BY <1>12
  <2> QED
    BY <2>1, <2>2, <2>3, <2>4
<1> QED
  BY <1>1, <1>2, <1>11, <1>13, <1>14

(* Where both read the same, all below is carried. *)
LEMMA SameCarried ==
  ASSUME NEW V, Closed(V), NEW old \in V, NEW new \in V, NEW end \in Nat, Ends(old, end), Ends(new, end),
         NEW p \in Places, Get(old, p) = Get(new, p)
  PROVE  CarriedFrom(old, new, p)
<1> SUFFICES ASSUME NEW q \in PlacesIn(old) \cap PlacesIn(new), IsPrefix(p, q)
             PROVE  Carried(old, new, q)
  BY DEF CarriedFrom
<1>1. q \in Places
  BY PlacesInIs
<1>2. p \in Seq(Element) /\ q \in Seq(Element)
  BY <1>1, PlacesAre
<1>3. Len(p) \in 0 .. Len(q) /\ Prefix(q, Len(p)) = p
  BY <1>2, Within
<1>4. Get(old, q) = Get(new, q)
  BY <1>2, <1>3, ReadOn
<1> QED
  BY <1>4 DEF Carried

(* A place both values have and differ at comes out as what is to stand there exactly
   when it and all below it is carried, and never as null. *)
Decided(a, old, new, diff, change, p) ==
  /\ IsValidPath(old, p) /\ IsValidPath(new, p)
  /\ Get(old, p) # Get(new, p) /\ Get(diff, p) = change[p]
  => a[p] # Null /\ (a[p] = Get(new, p) <=> CarriedFrom(old, new, p))

(* What applying the difference gives at a place both values have and differ at *)
Containers(old, new, diff, change, p, o, n, D) ==
  /\ p \in Places /\ IsValidPath(old, p) /\ IsValidPath(new, p) /\ Get(diff, p) = change[p]
  /\ o = Get(old, p) /\ n = Get(new, p) /\ o # n /\ D = Differing(o, n)
  /\ o.kind = n.kind /\ o.kind # "leaf"

Came(a, old, new, diff, p, o, n, D) ==
  /\ Get(diff, p).kind = "map" /\ DOMAIN Get(diff, p).entries = D
  /\ \A e \in Elements(n) : e \in D => a[Append(p, e)] # Null
  /\ CarriedFrom(old, new, p)
       <=> /\ \A e \in Elements(n) : e \in D => a[Append(p, e)] = At(n, e)
           /\ \A e \in Elements(o) \ Elements(n) : o.kind = "map" /\ a[Append(p, e)] = Null

LEMMA Changed ==
  ASSUME NEW V, NEW end, NEW old, NEW new, NEW add, NEW remove, NEW change,
         Told(V, end, old, new, add, remove, change), NEW diff, diff = change[<<>>],
         NEW a, IsApplied(a, old, diff),
         NEW p, NEW o, NEW n, NEW D, Containers(old, new, diff, change, p, o, n, D),
         \A e \in Element : Decided(a, old, new, diff, change, Append(p, e))
  PROVE  Came(a, old, new, diff, p, o, n, D)
<1>0. /\ Closed(V) /\ old \in V /\ new \in V /\ end \in Nat /\ Ends(old, end) /\ Ends(new, end)
      /\ Readable(V)
  BY ClosedReads DEF Told
<1>a. /\ p \in Places /\ IsValidPath(old, p) /\ IsValidPath(new, p) /\ Get(diff, p) = change[p]
      /\ o = Get(old, p) /\ n = Get(new, p) /\ o # n /\ D = Differing(o, n)
      /\ o.kind = n.kind /\ o.kind # "leaf"
  BY DEF Containers
<1> USE <1>a
<1>1. o \in V /\ n \in V
  BY <1>0, ReadFurther
<1>2. Elements(o) \subseteq Element /\ Elements(n) \subseteq Element
      /\ \A e : (e \notin Elements(o) => At(o, e) = Null) /\ (e \notin Elements(n) => At(n, e) = Null)
  BY <1>0, <1>1, AtIs
<1>3. \A e \in Element : /\ Append(p, e) \in Places
                         /\ Get(old, Append(p, e)) = At(o, e) /\ Get(new, Append(p, e)) = At(n, e)
                         /\ Get(diff, Append(p, e)) = At(change[p], e)
                         /\ IsValidPath(old, Append(p, e)) <=> e \in Elements(o)
                         /\ IsValidPath(new, Append(p, e)) <=> e \in Elements(n)
  <2> SUFFICES ASSUME NEW e \in Element
               PROVE  /\ Append(p, e) \in Places
                      /\ Get(old, Append(p, e)) = At(o, e) /\ Get(new, Append(p, e)) = At(n, e)
                      /\ Get(diff, Append(p, e)) = At(change[p], e)
                      /\ IsValidPath(old, Append(p, e)) <=> e \in Elements(o)
                      /\ IsValidPath(new, Append(p, e)) <=> e \in Elements(n)
    OBVIOUS
  <2>1. Append(p, e) \in Places
    BY StepOn
  <2>2. Get(old, Append(p, e)) = At(o, e) /\ Get(new, Append(p, e)) = At(n, e)
    BY <1>0, ReadFurther
  <2>3. Get(diff, Append(p, e)) = At(change[p], e)
    BY TreeIs
  <2>4. /\ IsValidPath(old, Append(p, e)) <=> e \in Elements(o)
        /\ IsValidPath(new, Append(p, e)) <=> e \in Elements(n)
    BY ValidOn
  <2> QED
    BY <2>1, <2>2, <2>3, <2>4
<1>4. /\ change[p].kind = "map" /\ DOMAIN change[p].entries = D
      /\ \A e \in D : At(change[p], e) = IF e \notin Elements(o) THEN add[Append(p, e)]
                                         ELSE IF e \notin Elements(n) THEN remove[Append(p, e)]
                                         ELSE change[Append(p, e)]
  BY ChangeReads
<1>5. \A e : e \in D <=> /\ e \in Elements(o) \/ e \in Elements(n)
                         /\ At(o, e) # At(n, e) \/ e \notin Elements(o) \/ e \notin Elements(n)
  BY DEF Differing
<1>6. ASSUME NEW e \in Elements(n), e \notin Elements(o)
      PROVE  e \in D /\ a[Append(p, e)] # Null /\ (a[Append(p, e)] = At(n, e) <=> Addable(new, Append(p, e)))
  <2>1. e \in D /\ e \in Element
    BY <1>2, <1>5, <1>6
  <2>2. Get(diff, Append(p, e)) = add[Append(p, e)]
    BY <1>3, <1>4, <1>6, <2>1
  <2>3. Append(p, e) \in Places /\ IsValidPath(new, Append(p, e)) /\ Get(old, Append(p, e)) = Null
    BY <1>2, <1>3, <1>6, <2>1
  <2>4. a[Append(p, e)] # Null /\ (a[Append(p, e)] = Get(new, Append(p, e)) <=> Addable(new, Append(p, e)))
    BY <2>2, <2>3, Added
  <2> QED
    BY <1>3, <2>1, <2>4
<1>7. ASSUME NEW e \in Elements(o), e \notin Elements(n)
      PROVE  a[Append(p, e)] = Null <=> At(o, e).kind = "leaf"
  <2>1. e \in D /\ e \in Element
    BY <1>2, <1>5, <1>7
  <2>2. Get(diff, Append(p, e)) = remove[Append(p, e)] /\ Append(p, e) \in Places
    BY <1>3, <1>4, <1>7, <2>1
  <2>3. a[Append(p, e)] = Null <=> Get(old, Append(p, e)).kind = "leaf"
    BY <2>2, Removed
  <2> QED
    BY <1>3, <2>1, <2>3
<1>8. ASSUME NEW e \in Elements(n), e \in Elements(o)
      PROVE  IF e \in D THEN /\ a[Append(p, e)] # Null
                             /\ a[Append(p, e)] = At(n, e) <=> CarriedFrom(old, new, Append(p, e))
             ELSE CarriedFrom(old, new, Append(p, e))
  <2>1. e \in Element
    BY <1>2, <1>8
  <2>2. CASE e \in D
    <3>1. At(o, e) # At(n, e) /\ Get(diff, Append(p, e)) = change[Append(p, e)]
      BY <1>3, <1>4, <1>5, <1>8, <2>1, <2>2
    <3> QED
      BY <1>3, <1>8, <2>1, <2>2, <3>1 DEF Decided
  <2>3. CASE e \notin D
    <3>1. Append(p, e) \in Places /\ Get(old, Append(p, e)) = Get(new, Append(p, e))
      BY <1>3, <1>5, <1>8, <2>1, <2>3
    <3>2. CarriedFrom(old, new, Append(p, e))
      BY <1>0, <3>1, SameCarried
    <3> QED
      BY <2>3, <3>2
  <2> QED
    BY <2>2, <2>3
<1>9. Carried(old, new, p)
        <=> /\ \A e \in Elements(n) \ Elements(o) : Addable(new, Append(p, e))
            /\ \A e \in Elements(o) \ Elements(n) : o.kind = "map" /\ At(o, e).kind = "leaf"
  BY DEF Carried
<1>10. CarriedFrom(old, new, p)
         <=> /\ Carried(old, new, p)
             /\ \A e \in Elements(o) \cap Elements(n) : CarriedFrom(old, new, Append(p, e))
  BY <1>0, CarriedFromIs
<1>11. \A e \in Elements(n) : e \in D => a[Append(p, e)] # Null
  BY <1>6, <1>8
<1>12. CarriedFrom(old, new, p)
         <=> /\ \A e \in Elements(n) : e \in D => a[Append(p, e)] = At(n, e)
             /\ \A e \in Elements(o) \ Elements(n) : o.kind = "map" /\ a[Append(p, e)] = Null
  BY <1>6, <1>7, <1>8, <1>9, <1>10
<1> QED
  BY <1>4, <1>11, <1>12 DEF Came

(* Two containers of a kind with the same at the same elements are the same. *)
LEMMA SameValue ==
  ASSUME NEW V, Closed(V), NEW u \in V, NEW v \in V, u.kind = v.kind, u.kind # "leaf",
         Elements(u) = Elements(v), \A e \in Elements(v) : At(u, e) = At(v, e)
  PROVE  u = v
<1>1. CASE u.kind = "map"
  <2>1. PICK K \in KeySets : \E f \in [K -> V] : u = MapOf(f)
    BY <1>1, KindOf, Zenon
  <2>2. PICK f \in [K -> V] : u = MapOf(f)
    BY <2>1
  <2>3. v.kind = "map"
    BY <1>1
  <2>4. PICK M \in KeySets : \E g \in [M -> V] : v = MapOf(g)
    BY <2>3, KindOf, Zenon
  <2>5. PICK g \in [M -> V] : v = MapOf(g)
    BY <2>4
  <2>6. /\ Elements(u) = K /\ \A e \in K : At(u, e) = f[e]
        /\ Elements(v) = M /\ \A e \in M : At(v, e) = g[e]
    BY <2>2, <2>5, KindsAre, ReadsAre
  <2>7. K = M /\ \A e \in K : f[e] = g[e]
    BY <2>6
  <2>8. f = g
    <3>1. f = [e \in K |-> f[e]] /\ g = [e \in M |-> g[e]]
      OBVIOUS
    <3> QED
      BY <2>7, <3>1
  <2> QED
    BY <2>2, <2>5, <2>8
<1>2. CASE u.kind = "vector"
  <2>1. PICK s \in Seq(V) : u = VectorOf(s)
    BY <1>2, KindOf, Zenon
  <2>2. v.kind = "vector"
    BY <1>2
  <2>3. PICK t \in Seq(V) : v = VectorOf(t)
    BY <2>2, KindOf, Zenon
  <2>4. PICK k \in Nat : k = Len(s)
    OBVIOUS
  <2>5. PICK l \in Nat : l = Len(t)
    OBVIOUS
  <2>6. /\ Elements(u) = 0 .. (k - 1) /\ \A e \in 0 .. (k - 1) : At(u, e) = s[e + 1]
        /\ Elements(v) = 0 .. (l - 1) /\ \A e \in 0 .. (l - 1) : At(v, e) = t[e + 1]
    BY <2>1, <2>3, <2>4, <2>5, KindsAre, ReadsAre
  <2>7. k = l
    <3>1. \A e \in Nat : e < k <=> e < l
      <4>1. \A e \in Nat : (e \in 0 .. (k - 1) <=> e < k) /\ (e \in 0 .. (l - 1) <=> e < l)
        OBVIOUS
      <4> QED
        BY <2>6, <4>1
    <3> QED
      BY <3>1
  <2>8. \A i \in 1 .. k : s[i] = t[i]
    <3> SUFFICES ASSUME NEW i \in 1 .. k PROVE s[i] = t[i]
      OBVIOUS
    <3>1. PICK e \in 0 .. (k - 1) : e + 1 = i
      <4>1. i - 1 \in 0 .. (k - 1) /\ (i - 1) + 1 = i
        OBVIOUS
      <4> QED
        BY <4>1
    <3>2. At(u, e) = s[e + 1] /\ At(v, e) = t[e + 1] /\ At(u, e) = At(v, e)
      BY <2>6, <2>7
    <3> QED
      BY <3>1, <3>2
  <2>9. s = t
    <3>1. s \in [1 .. k -> V]
      BY <2>1, <2>4
    <3>2. t \in [1 .. l -> V]
      BY <2>3, <2>5
    <3>3. s = [i \in 1 .. k |-> s[i]] /\ t = [i \in 1 .. k |-> t[i]]
      BY <2>7, <3>1, <3>2
    <3> QED
      BY <2>8, <3>3
  <2> QED
    BY <2>1, <2>3, <2>9
<1>3. CASE u.kind = "null"
  <2>1. u = Null /\ v = Null
    BY <1>3, KindOf
  <2> QED
    BY <2>1
<1>4. u.kind \in {"null", "leaf", "map", "vector"}
  BY KindOf
<1> QED
  BY <1>1, <1>2, <1>3, <1>4

LEMMA Common ==
  ASSUME NEW V, NEW end, NEW old, NEW new, NEW add, NEW remove, NEW change,
         Told(V, end, old, new, add, remove, change), NEW diff, diff = change[<<>>],
         NEW a, IsApplied(a, old, diff)
  PROVE  \A p \in Places : Decided(a, old, new, diff, change, p)
<1> DEFINE G == {p \in Places : Decided(a, old, new, diff, change, p)}
<1>0. /\ Closed(V) /\ old \in V /\ new \in V /\ end \in Nat /\ Ends(old, end) /\ Ends(new, end)
      /\ Readable(V)
  BY ClosedReads DEF Told
<1>1. ASSUME NEW p \in Places,
             \A e \in Element : e \in Elements(Get(old, p)) \cap Elements(Get(new, p)) => Append(p, e) \in G
      PROVE  p \in G
  <2> SUFFICES ASSUME IsValidPath(old, p), IsValidPath(new, p), Get(old, p) # Get(new, p), Get(diff, p) = change[p]
               PROVE  a[p] # Null /\ (a[p] = Get(new, p) <=> CarriedFrom(old, new, p))
    BY DEF Decided
  <2>1. PICK o : o = Get(old, p) /\ o \in V
    BY <1>0, ReadFurther
  <2>2. PICK n : n = Get(new, p) /\ n \in V
    BY <1>0, ReadFurther
  <2>3. /\ o.kind \in {"null", "leaf", "map", "vector"} /\ n.kind \in {"null", "leaf", "map", "vector"}
        /\ n # Thrown /\ (n.kind = "null" <=> n = Null) /\ (o.kind = "null" <=> o = Null)
        /\ (o.kind \in {"null", "leaf"} => Elements(o) = {}) /\ (n.kind \in {"null", "leaf"} => Elements(n) = {})
    BY <1>0, <2>1, <2>2, KindOf
  <2>4. /\ Elements(o) \subseteq Element
        /\ (o.kind = "map" => Elements(o) \subseteq Keys) /\ (o.kind # "map" => Elements(o) \subseteq Nat)
        /\ (n.kind = "map" => Elements(n) \subseteq Keys) /\ (n.kind # "map" => Elements(n) \subseteq Nat)
    BY <1>0, <2>1, <2>2, AtIs
  <2>5. CASE o.kind # n.kind \/ o.kind = "leaf"
    <3>1. Elements(o) \cap Elements(n) = {}
      BY <2>3, <2>4, <2>5, PathAssumption
    <3>2. CarriedFrom(old, new, p) <=> Carried(old, new, p)
      BY <1>0, <2>1, <2>2, <3>1, CarriedFromIs
    <3>3. Carried(old, new, p) <=> n # Null
      BY <2>1, <2>2, <2>5 DEF Carried
    <3>4. Get(diff, p) = Node("change", n)
      BY <2>1, <2>2, <2>5, ChangeReads
    <3>5. a[p] = IF n = Null THEN Thrown ELSE n
      <4>1. "change" # "remove"
        OBVIOUS
      <4> QED
        BY <3>4, <4>1, AppliedIs
    <3> QED
      BY <2>2, <2>3, <3>2, <3>3, <3>5, NodesAre
  <2>6. CASE o.kind = n.kind /\ o.kind # "leaf"
    <3>1. PICK D : D = Differing(o, n)
      OBVIOUS
    <3>2. \A e \in Element : Decided(a, old, new, diff, change, Append(p, e))
      <4> SUFFICES ASSUME NEW e \in Element, IsValidPath(old, Append(p, e)), IsValidPath(new, Append(p, e))
                   PROVE  Append(p, e) \in G
        BY DEF Decided
      <4>1. e \in Elements(o) /\ e \in Elements(n)
        BY <2>1, <2>2, ValidOn
      <4> QED
        BY <1>1, <2>1, <2>2, <4>1
    <3>3. /\ Get(diff, p).kind = "map" /\ DOMAIN Get(diff, p).entries = D
          /\ \A e \in Elements(n) : e \in D => a[Append(p, e)] # Null
          /\ CarriedFrom(old, new, p)
               <=> /\ \A e \in Elements(n) : e \in D => a[Append(p, e)] = At(n, e)
                   /\ \A e \in Elements(o) \ Elements(n) : o.kind = "map" /\ a[Append(p, e)] = Null
      <4>1. Containers(old, new, diff, change, p, o, n, D)
        BY <2>1, <2>2, <2>6, <3>1 DEF Containers
      <4>2. Came(a, old, new, diff, p, o, n, D)
        BY <3>2, <4>1, Changed
      <4> QED
        BY <4>2 DEF Came
    <3>0. PICK c : c = [e \in D |-> a[Append(p, e)]]
      OBVIOUS
    <3>4. c = [e \in D |-> a[Append(p, e)]] /\ DOMAIN c = D /\ \A e \in D : c[e] = a[Append(p, e)]
      BY <3>0
    <3>5. /\ a[p] # Null
          /\ (\E e \in D : c[e] = Thrown) => a[p] = Thrown
          /\ (\A e \in D : c[e] # Thrown)
               => /\ o.kind = "map" => a[p] = MergedMap(o.entries, c)
                  /\ o.kind = "vector" /\ D \cap Keys = {} => a[p] = MergedVector(o.items, c)
      <4>1. c = [e \in DOMAIN Get(diff, p).entries |-> a[Append(p, e)]]
        BY <3>3, <3>4
      <4> QED
        BY <2>1, <3>3, <3>4, <4>1, AppliedIs
    <3>6. \A e : e \in D <=> /\ e \in Elements(o) \/ e \in Elements(n)
                             /\ At(o, e) # At(n, e) \/ e \notin Elements(o) \/ e \notin Elements(n)
      BY <3>1 DEF Differing
    <3>7. CASE \E e \in D : c[e] = Thrown
      <4>1. PICK e \in D : a[Append(p, e)] = Thrown
        BY <3>4, <3>7
      <4>2. At(n, e) # Thrown
        BY <1>0, <2>2, AtIs, KindOf
      <4>3. ~CarriedFrom(old, new, p)
        BY <3>3, <3>6, <4>1, <4>2, NodesAre
      <4> QED
        BY <2>2, <2>3, <3>5, <3>7, <4>3
    <3>8. CASE (\A e \in D : c[e] # Thrown) /\ o.kind = "map"
      <4>1. PICK K \in KeySets : \E f \in [K -> V] : o = MapOf(f)
        <5>1. Closed(V) /\ o \in V /\ o.kind = "map"
          BY <1>0, <2>1, <3>8
        <5> QED
          BY <5>1, KindOf, Zenon
      <4>2. PICK f \in [K -> V] : o = MapOf(f)
        BY <4>1
      <4>3. n.kind = "map"
        BY <2>6, <3>8
      <4>4. PICK M \in KeySets : \E g \in [M -> V] : n = MapOf(g)
        <5>1. Closed(V) /\ n \in V /\ n.kind = "map"
          BY <1>0, <2>2, <4>3
        <5> QED
          BY <5>1, KindOf, Zenon
      <4>5. PICK g \in [M -> V] : n = MapOf(g)
        BY <4>4
      <4>6. /\ Elements(o) = K /\ o.entries = f /\ \A e \in K : At(o, e) = f[e]
            /\ Elements(n) = M /\ \A e \in M : At(n, e) = g[e]
        BY <4>2, <4>5, KindsAre, ReadsAre
      <4>7. a[p] = MergedMap(f, c)
        BY <3>5, <3>8, <4>6
      <4>8. /\ D \subseteq K \cup M /\ M \ K \subseteq D /\ K \ M \subseteq D
            /\ \A e \in M : e \in D => c[e] # Null
            /\ \A e \in M : e \notin D => f[e] = g[e]
        BY <3>3, <3>4, <3>6, <4>6
      <4>9. MergedMap(f, c) = MapOf(g)
              <=> (\A e \in K \ M : c[e] = Null) /\ \A e \in M : e \in D => c[e] = g[e]
        <5>1. DOMAIN f = K /\ DOMAIN g = M /\ g = [e \in M |-> g[e]]
          OBVIOUS
        <5>2. Merges(f, g, c, K, M, D)
          BY <3>4, <4>8, <5>1 DEF Merges
        <5> QED
          BY <5>2, MapFits
      <4>10. CarriedFrom(old, new, p)
               <=> (\A e \in K \ M : c[e] = Null) /\ \A e \in M : e \in D => c[e] = g[e]
        <5>1. \A e \in M : e \in D => a[Append(p, e)] = c[e] /\ At(n, e) = g[e]
          BY <3>4, <4>6
        <5>2. \A e \in K \ M : a[Append(p, e)] = c[e]
          BY <3>4, <4>8
        <5> QED
          BY <3>3, <3>8, <4>6, <5>1, <5>2
      <4> QED
        BY <2>2, <3>5, <4>5, <4>7, <4>9, <4>10
    <3>9. CASE (\A e \in D : c[e] # Thrown) /\ o.kind = "vector"
      <4>1. PICK s \in Seq(V) : o = VectorOf(s)
        <5>1. Closed(V) /\ o \in V /\ o.kind = "vector"
          BY <1>0, <2>1, <3>9
        <5> QED
          BY <5>1, KindOf, Zenon
      <4>2. n.kind = "vector"
        BY <2>6, <3>9
      <4>3. PICK t \in Seq(V) : n = VectorOf(t)
        <5>1. Closed(V) /\ n \in V /\ n.kind = "vector"
          BY <1>0, <2>2, <4>2
        <5> QED
          BY <5>1, KindOf, Zenon
      <4>4. PICK L : L = 0 .. (Len(s) - 1)
        OBVIOUS
      <4>5. PICK M : M = 0 .. (Len(t) - 1)
        OBVIOUS
      <4>6. /\ Elements(o) = L /\ o.items = s /\ \A e \in L : At(o, e) = s[e + 1]
            /\ Elements(n) = M /\ \A e \in M : At(n, e) = t[e + 1]
        BY <4>1, <4>3, <4>4, <4>5, KindsAre, ReadsAre
      <4>7. D \cap Keys = {}
        BY <2>4, <3>6, <3>9, <4>2, PathAssumption
      <4>8. a[p] = MergedVector(s, c)
        BY <3>5, <3>9, <4>6, <4>7
      <4>9. /\ D \subseteq L \cup M /\ M \ L \subseteq D
            /\ \A e \in M : e \in D => c[e] # Null
            /\ \A e \in M : e \notin D => s[e + 1] = t[e + 1]
        BY <3>3, <3>4, <3>6, <4>6
      <4>10. MergedVector(s, c) = VectorOf(t)
              <=> Len(s) <= Len(t) /\ \A e \in M : e \in D => c[e] = t[e + 1]
        <5>1. Null \in V
          BY <1>0 DEF Closed
        <5>2. Grown(V, s, t, c, L, M, D)
          BY <3>4, <4>1, <4>3, <4>4, <4>5, <4>9, <5>1 DEF Grown
        <5> QED
          BY <5>2, VectorFits
      <4>11. Len(s) <= Len(t) <=> Elements(o) \ Elements(n) = {}
        <5>1. Len(s) \in Nat /\ Len(t) \in Nat
          OBVIOUS
        <5>2. ASSUME ~(Len(s) <= Len(t)) PROVE Len(t) \in Elements(o) \ Elements(n)
          BY <4>6, <4>4, <4>5, <5>1, <5>2
        <5>3. ASSUME Len(s) <= Len(t) PROVE Elements(o) \ Elements(n) = {}
          BY <4>6, <4>4, <4>5, <5>1, <5>3
        <5> QED
          BY <5>2, <5>3
      <4>12. o.kind # "map"
        BY <3>9
      <4>13. CarriedFrom(old, new, p)
               <=> Len(s) <= Len(t) /\ \A e \in M : e \in D => c[e] = t[e + 1]
        <5>1. CarriedFrom(old, new, p)
                <=> /\ \A e \in Elements(n) : e \in D => a[Append(p, e)] = At(n, e)
                    /\ Elements(o) \ Elements(n) = {}
          BY <3>3, <4>12
        <5>2. \A e \in Elements(n) : e \in D => a[Append(p, e)] = c[e] /\ At(n, e) = t[e + 1]
          BY <3>4, <4>6
        <5> QED
          BY <4>6, <4>11, <5>1, <5>2
      <4> QED
        BY <2>2, <3>5, <4>3, <4>8, <4>10, <4>13
    <3> QED
      BY <2>1, <2>2, <2>3, <2>6, <3>7, <3>8, <3>9
  <2> QED
    BY <2>5, <2>6
<1>2. ASSUME NEW p \in Places, Len(p) > end PROVE p \in G
  <2>1. Elements(Get(new, p)) = {}
    BY <1>0, <1>2, KindsAre DEF Ends
  <2> QED
    BY <1>1, <2>1
<1>3. ASSUME NEW p \in Places, \A e \in Element : Append(p, e) \in G PROVE p \in G
  BY <1>1, <1>3
<1> HIDE DEF G
<1>4. \A p \in Places : p \in G
  BY <1>0, <1>2, <1>3, FromTheEnds
<1> QED
  BY <1>4 DEF G

(* The document is carried over exactly when all of its places are. *)
LEMMA TreeCarries ==
  ASSUME NEW V, Closed(V), NEW old \in V, NEW new \in V,
         NEW end \in Nat, Ends(old, end), Ends(new, end)
  PROVE  (ApplyTree(old, DiffAsValue(old, new)) = new)
           <=> \A p \in PlacesIn(old) \cap PlacesIn(new) : Carried(old, new, p)
<1>1. PICK add, remove, change : Told(V, end, old, new, add, remove, change)
  BY ToldIs
<1>2. PICK diff : diff = change[<<>>] /\ DiffAsValue(old, new) = diff
  BY <1>1 DEF Told
<1>3. PICK a : IsApplied(a, old, diff) /\ ApplyNode(old, diff) = a[<<>>]
  BY <1>1, <1>2, TreeIs
<1>4. <<>> \in Places /\ Get(old, <<>>) = old /\ Get(new, <<>>) = new /\ Get(diff, <<>>) = diff
  <2>1. <<>> \in Places
    BY PlacesAre
  <2>2. Get(old, <<>>) = old /\ Get(new, <<>>) = new
    BY <2>1, ClosedReads, ReadFurther
  <2> QED
    BY <1>1, <1>2, <2>1, <2>2, TreeIs
<1>5. (\A p \in PlacesIn(old) \cap PlacesIn(new) : Carried(old, new, p)) <=> CarriedFrom(old, new, <<>>)
  <2>1. \A q \in PlacesIn(old) : IsPrefix(<<>>, q)
    BY PlacesInIs, Beyond
  <2> QED
    BY <2>1 DEF CarriedFrom
<1>6. CASE old = new
  <2>1. CarriedFrom(old, new, <<>>)
    BY <1>4, <1>6, SameCarried
  <2>2. diff = Null
    BY <1>1, <1>2, <1>4, <1>6, ChangeReads
  <2> QED
    BY <1>2, <1>5, <1>6, <2>1, <2>2 DEF ApplyTree
<1>7. CASE old # new
  <2>1. IsValidPath(old, <<>>) /\ IsValidPath(new, <<>>)
    BY <1>4, ValidOn
  <2>2. a[<<>>] = new <=> CarriedFrom(old, new, <<>>)
    BY <1>1, <1>2, <1>3, <1>4, <1>7, <2>1, Common DEF Decided
  <2>3. diff # Null /\ diff # MapOf(<<>>)
    <3>1. CASE old.kind # new.kind \/ old.kind = "leaf"
      <4>1. diff = Node("change", new)
        BY <1>1, <1>2, <1>4, <1>7, <3>1, ChangeReads
      <4>2. diff.kind = "diff"
        BY <4>1, NodesAre
      <4> QED
        BY <4>2, KindsAre
    <3>2. CASE old.kind = new.kind /\ old.kind # "leaf"
      <4>1. diff.kind = "map" /\ DOMAIN diff.entries = Differing(old, new)
        BY <1>1, <1>2, <1>4, <1>7, <3>2, ChangeReads
      <4>2. Differing(old, new) # {}
        <5> SUFFICES ASSUME Differing(old, new) = {} PROVE FALSE
          OBVIOUS
        <5>1. Elements(old) = Elements(new) /\ \A e \in Elements(new) : At(old, e) = At(new, e)
          BY DEF Differing
        <5>2. old = new
          BY <3>2, <5>1, SameValue
        <5> QED
          BY <1>7, <5>2
      <4>3. MapOf(<<>>).entries = <<>> /\ DOMAIN <<>> = {}
        BY KindsAre
      <4>4. Null.kind = "null"
        BY KindsAre
      <4> QED
        BY <4>1, <4>2, <4>3, <4>4
    <3> QED
      BY <3>1, <3>2
  <2> QED
    BY <1>2, <1>3, <1>5, <2>2, <2>3 DEF ApplyTree
<1> QED
  BY <1>6, <1>7

-----------------------------------------------------------------------------
(* The difference as a list is made along the containers, of one kind, that both
   documents have at a place and that differ; whatever is above one is another. *)
Spine(old, new, p) ==
  /\ IsValidPath(old, p) /\ IsValidPath(new, p) /\ Get(old, p) # Get(new, p)
  /\ Get(old, p).kind = Get(new, p).kind /\ Get(old, p).kind # "leaf"

LEMMA SpineIs ==
  ASSUME NEW V, Closed(V), NEW old \in V, NEW new \in V, NEW p \in Places, Spine(old, new, p)
  PROVE  /\ Get(old, p) \in V /\ Get(new, p) \in V /\ Get(old, p).kind \in {"map", "vector"}
         /\ \A e \in Element : Spine(old, new, Append(p, e))
              => e \in Elements(Get(old, p)) /\ e \in Elements(Get(new, p))
<1>1. Get(old, p) \in V /\ Get(new, p) \in V
  BY ClosedReads, ReadFurther
<1>2. \A v \in V : (v.kind = "null" <=> v = Null) /\ v.kind \in {"null", "leaf", "map", "vector"}
  BY KindOf
<1>3. Get(old, p).kind \in {"map", "vector"}
  BY <1>1, <1>2 DEF Spine
<1> QED
  BY <1>1, <1>3, ValidOn DEF Spine

LEMMA SpineBefore ==
  ASSUME NEW V, Closed(V), NEW old \in V, NEW new \in V, NEW p \in Places, NEW q \in Places,
         IsPrefix(p, q), Spine(old, new, q)
  PROVE  Spine(old, new, p)
<1>1. CASE q = p
  BY <1>1
<1>2. CASE q # p
  <2>1. IsValidPath(old, q) /\ IsValidPath(new, q) /\ Get(old, q) # Get(new, q)
    BY DEF Spine
  <2>2. \E e \in Element : e \in Elements(Get(old, p)) /\ e = q[Len(p) + 1]
    BY <1>2, <2>1, PlacesBelow
  <2>3. \E e \in Element : e \in Elements(Get(new, p)) /\ e = q[Len(p) + 1]
    BY <1>2, <2>1, PlacesBelow
  <2>4. PICK e \in Element : e \in Elements(Get(old, p)) /\ e \in Elements(Get(new, p))
    BY <2>2, <2>3
  <2>5. IsValidPath(old, p) /\ IsValidPath(new, p)
    BY <2>1, ValidBefore
  <2>6. PICK o \in V : o = Get(old, p)
    BY ClosedReads, ReadFurther
  <2>7. PICK n \in V : n = Get(new, p)
    BY ClosedReads, ReadFurther
  <2>8. /\ o.kind \in {"null", "leaf", "map", "vector"} /\ (o.kind \in {"null", "leaf"} => Elements(o) = {})
        /\ n.kind \in {"null", "leaf", "map", "vector"} /\ (n.kind \in {"null", "leaf"} => Elements(n) = {})
    BY <2>6, <2>7, KindOf
  <2>9. /\ (o.kind = "map" => Elements(o) \subseteq Keys) /\ (o.kind # "map" => Elements(o) \subseteq Nat)
        /\ (n.kind = "map" => Elements(n) \subseteq Keys) /\ (n.kind # "map" => Elements(n) \subseteq Nat)
    BY <2>6, <2>7, AtIs
  <2>10. o.kind = n.kind /\ o.kind # "leaf"
    BY <2>4, <2>6, <2>7, <2>8, <2>9, PathAssumption
  <2>11. o # n
    <3>1. p \in Seq(Element) /\ q \in Seq(Element)
      BY PlacesAre
    <3>2. PICK m \in 0 .. Len(q) : m = Len(p) /\ Prefix(q, m) = p
      BY <3>1, Within
    <3>3. Get(old, Prefix(q, m)) # Get(new, Prefix(q, m))
      BY <2>1, <3>1, ReadOn
    <3> QED
      BY <2>6, <2>7, <3>2, <3>3
  <2> QED
    BY <2>5, <2>6, <2>7, <2>10, <2>11 DEF Spine
<1> QED
  BY <1>1, <1>2

(* Two containers have the same at an element. *)
Agree(u, g, c) == (c \in Elements(u) <=> c \in Elements(g)) /\ At(u, c) = At(g, c)

(* What putting an element into a container, or taking it out, leaves of its shape *)
LEMMA PutShape ==
  ASSUME NEW V, Closed(V), NEW v \in V, NEW e \in Element, NEW w \in V, NEW u, u = Put(v, e, w)
  PROVE  /\ u.kind = v.kind
         /\ \A c \in Element : c # e => Agree(u, v, c)
         /\ e \in Elements(u) <=> TakesAt(v, e)
         /\ At(u, e) = IF TakesAt(v, e) THEN w ELSE Null
<1>1. /\ TakesAt(v, e) => Replaces(u, v, e, w)
      /\ ~TakesAt(v, e) => u = v /\ At(v, e) = Null
  BY PutIs
<1>2. CASE ~TakesAt(v, e)
  <2>1. e \notin Elements(v)
    BY <1>2 DEF TakesAt
  <2> QED
    BY <1>1, <1>2, <2>1 DEF Agree
<1>3. CASE TakesAt(v, e)
  <2>1. /\ At(u, e) = w /\ \A c \in Element : c # e => At(u, c) = At(v, c)
    BY <1>1, <1>3 DEF Replaces
  <2>2. u.kind = v.kind /\ \A c : c \in Elements(u) <=> c \in Elements(v) \/ c = e
    <3>1. CASE v.kind = "map"
      <4>1. PICK K \in KeySets : \E f \in [K -> V] : v = MapOf(f)
        BY <3>1, KindOf, Zenon
      <4>2. PICK f \in [K -> V] : v = MapOf(f)
        BY <4>1
      <4>3. v.entries = f /\ Elements(v) = K /\ K \subseteq Keys /\ DOMAIN f = K
        BY <4>1, <4>2, KindsAre, KeySetsAre
      <4>4. e \in Keys
        BY <1>3, <4>3 DEF TakesAt
      <4>5. PICK g : g = WithEntry(f, e, w)
        OBVIOUS
      <4>6. u = MapOf(g)
        BY <3>1, <4>3, <4>4, <4>5 DEF Put
      <4>7. DOMAIN g = K \cup {e}
        BY <4>3, <4>5 DEF WithEntry
      <4> QED
        BY <3>1, <4>3, <4>6, <4>7, KindsAre
    <3>2. CASE v.kind # "map"
      <4>1. e \in Elements(v)
        BY <1>3, <3>2 DEF TakesAt
      <4>2. v.kind = "vector"
        BY <3>2, <4>1, KindOf
      <4>3. PICK s \in Seq(V) : v = VectorOf(s)
        BY <4>2, KindOf, Zenon
      <4>4. v.items = s /\ Elements(v) = 0 .. (Len(s) - 1)
        BY <4>3, KindsAre
      <4>5. PICK t : t = [s EXCEPT ![e + 1] = w]
        OBVIOUS
      <4>6. u = VectorOf(t)
        BY <4>1, <4>2, <4>4, <4>5 DEF Put
      <4>7. Len(t) = Len(s)
        BY <4>3, <4>5
      <4>8. u.kind = "vector" /\ Elements(u) = 0 .. (Len(t) - 1)
        BY <4>6, KindsAre
      <4>9. Elements(u) = Elements(v)
        BY <4>4, <4>7, <4>8
      <4> QED
        BY <4>1, <4>2, <4>8, <4>9
    <3> QED
      BY <3>1, <3>2
  <2> QED
    BY <1>3, <2>1, <2>2 DEF Agree
<1> QED
  BY <1>2, <1>3

LEMMA WithoutShape ==
  ASSUME NEW V, Closed(V), NEW v \in V, v.kind = "map", NEW e \in Keys, NEW u, u = WithoutKey(v, e)
  PROVE  /\ u.kind = v.kind
         /\ \A c \in Element : c # e => Agree(u, v, c)
         /\ e \notin Elements(u) /\ At(u, e) = Null
<1>1. Replaces(u, v, e, Null)
  BY WithoutKeyIs
<1>2. PICK K \in KeySets : \E f \in [K -> V] : v = MapOf(f)
  BY KindOf, Zenon
<1>3. PICK f \in [K -> V] : v = MapOf(f)
  BY <1>2
<1>4. v.entries = f /\ Elements(v) = K /\ DOMAIN f = K
  BY <1>3, KindsAre
<1>5. PICK g : g = [x \in K \ {e} |-> f[x]]
  OBVIOUS
<1>6. u = MapOf(g) /\ DOMAIN g = K \ {e}
  BY <1>4, <1>5 DEF WithoutKey
<1>7. u.kind = "map" /\ Elements(u) = K \ {e}
  BY <1>6, KindsAre
<1> QED
  BY <1>1, <1>4, <1>7 DEF Agree, Replaces

(* A set along a path keeps the kind of what is on the way, and all it has beside the
   path; the element the path goes on with is there if it is taken. *)
Shaped(a, root, p) ==
  \A m \in 0 .. Len(p) - 1 :
    LET g == Get(root, Prefix(p, m))
        u == Get(a[1], Prefix(p, m))
        e == p[m + 1]
    IN  /\ u.kind = g.kind /\ \A c \in Element : c # e => Agree(u, g, c)
        /\ g # Null => /\ e \in Elements(u) <=> TakesAt(g, e)
                       /\ At(u, e) = IF TakesAt(g, e) THEN a[m + 2] ELSE Null

LEMMA ChainShape ==
  ASSUME NEW W, Closed(W), NEW root \in W, NEW p \in Seq(Element), NEW new,
         NEW vivify \in BOOLEAN, ~vivify, NEW a, Chain(a, W, vivify, root, p, new)
  PROVE  Shaped(a, root, p)
<1> SUFFICES
      ASSUME NEW m \in 0 .. Len(p) - 1, NEW g, g = Get(root, Prefix(p, m)), NEW u, u = Get(a[1], Prefix(p, m))
      PROVE  /\ u.kind = g.kind /\ \A c \in Element : c # p[m + 1] => Agree(u, g, c)
             /\ g # Null => /\ p[m + 1] \in Elements(u) <=> TakesAt(g, p[m + 1])
                            /\ At(u, p[m + 1]) = IF TakesAt(g, p[m + 1]) THEN a[m + 2] ELSE Null
  BY DEF Shaped
<1>1. Len(p) \in Nat /\ m \in 0 .. Len(p) /\ m \in Nat
  OBVIOUS
<1>2. PICK i \in 1 .. Len(p) : i = m + 1 /\ i - 1 = m /\ i + 1 = m + 2 /\ i + 1 \in 1 .. Len(p) + 1
                               /\ i \in 1 .. Len(p) + 1
  BY <1>1
<1>3. a[i] = Put(g, p[i], a[i + 1])
  BY <1>2 DEF Chain, Rebuild
<1>4. PICK w \in W : w = a[i + 1]
  BY <1>2 DEF Chain
<1>5. g \in W /\ p[i] \in Element
  <2>1. g \in W
    BY <1>1, GetIs
  <2> QED
    BY <1>2, <2>1
<1>6. \/ u = a[m + 1]
      \/ u = Null /\ g = Null
  <2>1. Rebuilt(a, W, root, p)
    BY ChainRebuilt
  <2> QED
    BY <1>1, <2>1, OnTheWay
<1>7. CASE u = a[m + 1]
  <2>1. PICK e \in Element : e = p[i]
    BY <1>5
  <2>2. u = Put(g, e, w)
    BY <1>2, <1>3, <1>4, <1>7, <2>1
  <2>3. /\ u.kind = g.kind
        /\ \A c \in Element : c # e => Agree(u, g, c)
        /\ e \in Elements(u) <=> TakesAt(g, e)
        /\ At(u, e) = IF TakesAt(g, e) THEN w ELSE Null
    BY <1>5, <2>2, PutShape
  <2> QED
    BY <1>2, <1>4, <2>1, <2>3
<1>8. CASE u = Null /\ g = Null
  BY <1>8 DEF Agree
<1> QED
  BY <1>6, <1>7, <1>8

(* What an edit at an element e of the container at a place q comes to: nothing is
   different beside it, what is above keeps its kind, and its other elements; a map has
   it afterwards if it is to, a vector if it had. *)
Edited(r, v, q, e, w, present) ==
  /\ \A y \in Places : ~Related(Append(q, e), y) => Get(r, y) = Get(v, y)
  /\ \A i \in 0 .. Len(q) :
       /\ Get(r, Prefix(q, i)).kind = Get(v, Prefix(q, i)).kind
       /\ \A c \in Element : c # Append(q, e)[i + 1] => Agree(Get(r, Prefix(q, i)), Get(v, Prefix(q, i)), c)
  /\ IF Get(v, q).kind = "map"
     THEN (e \in Elements(Get(r, q)) <=> present) /\ At(Get(r, q), e) = w
     ELSE /\ e \in Elements(Get(r, q)) <=> e \in Elements(Get(v, q))
          /\ At(Get(r, q), e) = IF e \in Elements(Get(v, q)) THEN w ELSE Null

\* A key of a map, or an index
FitsIn(g, e) == (g.kind = "map" /\ e \in Keys) \/ (g.kind = "vector" /\ e \in Nat)

LEMMA SetEdits ==
  ASSUME NEW V, Closed(V), NEW v \in V, NEW q \in Places, NEW e \in Element, NEW w \in V,
         FitsIn(Get(v, q), e), NEW r, r = SetAt(v, Append(q, e), w)
  PROVE  /\ \E W : V \subseteq W /\ Closed(W) /\ r \in W
         /\ Edited(r, v, q, e, w, TRUE)
<1>0. PICK vivify \in BOOLEAN : ~vivify
  OBVIOUS
<1>1. PICK x : x = Append(q, e)
  OBVIOUS
<1>2. /\ x \in Seq(Element) /\ Len(x) = Len(q) + 1 /\ Len(q) \in Nat /\ x[Len(q) + 1] = e
      /\ q \in Seq(Element) /\ \A i \in 0 .. Len(q) : Prefix(x, i) = Prefix(q, i)
      /\ Prefix(x, Len(q)) = q
  BY <1>1, StepOn, PlacesAre
<1>3. PICK W, a : /\ V \subseteq W /\ Closed(W) /\ Chain(a, W, vivify, v, x, w)
                  /\ EditAt(vivify, v, x, w) = a[1]
  BY <1>2, EditIs
<1>4. r = a[1] /\ v \in W
  BY <1>0, <1>1, <1>3 DEF EditAt
<1>5. Rebuilt(a, W, v, x)
  BY <1>2, <1>3, <1>4, ChainRebuilt
<1>6. r \in W
  <2>1. 1 \in 1 .. Len(x) + 1
    BY <1>2
  <2> QED
    BY <1>4, <1>5, <2>1 DEF Rebuilt
<1>7. ASSUME NEW y \in Places, ~Related(x, y) PROVE Get(r, y) = Get(v, y)
  <2>1. y \in Seq(Element)
    BY PlacesAre
  <2> QED
    BY <1>2, <1>3, <1>4, <1>5, <1>7, <2>1, Beside
<1>8. Shaped(a, v, x)
  BY <1>0, <1>2, <1>3, <1>4, ChainShape
<1>9. ASSUME NEW i \in 0 .. Len(q), NEW g, g = Get(v, Prefix(q, i)), NEW u, u = Get(r, Prefix(q, i))
      PROVE  /\ u.kind = g.kind /\ \A c \in Element : c # x[i + 1] => Agree(u, g, c)
             /\ g # Null => /\ x[i + 1] \in Elements(u) <=> TakesAt(g, x[i + 1])
                            /\ At(u, x[i + 1]) = IF TakesAt(g, x[i + 1]) THEN a[i + 2] ELSE Null
  <2>1. i \in 0 .. Len(x) - 1 /\ Prefix(x, i) = Prefix(q, i)
    BY <1>2
  <2>2. g = Get(v, Prefix(x, i)) /\ u = Get(a[1], Prefix(x, i))
    BY <1>4, <1>9, <2>1
  <2> QED
    BY <1>8, <2>1, <2>2 DEF Shaped
<1>10. PICK g : g = Get(v, q)
  OBVIOUS
<1>11. PICK u : u = Get(r, q)
  OBVIOUS
<1>12. /\ e \in Elements(u) <=> TakesAt(g, e)
       /\ At(u, e) = IF TakesAt(g, e) THEN w ELSE Null
  <2>1. PICK i \in 0 .. Len(q) : i = Len(q) /\ Prefix(q, i) = q /\ i + 1 = Len(q) + 1 /\ i + 2 = Len(x) + 1
    BY <1>2
  <2>2. g # Null
    BY <1>10, KindsAre DEF FitsIn
  <2>3. a[Len(x) + 1] = w
    BY <1>3 DEF Chain
  <2>4. x[i + 1] = e /\ a[i + 2] = w
    BY <1>2, <2>1, <2>3
  <2> QED
    BY <1>9, <1>10, <1>11, <2>1, <2>2, <2>4
<1>13. IF g.kind = "map" THEN TakesAt(g, e) ELSE TakesAt(g, e) <=> e \in Elements(g)
  BY <1>10 DEF FitsIn, TakesAt
<1>14. Edited(r, v, q, e, w, TRUE)
  BY <1>1, <1>7, <1>9, <1>10, <1>11, <1>12, <1>13 DEF Edited
<1> QED
  BY <1>3, <1>6, <1>14

LEMMA EraseEdits ==
  ASSUME NEW V, Closed(V), NEW v \in V, NEW q \in Places, NEW e \in Element,
         FitsIn(Get(v, q), e), NEW r, r = EraseAt(v, Append(q, e))
  PROVE  /\ \E W : V \subseteq W /\ Closed(W) /\ r \in W
         /\ Edited(r, v, q, e, Null, FALSE)
<1>0. PICK vivify \in BOOLEAN : ~vivify /\ Null \in V
  BY DEF Closed
<1>1. PICK x : x = Append(q, e)
  OBVIOUS
<1>2. /\ x \in Seq(Element) /\ Len(x) = Len(q) + 1 /\ Len(q) \in Nat /\ x[Len(q) + 1] = e
      /\ q \in Seq(Element) /\ \A i \in 1 .. Len(q) : x[i] = q[i]
      /\ Prefix(x, Len(q)) = q
  BY <1>1, StepOn, PlacesAre
<1>3. x # <<>> /\ Last(x) = e /\ Front(x) = q
  <2>1. x # <<>>
    BY <1>2, EmptySeq
  <2>2. Last(x) = x[Len(x)] /\ Front(x) = Prefix(x, Len(x) - 1) /\ Len(x) - 1 = Len(q)
    BY <1>2, <2>1, EndOf
  <2> QED
    BY <1>2, <2>1, <2>2
<1>4. PICK g \in V : g = Get(v, q)
  BY ClosedReads, ReadFurther
<1>5. CASE g.kind = "vector"
  <2>1. e \in Nat /\ e \notin Keys
    BY <1>4, <1>5, PathAssumption DEF FitsIn
  <2>2. r = SetAt(v, x, Null)
    BY <1>1, <1>3, <2>1 DEF EraseAt
  <2>3. /\ \E W : V \subseteq W /\ Closed(W) /\ r \in W
        /\ Edited(r, v, q, e, Null, TRUE)
    BY <1>0, <1>1, <2>2, SetEdits
  <2> QED
    BY <1>4, <1>5, <2>3 DEF Edited
<1>6. CASE g.kind = "map"
  <2>1. e \in Keys
    BY <1>4, <1>6 DEF FitsIn
  <2>2. PICK w : w = WithoutKey(g, e)
    OBVIOUS
  <2>3. /\ w.kind = g.kind
        /\ \A c \in Element : c # e => Agree(w, g, c)
        /\ e \notin Elements(w) /\ At(w, e) = Null
    BY <1>6, <2>1, <2>2, WithoutShape
  <2>4. r = SetAt(v, q, w)
    BY <1>1, <1>3, <1>4, <2>1, <2>2 DEF EraseAt
  <2>5. w \in ValuesOver(V)
    BY <2>1, <2>2, WithoutKeyIs
  <2>6. PICK U : U = V \cup {w}
    OBVIOUS
  <2>7. Closed(U) /\ v \in U /\ w \in U /\ V \subseteq U
    BY <2>5, <2>6, Joined
  <2>8. PICK W, b : /\ U \subseteq W /\ Closed(W) /\ Chain(b, W, vivify, v, q, w)
                    /\ EditAt(vivify, v, q, w) = b[1]
    BY <1>2, <2>7, EditIs
  <2>9. r = b[1] /\ v \in W /\ b[Len(q) + 1] = w
    BY <1>0, <2>4, <2>7, <2>8 DEF EditAt, Chain
  <2>10. Rebuilt(b, W, v, q)
    BY <1>2, <2>8, <2>9, ChainRebuilt
  <2>11. r \in W /\ V \subseteq W
    <3>1. 1 \in 1 .. Len(q) + 1
      BY <1>2
    <3> QED
      BY <2>7, <2>8, <2>9, <2>10, <3>1 DEF Rebuilt
  <2>12. \A y \in Seq(Element) : ~Related(x, y) => Get(r, y) = Get(v, y)
    <3>1. r = EraseAt(v, x) /\ x \in Seq(Element)
      BY <1>1, <1>2
    <3> QED
      BY <3>1, EraseReads
  <2>13. ASSUME NEW y \in Places, ~Related(x, y) PROVE Get(r, y) = Get(v, y)
    <3>1. y \in Seq(Element)
      BY PlacesAre
    <3> QED
      BY <2>13, <2>12, <3>1
  <2>14. Get(r, q) = w
    <3>1. Len(q) \in 0 .. Len(q) /\ Prefix(q, Len(q)) = q
      BY <1>2, PrefixIs
    <3>2. \/ Get(b[1], Prefix(q, Len(q))) = b[Len(q) + 1]
          \/ Get(b[1], Prefix(q, Len(q))) = Null /\ Get(v, Prefix(q, Len(q))) = Null
      BY <1>2, <2>8, <2>9, <2>10, <3>1, OnTheWay
    <3>3. g # Null
      BY <1>6, KindsAre
    <3> QED
      BY <1>4, <2>9, <3>1, <3>2, <3>3
  <2>15. Shaped(b, v, q)
    BY <1>0, <1>2, <2>8, <2>9, ChainShape
  <2>16. ASSUME NEW i \in 0 .. Len(q), NEW h, h = Get(v, Prefix(q, i)), NEW u, u = Get(r, Prefix(q, i))
         PROVE  u.kind = h.kind /\ \A c \in Element : c # x[i + 1] => Agree(u, h, c)
    <3>1. CASE i = Len(q)
      <4>1. Prefix(q, i) = q
        BY <1>2, <3>1, PrefixIs
      <4> QED
        BY <1>2, <1>4, <2>3, <2>14, <2>16, <3>1, <4>1
    <3>2. CASE i # Len(q)
      <4>1. i \in 0 .. Len(q) - 1 /\ i + 1 \in 1 .. Len(q)
        BY <1>2, <3>2
      <4>2. u = Get(b[1], Prefix(q, i))
        BY <2>9, <2>16
      <4>3. u.kind = h.kind /\ \A c \in Element : c # q[i + 1] => Agree(u, h, c)
        BY <2>16, <2>15, <4>1, <4>2 DEF Shaped
      <4> QED
        BY <1>2, <4>1, <4>3
    <3> QED
      BY <3>1, <3>2
  <2>17. Edited(r, v, q, e, Null, FALSE)
    BY <1>1, <1>4, <1>6, <2>3, <2>13, <2>14, <2>16 DEF Edited
  <2> QED
    BY <2>8, <2>11, <2>17
<1> QED
  BY <1>4, <1>5, <1>6 DEF FitsIn

(* How a document stands that was brought forward at the places of P: the containers
   that both documents have are there; a map has its other elements as the new one has
   those of P, and the rest as the old one; a vector has the elements it had, those of
   P as the new one has them, or null. *)
Stands(o, n, u, c, done) ==
  IF o.kind = "map" THEN Agree(u, IF done THEN n ELSE o, c)
  ELSE /\ c \in Elements(u) <=> c \in Elements(o)
       /\ At(u, c) = IF done /\ c \in Elements(o) THEN At(n, c) ELSE At(o, c)

Forward(old, new, v, P) ==
  \A q \in Places : Spine(old, new, q) =>
    /\ Get(v, q).kind = Get(old, q).kind
    /\ \A c \in Element : ~Spine(old, new, Append(q, c)) =>
         Stands(Get(old, q), Get(new, q), Get(v, q), c, Append(q, c) \in P)

\* An element of one of the containers that is not one of them
Edge(old, new, q, e) ==
  Spine(old, new, q) /\ ~Spine(old, new, Append(q, e)) /\ FitsIn(Get(old, q), e)

IsAbove(p, q, e, x) ==
  /\ Len(p) \in 0 .. Len(q) /\ Prefix(q, Len(p)) = p /\ x[Len(p) + 1] \in Element
  /\ \A c \in Element : Append(p, c) = x => c = x[Len(p) + 1]
  /\ (p = q /\ x[Len(p) + 1] = e) \/ IsPrefix(Append(p, x[Len(p) + 1]), q)

LEMMA Above ==
  ASSUME NEW q \in Places, NEW e \in Element, NEW p \in Places, NEW x, x = Append(q, e),
         IsPrefix(p, x), p # x
  PROVE  IsAbove(p, q, e, x)
<1>1. /\ x \in Places /\ Len(x) = Len(q) + 1 /\ Len(q) \in Nat /\ x[Len(q) + 1] = e
      /\ q \in Seq(Element) /\ \A i \in 0 .. Len(q) : Prefix(x, i) = Prefix(q, i)
      /\ Prefix(x, Len(q)) = q /\ x \in Seq(Element) /\ p \in Seq(Element) /\ Len(p) \in Nat
  BY StepOn, PlacesAre
<1>2. Len(p) \in 0 .. Len(x) /\ Prefix(x, Len(p)) = p
  BY <1>1, Within
<1>3. Len(p) + 1 \in 1 .. Len(x) /\ x[Len(p) + 1] \in Element /\ IsPrefix(Append(p, x[Len(p) + 1]), x)
  BY <1>1, Beyond
<1>4. Len(p) \in 0 .. Len(q)
  BY <1>1, <1>3
<1>5. Prefix(q, Len(p)) = p
  BY <1>1, <1>2, <1>4
<1>6. \A c \in Element : Append(p, c) = x => c = x[Len(p) + 1]
  BY StepOn
<1>7. CASE Len(p) = Len(q)
  <2>1. p = q
    BY <1>1, <1>2, <1>7
  <2> QED
    BY <1>1, <1>3, <1>4, <1>5, <1>6, <2>1 DEF IsAbove
<1>8. CASE Len(p) # Len(q)
  <2>1. PICK y : y = Append(p, x[Len(p) + 1])
    OBVIOUS
  <2>2. y \in Seq(Element) /\ Len(y) = Len(p) + 1
    BY <1>3, <2>1, StepOn, PlacesAre
  <2>3. Prefix(x, Len(y)) = y
    BY <1>1, <1>3, <2>1, <2>2, Within
  <2>4. Len(y) \in 0 .. Len(q)
    BY <1>1, <1>4, <1>8, <2>2
  <2>5. Prefix(q, Len(y)) = y
    BY <1>1, <2>3, <2>4
  <2>6. IsPrefix(y, q)
    BY <2>4, <2>5 DEF IsPrefix, Prefix
  <2> QED
    BY <1>3, <1>4, <1>5, <1>6, <2>1, <2>6 DEF IsAbove
<1> QED
  BY <1>7, <1>8

(* An entry brings its place forward, and leaves the others. *)
LEMMA EntryForward ==
  ASSUME NEW V, Closed(V), NEW old \in V, NEW new \in V, NEW v, NEW P, Forward(old, new, v, P),
         NEW q \in Places, NEW e \in Element, Edge(old, new, q, e),
         NEW r, NEW w, NEW present, Edited(r, v, q, e, w, present),
         w = At(Get(new, q), e), present <=> e \in Elements(Get(new, q))
  PROVE  Forward(old, new, r, P \cup {Append(q, e)})
<1>1. PICK x : x = Append(q, e) /\ x \in Places /\ ~Spine(old, new, x) /\ IsPrefix(x, x)
  BY StepOn, Beyond DEF Edge
<1>2. /\ \A y \in Places : ~Related(x, y) => Get(r, y) = Get(v, y)
      /\ \A i \in 0 .. Len(q) :
           /\ Get(r, Prefix(q, i)).kind = Get(v, Prefix(q, i)).kind
           /\ \A c \in Element : c # x[i + 1] => Agree(Get(r, Prefix(q, i)), Get(v, Prefix(q, i)), c)
      /\ IF Get(v, q).kind = "map"
         THEN (e \in Elements(Get(r, q)) <=> present) /\ At(Get(r, q), e) = w
         ELSE /\ e \in Elements(Get(r, q)) <=> e \in Elements(Get(v, q))
              /\ At(Get(r, q), e) = IF e \in Elements(Get(v, q)) THEN w ELSE Null
  BY <1>1 DEF Edited
<1> SUFFICES
      ASSUME NEW p \in Places, Spine(old, new, p), NEW o, o = Get(old, p), NEW n, n = Get(new, p),
             NEW u, u = Get(v, p), NEW t, t = Get(r, p)
      PROVE  /\ t.kind = o.kind
             /\ \A c \in Element : ~Spine(old, new, Append(p, c))
                  => Stands(o, n, t, c, Append(p, c) \in P \cup {x})
  BY <1>1 DEF Forward
<1>3. /\ u.kind = o.kind
      /\ \A c \in Element : ~Spine(old, new, Append(p, c)) => Stands(o, n, u, c, Append(p, c) \in P)
  BY DEF Forward
<1>4. ~IsPrefix(x, p)
  BY <1>1, SpineBefore
<1>5. CASE ~IsPrefix(p, x)
  <2>1. t = u
    BY <1>2, <1>4, <1>5 DEF Related
  <2>2. \A c \in Element : Append(p, c) # x
    BY <1>1, <1>5, Beyond
  <2> QED
    BY <1>3, <2>1, <2>2
<1>6. CASE IsPrefix(p, x)
  <2>1. p # x
    BY <1>1
  <2>2. PICK i :
          /\ i = Len(p) /\ i \in 0 .. Len(q) /\ Prefix(q, i) = p /\ x[i + 1] \in Element
          /\ \A c \in Element : Append(p, c) = x => c = x[i + 1]
          /\ (p = q /\ x[i + 1] = e) \/ IsPrefix(Append(p, x[i + 1]), q)
    <3>1. /\ Len(p) \in 0 .. Len(q) /\ Prefix(q, Len(p)) = p /\ x[Len(p) + 1] \in Element
          /\ \A c \in Element : Append(p, c) = x => c = x[Len(p) + 1]
          /\ (p = q /\ x[Len(p) + 1] = e) \/ IsPrefix(Append(p, x[Len(p) + 1]), q)
      <4>1. x = Append(q, e) /\ IsPrefix(p, x) /\ p # x
        BY <1>1, <1>6, <2>1
      <4>2. IsAbove(p, q, e, x)
        BY <4>1, Above
      <4> QED
        BY <4>1, <4>2 DEF IsAbove
    <3> QED
      BY <3>1
  <2>3. t.kind = u.kind /\ \A c \in Element : c # x[i + 1] => Agree(t, u, c)
    <3>1. Get(r, Prefix(q, i)) = t /\ Get(v, Prefix(q, i)) = u /\ i \in 0 .. Len(q)
      BY <2>2
    <3>2. /\ Get(r, Prefix(q, i)).kind = Get(v, Prefix(q, i)).kind
          /\ \A c \in Element : c # x[i + 1] => Agree(Get(r, Prefix(q, i)), Get(v, Prefix(q, i)), c)
      BY <1>2, <3>1, Zenon
    <3> QED
      BY <3>1, <3>2, Zenon
  <2>4. ASSUME NEW c \in Element, ~Spine(old, new, Append(p, c)), c # x[i + 1]
        PROVE  Stands(o, n, t, c, Append(p, c) \in P \cup {x})
    <3>1. Append(p, c) \in P \cup {x} <=> Append(p, c) \in P
      <4>1. Append(p, c) # x
        BY <2>2, <2>4, Zenon
      <4> QED
        BY <4>1
    <3>2. Stands(o, n, u, c, Append(p, c) \in P) /\ Agree(t, u, c)
      BY <1>3, <2>3, <2>4
    <3>3. CASE Append(p, c) \in P
      BY <3>1, <3>2, <3>3 DEF Stands, Agree
    <3>4. CASE Append(p, c) \notin P
      BY <3>1, <3>2, <3>4 DEF Stands, Agree
    <3> QED
      BY <3>3, <3>4
  <2>5. ASSUME NEW c \in Element, ~Spine(old, new, Append(p, c)), c = x[i + 1]
        PROVE  Stands(o, n, t, c, Append(p, c) \in P \cup {x})
    <3>1. p = q /\ c = e
      <4> SUFFICES ASSUME IsPrefix(Append(p, c), q) PROVE FALSE
        BY <2>2, <2>5
      <4>1. Append(p, c) \in Places /\ Spine(old, new, q)
        BY StepOn DEF Edge
      <4> QED
        BY <2>5, <4>1, SpineBefore
    <3>2. Append(p, c) = x /\ Append(p, c) \in P \cup {x}
      BY <1>1, <3>1
    <3>3. o.kind = "map" => Agree(t, n, e)
      BY <1>2, <1>3, <3>1 DEF Agree
    <3>4. o.kind # "map" => (e \in Elements(u) <=> e \in Elements(o))
      <4>1. Stands(o, n, u, e, x \in P)
        BY <1>1, <1>3, <2>5, <3>1, <3>2
      <4> QED
        BY <4>1 DEF Stands
    <3>5. e \notin Elements(o) => At(o, e) = Null
      BY DEF At
    <3>6. o.kind # "map" => /\ e \in Elements(t) <=> e \in Elements(o)
                            /\ At(t, e) = IF e \in Elements(o) THEN At(n, e) ELSE At(o, e)
      BY <1>2, <1>3, <3>1, <3>4, <3>5
    <3> QED
      BY <3>1, <3>2, <3>3, <3>6 DEF Stands
  <2> QED
    BY <1>3, <2>3, <2>4, <2>5
<1> QED
  BY <1>5, <1>6

-----------------------------------------------------------------------------
(* The entries are folded one by one, whichever the fold picks next. *)
Turn(erase, d, v) == IF erase THEN EraseAt(v, d.path) ELSE SetAt(v, d.path, d.new)

TurnedOf(h, erase, v, s) ==
  IF s = {} THEN v ELSE LET d == CHOOSE x \in s : TRUE IN Turn(erase, d, h[s \ {d}])

IsTurned(h, erase, v, S) == h = [s \in SUBSET S |-> TurnedOf(h, erase, v, s)]

EraseAll(v, S) == LET Erase(d, w) == EraseAt(w, d.path) IN FoldSet(Erase, v, S)
SetAll(v, S) == LET Set(d, w) == SetAt(w, d.path, d.new) IN FoldSet(Set, v, S)

LEMMA TurnedExists ==
  ASSUME NEW S, IsFiniteSet(S), NEW erase, NEW v
  PROVE  \E h : IsTurned(h, erase, v, S)
<1> DEFINE Of(h, s) == TurnedOf(h, erase, v, s)
           From(m) == {s \in SUBSET S : Cardinality(s) <= m}
           T == {m \in 0 .. Cardinality(S) : \E h : h = [s \in From(m) |-> Of(h, s)]}
<1>1. Cardinality(S) \in Nat
  BY FS_CardinalityType
<1>2. ASSUME NEW s \in SUBSET S
      PROVE  /\ Cardinality(s) \in 0 .. Cardinality(S) /\ (Cardinality(s) = 0 <=> s = {})
             /\ \A d \in s : s \ {d} \in SUBSET S /\ Cardinality(s \ {d}) = Cardinality(s) - 1
  <2>1. IsFiniteSet(s) /\ Cardinality(s) <= Cardinality(S)
    BY FS_Subset
  <2>2. Cardinality(s) \in Nat
    BY <2>1, FS_CardinalityType
  <2>3. Cardinality(s) = 0 <=> s = {}
    BY <2>1, FS_EmptySet
  <2>4. \A d \in s : Cardinality(s \ {d}) = Cardinality(s) - 1
    BY <2>1, FS_RemoveElement
  <2> QED
    BY <1>1, <2>1, <2>2, <2>3, <2>4
<1>3. 0 \in T
  <2>1. PICK h : h = [s \in From(0) |-> v]
    OBVIOUS
  <2>2. \A s \in From(0) : s = {}
    BY <1>2
  <2>3. \A s \in From(0) : Of(h, s) = v
    BY <2>2 DEF TurnedOf
  <2>4. h = [s \in From(0) |-> Of(h, s)]
    BY <2>1, <2>3
  <2> QED
    BY <1>1, <2>4
<1>4. ASSUME NEW m \in 0 .. Cardinality(S) - 1, m \in T PROVE m + 1 \in T
  <2>1. PICK h : h = [s \in From(m) |-> Of(h, s)]
    BY <1>4
  <2>2. PICK g : g = [s \in From(m + 1) |-> IF Cardinality(s) = m + 1 THEN Of(h, s) ELSE h[s]]
    OBVIOUS
  <2>3. ASSUME NEW s \in From(m + 1) PROVE Of(g, s) = Of(h, s)
    <3>1. CASE s = {}
      BY <3>1 DEF TurnedOf
    <3>2. CASE s # {}
      <4>1. PICK d \in s : d = CHOOSE x \in s : TRUE
        BY <3>2
      <4>2. s \ {d} \in From(m + 1) /\ Cardinality(s \ {d}) # m + 1
        BY <1>1, <1>2, <4>1
      <4>3. g[s \ {d}] = h[s \ {d}]
        BY <2>2, <4>2
      <4> QED
        BY <3>2, <4>1, <4>3 DEF TurnedOf
    <3> QED
      BY <3>1, <3>2
  <2>4. \A s \in From(m + 1) : Cardinality(s) # m + 1 => s \in From(m)
    BY <1>1, <1>2
  <2> HIDE DEF Of, From
  <2>5. \A s \in From(m + 1) : g[s] = Of(g, s)
    BY <2>1, <2>2, <2>3, <2>4
  <2>6. g = [s \in From(m + 1) |-> Of(g, s)]
    BY <2>2, <2>5
  <2>7. m + 1 \in 0 .. Cardinality(S)
    BY <1>1
  <2> QED
    BY <2>6, <2>7
<1> HIDE DEF T
<1>5. Cardinality(S) \in T
  <2>1. \A m \in 0 .. Cardinality(S) : m \in T
    BY <1>1, <1>3, <1>4, Upwards
  <2> QED
    BY <1>1, <2>1
<1>6. From(Cardinality(S)) = SUBSET S
  BY <1>1, <1>2
<1>7. \E h : h = [s \in SUBSET S |-> Of(h, s)]
  BY <1>5, <1>6 DEF T
<1> QED
  BY <1>7 DEF IsTurned

LEMMA FoldsAre ==
  ASSUME NEW S, IsFiniteSet(S), NEW v, NEW erase \in BOOLEAN
  PROVE  \E h : IsTurned(h, erase, v, S) /\ h[S] = IF erase THEN EraseAll(v, S) ELSE SetAll(v, S)
<1> DEFINE h == CHOOSE g : g = [s \in SUBSET S |-> TurnedOf(g, erase, v, s)]
<1>1. h = [s \in SUBSET S |-> TurnedOf(h, erase, v, s)]
  BY TurnedExists DEF IsTurned
<1>2. ASSUME erase PROVE EraseAll(v, S) = h[S]
  BY <1>2 DEF EraseAll, FoldSet, MapThenFoldSet, TurnedOf, Turn
<1>3. ASSUME ~erase PROVE SetAll(v, S) = h[S]
  BY <1>3 DEF SetAll, FoldSet, MapThenFoldSet, TurnedOf, Turn
<1> HIDE DEF h
<1> QED
  BY <1>1, <1>2, <1>3 DEF IsTurned

\* An entry of the difference, for those that remove or for the others
Tells(old, new, erase, d) ==
  \E q \in Places, e \in Element :
    /\ Edge(old, new, q, e) /\ d.path = Append(q, e)
    /\ erase <=> e \notin Elements(Get(new, q))
    /\ d.new = At(Get(new, q), e)

LEMMA TurnForward ==
  ASSUME NEW V, Closed(V), NEW old \in V, NEW new \in V, NEW v \in V, NEW P, Forward(old, new, v, P),
         NEW erase, NEW d, Tells(old, new, erase, d)
  PROVE  /\ \E W : V \subseteq W /\ Closed(W) /\ Turn(erase, d, v) \in W
         /\ Forward(old, new, Turn(erase, d, v), P \cup {d.path})
<1>1. PICK q \in Places, e \in Element :
        /\ Edge(old, new, q, e) /\ d.path = Append(q, e)
        /\ erase <=> e \notin Elements(Get(new, q))
        /\ d.new = At(Get(new, q), e)
  BY DEF Tells
<1>2. PICK n \in V : n = Get(new, q)
  BY ClosedReads, ReadFurther
<1>3. PICK w \in V : w = d.new /\ w = At(n, e) /\ (e \notin Elements(n) => w = Null)
  BY <1>1, <1>2, AtIs
<1>4. PICK r : r = Turn(erase, d, v)
  OBVIOUS
<1>5. FitsIn(Get(v, q), e)
  <2>1. Get(v, q).kind = Get(old, q).kind
    BY <1>1 DEF Forward, Edge
  <2> QED
    BY <1>1, <2>1 DEF Edge, FitsIn
<1>6. /\ \E W : V \subseteq W /\ Closed(W) /\ r \in W
      /\ \E present : Edited(r, v, q, e, w, present) /\ (present <=> e \in Elements(n))
  <2>1. CASE erase
    <3>1. r = EraseAt(v, Append(q, e)) /\ w = Null /\ e \notin Elements(n)
      BY <1>1, <1>2, <1>3, <1>4, <2>1 DEF Turn
    <3>2. /\ \E W : V \subseteq W /\ Closed(W) /\ r \in W
          /\ Edited(r, v, q, e, Null, FALSE)
      BY <1>5, <3>1, EraseEdits
    <3> QED
      BY <3>1, <3>2
  <2>2. CASE ~erase
    <3>1. r = SetAt(v, Append(q, e), w) /\ e \in Elements(n)
      BY <1>1, <1>2, <1>3, <1>4, <2>2 DEF Turn
    <3>2. /\ \E W : V \subseteq W /\ Closed(W) /\ r \in W
          /\ Edited(r, v, q, e, w, TRUE)
      BY <1>5, <3>1, SetEdits
    <3> QED
      BY <3>1, <3>2
  <2> QED
    BY <2>1, <2>2
<1>7. PICK present : Edited(r, v, q, e, w, present) /\ (present <=> e \in Elements(n))
  BY <1>6
<1>8. w = At(Get(new, q), e) /\ (present <=> e \in Elements(Get(new, q)))
  BY <1>2, <1>3, <1>7
<1>9. Forward(old, new, r, P \cup {Append(q, e)})
  BY <1>1, <1>7, <1>8, EntryForward
<1> QED
  BY <1>1, <1>4, <1>6, <1>9

ForwardBy(V, old, new, r, P) ==
  Forward(old, new, r, P) /\ \E W : V \subseteq W /\ Closed(W) /\ r \in W

LEMMA FoldForward ==
  ASSUME NEW V, Closed(V), NEW old \in V, NEW new \in V, NEW v, NEW P, ForwardBy(V, old, new, v, P),
         NEW S, IsFiniteSet(S), NEW erase \in BOOLEAN, \A d \in S : Tells(old, new, erase, d)
  PROVE  ForwardBy(V, old, new, IF erase THEN EraseAll(v, S) ELSE SetAll(v, S), P \cup {d.path : d \in S})
<1>1. PICK h : IsTurned(h, erase, v, S) /\ h[S] = IF erase THEN EraseAll(v, S) ELSE SetAll(v, S)
  BY FoldsAre
<1>2. \A s \in SUBSET S : h[s] = TurnedOf(h, erase, v, s)
  BY <1>1 DEF IsTurned
<1> DEFINE Done(s) == P \cup {x.path : x \in s}
           T == {m \in 0 .. Cardinality(S) :
                   \A s \in SUBSET S : Cardinality(s) = m => ForwardBy(V, old, new, h[s], Done(s))}
<1>3. Cardinality(S) \in Nat
  BY FS_CardinalityType
<1>4. ASSUME NEW s \in SUBSET S, Cardinality(s) = 0 PROVE ForwardBy(V, old, new, h[s], Done(s))
  <2>1. s = {}
    BY <1>4, FS_Subset, FS_EmptySet
  <2>2. h[s] = v
    BY <1>2, <2>1 DEF TurnedOf
  <2>3. Done(s) = P
    BY <2>1
  <2> QED
    BY <2>2, <2>3
<1>5. ASSUME NEW m \in 0 .. Cardinality(S) - 1, m \in T, NEW s \in SUBSET S, Cardinality(s) = m + 1
      PROVE  ForwardBy(V, old, new, h[s], Done(s))
  <2>1. IsFiniteSet(s) /\ s # {}
    BY <1>3, <1>5, FS_Subset, FS_EmptySet
  <2>2. PICK d \in s : d = CHOOSE x \in s : TRUE
    BY <2>1
  <2>3. PICK u : u = h[s \ {d}]
    OBVIOUS
  <2>4. h[s] = Turn(erase, d, u)
    BY <1>2, <2>1, <2>2, <2>3 DEF TurnedOf
  <2>5. s \ {d} \in SUBSET S /\ Cardinality(s \ {d}) = m
    <3>1. Cardinality(s \ {d}) = Cardinality(s) - 1
      BY <2>1, <2>2, FS_RemoveElement
    <3> QED
      BY <1>3, <1>5, <3>1
  <2>6. ForwardBy(V, old, new, u, Done(s \ {d}))
    BY <1>5, <2>3, <2>5
  <2> HIDE DEF Done
  <2>7. PICK W : V \subseteq W /\ Closed(W) /\ u \in W
    BY <2>6 DEF ForwardBy
  <2>8. Forward(old, new, u, Done(s \ {d})) /\ old \in W /\ new \in W /\ d \in S
    BY <2>2, <2>6, <2>7 DEF ForwardBy
  <2>9. /\ \E U : W \subseteq U /\ Closed(U) /\ Turn(erase, d, u) \in U
        /\ Forward(old, new, Turn(erase, d, u), Done(s \ {d}) \cup {d.path})
    BY <2>7, <2>8, TurnForward
  <2>10. Done(s \ {d}) \cup {d.path} = Done(s)
    BY <2>2 DEF Done
  <2> QED
    BY <2>4, <2>7, <2>9, <2>10 DEF ForwardBy
<1>6. 0 \in T
  BY <1>3, <1>4
<1>7. ASSUME NEW m \in 0 .. Cardinality(S) - 1, m \in T PROVE m + 1 \in T
  <2>1. m + 1 \in 0 .. Cardinality(S)
    BY <1>3
  <2> QED
    BY <1>5, <1>7, <2>1
<1> HIDE DEF T
<1>8. Cardinality(S) \in T
  <2>1. \A m \in 0 .. Cardinality(S) : m \in T
    BY <1>3, <1>6, <1>7, Upwards
  <2> QED
    BY <1>3, <2>1
<1>9. ForwardBy(V, old, new, h[S], Done(S))
  BY <1>8 DEF T
<1> QED
  BY <1>1, <1>9

-----------------------------------------------------------------------------
(* The difference as a list: what is in it *)
ListOver(h, p, o, n) ==
  IF o = n THEN {}
  ELSE IF o.kind # n.kind \/ o.kind = "leaf" THEN {Entry("modified", p, n)}
  ELSE (UNION {h[Append(p, e)] : e \in Elements(o) \cap Elements(n)})
       \cup {Entry("added", Append(p, e), At(n, e)) : e \in Elements(n) \ Elements(o)}
       \cup {Entry("removed", Append(p, e), Null) : e \in Elements(o) \ Elements(n)}

ListOf(h, old, new, p) == ListOver(h, p, Get(old, p), Get(new, p))

IsList(h, old, new) == h = [p \in Places |-> ListOf(h, old, new, p)]

LEMMA ListIs ==
  ASSUME NEW V, Closed(V), NEW old \in V, NEW new \in V,
         NEW end \in Nat, Ends(old, end), Ends(new, end)
  PROVE  \E h : IsList(h, old, new) /\ CollectDiff(old, new) = h[<<>>]
<1> DEFINE Of(h, p) == ListOf(h, old, new, p)
           From(m) == {p \in Places : Len(p) >= m}
           T == {m \in 0 .. end + 1 : \E h : h = [p \in From(m) |-> Of(h, p)]}
<1>1. \A p \in Places : /\ Len(p) \in Nat
                        /\ Elements(Get(old, p)) \subseteq Element /\ Elements(Get(new, p)) \subseteq Element
  <2>1. \A p \in Places : Get(old, p) \in V /\ Get(new, p) \in V
    BY ClosedReads, ReadFurther
  <2> QED
    BY <2>1, AtIs, PlacesAre
<1>2. end + 1 \in T
  <2>1. ASSUME NEW p \in From(end + 1) PROVE Get(old, p) = Null /\ Get(new, p) = Null
    BY <1>1 DEF Ends
  <2>2. PICK h : h = [p \in From(end + 1) |-> {}]
    OBVIOUS
  <2>3. \A p \in From(end + 1) : Of(h, p) = {}
    BY <2>1, KindsAre DEF ListOf, ListOver
  <2> HIDE DEF Of, From
  <2>4. h = [p \in From(end + 1) |-> Of(h, p)]
    BY <2>2, <2>3
  <2> QED
    BY <2>4
<1>3. ASSUME NEW m \in 0 .. (end + 1) - 1, m + 1 \in T PROVE m \in T
  <2>1. PICK h : h = [p \in From(m + 1) |-> Of(h, p)]
    BY <1>3
  <2>2. PICK g : g = [p \in From(m) |-> IF Len(p) = m THEN Of(h, p) ELSE h[p]]
    OBVIOUS
  <2>3. ASSUME NEW p \in From(m) PROVE Of(g, p) = Of(h, p)
    <3>1. ASSUME NEW e \in Elements(Get(old, p)) \cap Elements(Get(new, p))
          PROVE  g[Append(p, e)] = h[Append(p, e)]
      <4>1. Append(p, e) \in From(m) /\ Len(Append(p, e)) # m
        BY <1>1, StepOn
      <4> QED
        BY <2>2, <4>1
    <3>2. {g[Append(p, e)] : e \in Elements(Get(old, p)) \cap Elements(Get(new, p))}
            = {h[Append(p, e)] : e \in Elements(Get(old, p)) \cap Elements(Get(new, p))}
      BY <3>1
    <3> QED
      BY <3>2 DEF ListOf, ListOver
  <2>4. \A p \in From(m) : Len(p) # m => p \in From(m + 1)
    BY <1>1
  <2> HIDE DEF Of, From
  <2>5. \A p \in From(m) : g[p] = Of(g, p)
    BY <2>1, <2>2, <2>3, <2>4
  <2>6. g = [p \in From(m) |-> Of(g, p)]
    BY <2>2, <2>5
  <2> QED
    BY <2>6
<1> HIDE DEF T
<1>4. \A m \in 0 .. end + 1 : m \in T
  BY <1>2, <1>3, Downwards
<1>5. 0 \in T /\ From(0) = Places
  BY <1>1, <1>4
<1>6. PICK g : g = [p \in Places |-> Of(g, p)]
  BY <1>5 DEF T
<1> DEFINE from == CHOOSE h : h = [p \in Places |-> Of(h, p)]
<1>7. from = [p \in Places |-> Of(from, p)]
  BY <1>6
<1>8. CollectDiff(old, new) = from[<<>>]
  BY DEF CollectDiff, ListOf, ListOver
<1>9. IsList(from, old, new)
  BY <1>7 DEF IsList
<1> QED
  BY <1>8, <1>9

LEMMA FiniteRange ==
  ASSUME NEW S, IsFiniteSet(S), NEW f, f = [x \in S |-> f[x]]
  PROVE  IsFiniteSet({f[x] : x \in S})
<1>1. f \in Surjection(S, {f[x] : x \in S})
  BY DEF Surjection
<1> QED
  BY <1>1, FS_Surjection

\* The entry for an element the two containers at a place do not have in common
Listed(old, new, d) ==
  \E q \in Places, e \in Element :
    /\ Spine(old, new, q) /\ ~Spine(old, new, Append(q, e))
    /\ e \in Elements(Get(old, q)) \cup Elements(Get(new, q))
    /\ d.path = Append(q, e) /\ d.new = At(Get(new, q), e)
    /\ d.what = IF e \notin Elements(Get(old, q)) THEN "added"
                ELSE IF e \notin Elements(Get(new, q)) THEN "removed" ELSE "modified"

ListedAll(old, new, D) == IsFiniteSet(D) /\ \A d \in D : Listed(old, new, d)

LEMMA ListedHere ==
  ASSUME NEW V, Closed(V), NEW old \in V, NEW new \in V, NEW h, IsList(h, old, new),
         NEW p \in Places, Spine(old, new, p), NEW o, o = Get(old, p), NEW n, n = Get(new, p),
         \A e \in Element : e \in Elements(o) \cap Elements(n) /\ Spine(old, new, Append(p, e))
                              => ListedAll(old, new, h[Append(p, e)])
  PROVE  /\ ListedAll(old, new, h[p])
         /\ \A e \in Element : Spine(old, new, Append(p, e)) => h[Append(p, e)] \subseteq h[p]
         /\ \A e \in Element : ~Spine(old, new, Append(p, e)) /\ ~Agree(o, n, e)
              => \E d \in h[p] : d.path = Append(p, e)
<1>1. /\ \A x \in Places : h[x] = ListOf(h, old, new, x)
      /\ o \in V /\ n \in V
  <2>1. \A x \in Places : h[x] = ListOf(h, old, new, x)
    BY DEF IsList
  <2> QED
    BY <2>1, ClosedReads, ReadFurther
<1>2. /\ o # n /\ o.kind = n.kind /\ o.kind # "leaf"
      /\ Elements(o) \subseteq Element /\ Elements(n) \subseteq Element
      /\ IsFiniteSet(Elements(o)) /\ IsFiniteSet(Elements(n))
      /\ \A e : (e \notin Elements(o) => At(o, e) = Null) /\ (e \notin Elements(n) => At(n, e) = Null)
  BY <1>1, AtIs DEF Spine
<1>3. PICK both : both = [e \in Elements(o) \cap Elements(n) |-> h[Append(p, e)]]
  OBVIOUS
<1>4. PICK added : added = [e \in Elements(n) \ Elements(o) |-> Entry("added", Append(p, e), At(n, e))]
  OBVIOUS
<1>5. PICK gone : gone = [e \in Elements(o) \ Elements(n) |-> Entry("removed", Append(p, e), Null)]
  OBVIOUS
<1>6. h[p] = (UNION {both[e] : e \in Elements(o) \cap Elements(n)})
             \cup {added[e] : e \in Elements(n) \ Elements(o)}
             \cup {gone[e] : e \in Elements(o) \ Elements(n)}
  <2>1. {both[e] : e \in Elements(o) \cap Elements(n)} = {h[Append(p, e)] : e \in Elements(o) \cap Elements(n)}
    BY <1>3
  <2>2. {added[e] : e \in Elements(n) \ Elements(o)}
          = {Entry("added", Append(p, e), At(n, e)) : e \in Elements(n) \ Elements(o)}
    BY <1>4
  <2>3. {gone[e] : e \in Elements(o) \ Elements(n)}
          = {Entry("removed", Append(p, e), Null) : e \in Elements(o) \ Elements(n)}
    BY <1>5
  <2>4. h[p] = ListOver(h, p, o, n)
    BY <1>1 DEF ListOf
  <2>5. h[p] = (UNION {h[Append(p, e)] : e \in Elements(o) \cap Elements(n)})
               \cup {Entry("added", Append(p, e), At(n, e)) : e \in Elements(n) \ Elements(o)}
               \cup {Entry("removed", Append(p, e), Null) : e \in Elements(o) \ Elements(n)}
    BY <1>2, <2>4 DEF ListOver
  <2> QED
    BY <2>1, <2>2, <2>3, <2>5
<1>7. ASSUME NEW e \in Element, e \in Elements(o), e \in Elements(n)
      PROVE  /\ ListedAll(old, new, both[e]) /\ both[e] = h[Append(p, e)]
             /\ ~Spine(old, new, Append(p, e)) /\ At(o, e) # At(n, e)
                  => \E d \in both[e] : d.path = Append(p, e)
  <2>1. Append(p, e) \in Places /\ both[e] = h[Append(p, e)]
    BY <1>3, <1>7, StepOn
  <2>2. Get(old, Append(p, e)) = At(o, e) /\ Get(new, Append(p, e)) = At(n, e)
    BY ClosedReads, ReadFurther
  <2>3. IsValidPath(old, Append(p, e)) /\ IsValidPath(new, Append(p, e))
    BY <1>7, ValidOn DEF Spine
  <2>4. CASE Spine(old, new, Append(p, e))
    BY <1>7, <2>1, <2>4
  <2>5. CASE At(o, e) = At(n, e)
    <3>1. both[e] = {}
      BY <1>1, <2>1, <2>2, <2>5 DEF ListOf, ListOver
    <3> QED
      BY <2>1, <2>5, <3>1, FS_EmptySet DEF ListedAll
  <2>6. CASE At(o, e) # At(n, e) /\ ~Spine(old, new, Append(p, e))
    <3>1. At(o, e).kind # At(n, e).kind \/ At(o, e).kind = "leaf"
      BY <2>2, <2>3, <2>6 DEF Spine
    <3>2. PICK d : d = Entry("modified", Append(p, e), At(n, e)) /\ both[e] = {d}
      BY <1>1, <2>1, <2>2, <2>6, <3>1 DEF ListOf, ListOver
    <3>3. d.path = Append(p, e) /\ d.new = At(n, e) /\ d.what = "modified"
      BY <3>2 DEF Entry
    <3>4. Listed(old, new, d)
      BY <1>7, <2>6, <3>3 DEF Listed
    <3>5. IsFiniteSet({d}) /\ \A x \in {d} : Listed(old, new, x)
      BY <3>4, FS_Singleton
    <3> QED
      BY <2>1, <3>2, <3>3, <3>5 DEF ListedAll
  <2> QED
    BY <2>4, <2>5, <2>6
<1>8. ASSUME NEW e \in Element, e \notin Elements(o) \/ e \notin Elements(n)
      PROVE  ~Spine(old, new, Append(p, e))
  BY <1>8, SpineIs
<1>9. ASSUME NEW e \in Element, e \in Elements(n), e \notin Elements(o)
      PROVE  Listed(old, new, added[e]) /\ added[e].path = Append(p, e)
  <2>1. added[e].path = Append(p, e) /\ added[e].new = At(n, e) /\ added[e].what = "added"
    BY <1>4, <1>9 DEF Entry
  <2> QED
    BY <1>8, <1>9, <2>1 DEF Listed
<1>10. ASSUME NEW e \in Element, e \in Elements(o), e \notin Elements(n)
       PROVE  Listed(old, new, gone[e]) /\ gone[e].path = Append(p, e)
  <2>1. gone[e].path = Append(p, e) /\ gone[e].new = At(n, e) /\ gone[e].what = "removed"
    BY <1>2, <1>5, <1>10 DEF Entry
  <2> QED
    BY <1>8, <1>10, <2>1 DEF Listed
<1>11. IsFiniteSet(h[p])
  <2>1. /\ IsFiniteSet(Elements(o) \cap Elements(n)) /\ IsFiniteSet(Elements(n) \ Elements(o))
        /\ IsFiniteSet(Elements(o) \ Elements(n))
    BY <1>2, FS_Subset
  <2>2. IsFiniteSet({both[e] : e \in Elements(o) \cap Elements(n)})
    BY <1>3, <2>1, FiniteRange
  <2>3. IsFiniteSet({added[e] : e \in Elements(n) \ Elements(o)})
    BY <1>4, <2>1, FiniteRange
  <2>4. IsFiniteSet({gone[e] : e \in Elements(o) \ Elements(n)})
    BY <1>5, <2>1, FiniteRange
  <2>5. \A s \in {both[e] : e \in Elements(o) \cap Elements(n)} : IsFiniteSet(s)
    BY <1>2, <1>7 DEF ListedAll
  <2>6. IsFiniteSet(UNION {both[e] : e \in Elements(o) \cap Elements(n)})
    BY <2>2, <2>5, FS_UNION
  <2>7. \A A, B, C : IsFiniteSet(A) /\ IsFiniteSet(B) /\ IsFiniteSet(C) => IsFiniteSet(A \cup B \cup C)
    BY FS_Union
  <2> QED
    BY <1>6, <2>3, <2>4, <2>6, <2>7
<1>12. \A d \in h[p] : Listed(old, new, d)
  BY <1>2, <1>6, <1>7, <1>9, <1>10 DEF ListedAll
<1>13. ASSUME NEW e \in Element, Spine(old, new, Append(p, e)) PROVE h[Append(p, e)] \subseteq h[p]
  <2>1. e \in Elements(o) /\ e \in Elements(n)
    BY <1>13, SpineIs
  <2> QED
    BY <1>6, <1>7, <2>1
<1>14. ASSUME NEW e \in Element, ~Spine(old, new, Append(p, e)), ~Agree(o, n, e)
       PROVE  \E d \in h[p] : d.path = Append(p, e)
  <2>1. CASE e \in Elements(o) /\ e \in Elements(n)
    <3>1. At(o, e) # At(n, e)
      BY <1>14, <2>1 DEF Agree
    <3>2. PICK d \in both[e] : d.path = Append(p, e)
      BY <1>7, <1>14, <2>1, <3>1
    <3> QED
      BY <1>6, <2>1, <3>2
  <2>2. CASE e \in Elements(n) /\ e \notin Elements(o)
    BY <1>6, <1>9, <2>2
  <2>3. CASE e \in Elements(o) /\ e \notin Elements(n)
    BY <1>6, <1>10, <2>3
  <2>4. CASE e \notin Elements(o) /\ e \notin Elements(n)
    BY <1>2, <1>14, <2>4 DEF Agree
  <2> QED
    BY <2>1, <2>2, <2>3, <2>4
<1> QED
  BY <1>11, <1>12, <1>13, <1>14 DEF ListedAll

\* The whole difference: its entries, and that it has one for each element to tell
LEMMA ListTells ==
  ASSUME NEW V, Closed(V), NEW old \in V, NEW new \in V,
         NEW end \in Nat, Ends(old, end), Ends(new, end), Spine(old, new, <<>>)
  PROVE  /\ ListedAll(old, new, CollectDiff(old, new))
         /\ \A q \in Places, e \in Element :
              Spine(old, new, q) /\ ~Spine(old, new, Append(q, e)) /\ ~Agree(Get(old, q), Get(new, q), e)
                => \E d \in CollectDiff(old, new) : d.path = Append(q, e)
<1>1. PICK h : IsList(h, old, new) /\ CollectDiff(old, new) = h[<<>>]
  BY ListIs
<1> DEFINE G == {p \in Places : Spine(old, new, p) => ListedAll(old, new, h[p])}
<1>2. ASSUME NEW p \in Places, Len(p) > end PROVE p \in G
  BY <1>2 DEF Spine, Ends
<1>3. ASSUME NEW p \in Places, \A e \in Element : Append(p, e) \in G PROVE p \in G
  <2>1. \A e \in Element : Spine(old, new, Append(p, e)) => ListedAll(old, new, h[Append(p, e)])
    BY <1>3
  <2>2. ASSUME Spine(old, new, p) PROVE ListedAll(old, new, h[p])
    BY <1>1, <2>1, <2>2, ListedHere
  <2> QED
    BY <2>2
<1> HIDE DEF G
<1>4. \A p \in Places : p \in G
  BY <1>2, <1>3, FromTheEnds
<1>5. ASSUME NEW p \in Places, Spine(old, new, p)
      PROVE  /\ ListedAll(old, new, h[p])
             /\ \A e \in Element : Spine(old, new, Append(p, e)) => h[Append(p, e)] \subseteq h[p]
             /\ \A e \in Element : ~Spine(old, new, Append(p, e)) /\ ~Agree(Get(old, p), Get(new, p), e)
                  => \E d \in h[p] : d.path = Append(p, e)
  <2>1. \A e \in Element : Spine(old, new, Append(p, e)) => ListedAll(old, new, h[Append(p, e)])
    BY <1>4, StepOn DEF G
  <2> QED
    BY <1>1, <1>5, <2>1, ListedHere
<1>6. <<>> \in Places
  BY PlacesAre
<1> DEFINE H == {p \in Places : Spine(old, new, p) => h[p] \subseteq h[<<>>]}
<1>7. <<>> \in H
  BY <1>6
<1>8. ASSUME NEW p \in Places, p \in H, NEW e \in Element PROVE Append(p, e) \in H
  <2>1. Append(p, e) \in Places
    BY StepOn
  <2>2. ASSUME Spine(old, new, Append(p, e)) PROVE h[Append(p, e)] \subseteq h[<<>>]
    <3>1. IsPrefix(p, Append(p, e))
      BY <2>1, Beyond
    <3>2. Spine(old, new, p)
      BY <2>1, <2>2, <3>1, SpineBefore
    <3> QED
      BY <1>5, <1>8, <2>2, <3>2
  <2> QED
    BY <2>1, <2>2
<1> HIDE DEF H
<1>9. \A p \in Places : p \in H
  BY <1>7, <1>8, FromTheRoot
<1>10. ASSUME NEW q \in Places, NEW e \in Element, Spine(old, new, q), ~Spine(old, new, Append(q, e)),
              ~Agree(Get(old, q), Get(new, q), e)
       PROVE  \E d \in h[<<>>] : d.path = Append(q, e)
  <2>1. h[q] \subseteq h[<<>>]
    BY <1>9, <1>10 DEF H
  <2>2. PICK d \in h[q] : d.path = Append(q, e)
    BY <1>5, <1>10
  <2> QED
    BY <2>1, <2>2
<1> QED
  BY <1>1, <1>5, <1>6, <1>10

\* Applied to the old document it brings forward whatever it tells.
LEMMA ListForward ==
  ASSUME NEW V, Closed(V), NEW old \in V, NEW new \in V, NEW D, ListedAll(old, new, D)
  PROVE  ForwardBy(V, old, new, ApplyList(old, D), {d.path : d \in D})
<1> DEFINE Some(what) == {d \in D : d.what = what}
<1>1. \A what : IsFiniteSet(Some(what))
  BY FS_Subset DEF ListedAll
<1>2. ASSUME NEW d \in D
      PROVE  /\ d.what \in {"added", "removed", "modified"}
             /\ Tells(old, new, d.what = "removed", d)
  <2>1. PICK q \in Places, e \in Element :
          /\ Spine(old, new, q) /\ ~Spine(old, new, Append(q, e))
          /\ e \in Elements(Get(old, q)) \cup Elements(Get(new, q))
          /\ d.path = Append(q, e) /\ d.new = At(Get(new, q), e)
          /\ d.what = IF e \notin Elements(Get(old, q)) THEN "added"
                      ELSE IF e \notin Elements(Get(new, q)) THEN "removed" ELSE "modified"
    BY DEF ListedAll, Listed
  <2>2. PICK o \in V : o = Get(old, q)
    BY ClosedReads, ReadFurther
  <2>3. PICK n \in V : n = Get(new, q)
    BY ClosedReads, ReadFurther
  <2>4. /\ (o.kind = "map" => Elements(o) \subseteq Keys) /\ (o.kind # "map" => Elements(o) \subseteq Nat)
        /\ (n.kind = "map" => Elements(n) \subseteq Keys) /\ (n.kind # "map" => Elements(n) \subseteq Nat)
    BY AtIs
  <2>5. o.kind \in {"map", "vector"} /\ o.kind = n.kind
    BY <2>1, <2>2, <2>3, SpineIs DEF Spine
  <2>6. FitsIn(o, e)
    BY <2>1, <2>2, <2>3, <2>4, <2>5 DEF FitsIn
  <2>7. Edge(old, new, q, e)
    BY <2>1, <2>2, <2>6 DEF Edge
  <2>8. d.what = "removed" <=> e \notin Elements(Get(new, q))
    BY <2>1
  <2> QED
    BY <2>1, <2>7, <2>8 DEF Tells
<1> DEFINE a == EraseAll(old, Some("removed"))
           b == SetAll(a, Some("modified"))
           c == SetAll(b, Some("added"))
<1>3. ApplyList(old, D) = c
  BY DEF ApplyList, EraseAll, SetAll
<1>4. ForwardBy(V, old, new, old, {})
  BY DEF ForwardBy, Forward, Stands, Agree
<1>5. PICK t \in BOOLEAN : t
  OBVIOUS
<1>6. PICK f \in BOOLEAN : ~f
  OBVIOUS
<1>7. /\ \A d \in Some("removed") : Tells(old, new, t, d)
      /\ \A d \in Some("modified") \cup Some("added") : Tells(old, new, f, d)
  BY <1>2, <1>5, <1>6 DEF Tells
<1> HIDE DEF Some
<1>8. ForwardBy(V, old, new, a, {} \cup {d.path : d \in Some("removed")})
  <2>1. ForwardBy(V, old, new, IF t THEN EraseAll(old, Some("removed")) ELSE SetAll(old, Some("removed")),
                  {} \cup {d.path : d \in Some("removed")})
    BY <1>1, <1>4, <1>7, FoldForward
  <2> QED
    BY <1>5, <2>1
<1> HIDE DEF a
<1>9. PICK P : P = {} \cup {d.path : d \in Some("removed")}
  OBVIOUS
<1>10. ForwardBy(V, old, new, b, P \cup {d.path : d \in Some("modified")})
  <2>1. ForwardBy(V, old, new, IF f THEN EraseAll(a, Some("modified")) ELSE SetAll(a, Some("modified")),
                  P \cup {d.path : d \in Some("modified")})
    BY <1>1, <1>7, <1>8, <1>9, FoldForward
  <2> QED
    BY <1>6, <2>1
<1> HIDE DEF b
<1>11. PICK Q : Q = P \cup {d.path : d \in Some("modified")}
  OBVIOUS
<1>12. ForwardBy(V, old, new, c, Q \cup {d.path : d \in Some("added")})
  <2>1. ForwardBy(V, old, new, IF f THEN EraseAll(b, Some("added")) ELSE SetAll(b, Some("added")),
                  Q \cup {d.path : d \in Some("added")})
    BY <1>1, <1>7, <1>10, <1>11, FoldForward
  <2> QED
    BY <1>6, <2>1
<1> HIDE DEF c
<1>13. Q \cup {d.path : d \in Some("added")} = {d.path : d \in D}
  BY <1>2, <1>9, <1>11 DEF Some
<1> QED
  BY <1>3, <1>12, <1>13

Complete(old, new, P) ==
  \A q \in Places, e \in Element :
    Spine(old, new, q) /\ ~Spine(old, new, Append(q, e)) /\ ~Agree(Get(old, q), Get(new, q), e)
      => Append(q, e) \in P

\* No vector at a place of both documents has another length.
Matching(old, new, p) ==
  Get(old, p).kind = "vector" /\ Get(new, p).kind = "vector"
    => Elements(Get(old, p)) = Elements(Get(new, p))

LEMMA ResizedIs ==
  ASSUME NEW V, Closed(V), NEW old \in V, NEW new \in V, NEW end \in Nat, Ends(old, end), Ends(new, end)
  PROVE  Resized(old, new)
           <=> \E p \in Places : IsValidPath(old, p) /\ IsValidPath(new, p) /\ ~Matching(old, new, p)
<1>1. /\ PlacesIn(old) = {p \in Places : IsValidPath(old, p)}
      /\ PlacesIn(new) = {p \in Places : IsValidPath(new, p)}
  BY PlacesInIs
<1>2. ASSUME NEW o \in V, NEW n \in V, o.kind = "vector", n.kind = "vector"
      PROVE  Len(o.items) # Len(n.items) <=> Elements(o) # Elements(n)
  <2>1. PICK s \in Seq(V) : o = VectorOf(s)
    BY <1>2, KindOf, Zenon
  <2>2. PICK t \in Seq(V) : n = VectorOf(t)
    BY <1>2, KindOf, Zenon
  <2>3. o.items = s /\ Elements(o) = 0 .. (Len(s) - 1) /\ n.items = t /\ Elements(n) = 0 .. (Len(t) - 1)
    BY <2>1, <2>2, KindsAre
  <2>4. PICK k \in Nat : k = Len(s)
    OBVIOUS
  <2>5. PICK l \in Nat : l = Len(t)
    OBVIOUS
  <2>6. k # l => 0 .. (k - 1) # 0 .. (l - 1)
    <3>1. k < l => k \in 0 .. (l - 1) /\ k \notin 0 .. (k - 1)
      OBVIOUS
    <3>2. l < k => l \in 0 .. (k - 1) /\ l \notin 0 .. (l - 1)
      OBVIOUS
    <3>3. k < l \/ l < k \/ k = l
      OBVIOUS
    <3> QED
      BY <3>1, <3>2, <3>3
  <2> QED
    BY <2>3, <2>4, <2>5, <2>6
<1>3. \A p \in Places : Get(old, p) \in V /\ Get(new, p) \in V
  BY ClosedReads, ReadFurther
<1>4. Resized(old, new)
        <=> \E p \in Places :
              /\ IsValidPath(old, p) /\ IsValidPath(new, p)
              /\ Get(old, p).kind = "vector" /\ Get(new, p).kind = "vector"
              /\ Len(Get(old, p).items) # Len(Get(new, p).items)
  BY <1>1 DEF Resized
<1> QED
  BY <1>2, <1>3, <1>4 DEF Matching

\* What was brought forward everywhere is the new document, beside the lengths of vectors.
LEMMA BroughtForward ==
  ASSUME NEW V, Closed(V), NEW old \in V, NEW new \in V,
         NEW end \in Nat, Ends(old, end), Ends(new, end), Spine(old, new, <<>>),
         NEW P, Complete(old, new, P), NEW r, ForwardBy(V, old, new, r, P)
  PROVE  r = new <=> \A p \in Places : Spine(old, new, p) => Matching(old, new, p)
<1>1. PICK W : V \subseteq W /\ Closed(W) /\ r \in W
  BY DEF ForwardBy
<1>2. Forward(old, new, r, P)
  BY DEF ForwardBy
<1>3. ASSUME NEW p \in Places, Spine(old, new, p), NEW o, o = Get(old, p), NEW n, n = Get(new, p),
             NEW u, u = Get(r, p)
      PROVE  /\ o \in W /\ n \in W /\ u \in W /\ u.kind = o.kind /\ u.kind = n.kind
             /\ u.kind \in {"map", "vector"}
             /\ \A c \in Element : Spine(old, new, Append(p, c))
                  => /\ c \in Elements(o) /\ c \in Elements(n) /\ c \in Elements(u)
                     /\ At(u, c) = Get(r, Append(p, c)) /\ At(n, c) = Get(new, Append(p, c))
             /\ \A c \in Element : ~Spine(old, new, Append(p, c)) => Stands(o, n, u, c, Append(p, c) \in P)
  <2>1. o \in V /\ n \in V /\ o.kind \in {"map", "vector"}
        /\ \A e \in Element : Spine(old, new, Append(p, e)) => e \in Elements(o) /\ e \in Elements(n)
    BY <1>3, SpineIs
  <2>2. u \in W /\ \A e \in Element : Get(r, Append(p, e)) = At(u, e)
    BY <1>1, <1>3, ClosedReads, ReadFurther
  <2>3. \A e \in Element : Get(new, Append(p, e)) = At(n, e)
    BY <1>3, ClosedReads, ReadFurther
  <2>4. /\ u.kind = o.kind
        /\ \A c \in Element : ~Spine(old, new, Append(p, c)) => Stands(o, n, u, c, Append(p, c) \in P)
    BY <1>2, <1>3 DEF Forward
  <2>5. ASSUME NEW c \in Element, Spine(old, new, Append(p, c)) PROVE c \in Elements(u)
    <3>1. Append(p, c) \in Places
      BY StepOn
    <3>2. Get(r, Append(p, c)).kind = Get(old, Append(p, c)).kind
      BY <1>2, <2>5, <3>1 DEF Forward
    <3>3. Get(old, Append(p, c)).kind \in {"map", "vector"}
      BY <2>5, <3>1, SpineIs
    <3>4. At(u, c) # Null
      BY <2>2, <3>2, <3>3, KindsAre
    <3> QED
      BY <3>4 DEF At
  <2>6. o.kind = n.kind
    BY <1>3 DEF Spine
  <2> QED
    BY <1>1, <2>1, <2>2, <2>3, <2>4, <2>5, <2>6
<1>4. ASSUME NEW p \in Places, Spine(old, new, p), Matching(old, new, p),
             \A e \in Element : Spine(old, new, Append(p, e)) => Get(r, Append(p, e)) = Get(new, Append(p, e))
      PROVE  Get(r, p) = Get(new, p)
  <2>1. PICK o : o = Get(old, p)
    OBVIOUS
  <2>2. PICK n : n = Get(new, p)
    OBVIOUS
  <2>3. PICK u : u = Get(r, p)
    OBVIOUS
  <2>4. /\ o \in W /\ n \in W /\ u \in W /\ u.kind = o.kind /\ u.kind = n.kind
        /\ u.kind \in {"map", "vector"}
        /\ \A c \in Element : Spine(old, new, Append(p, c))
             => /\ c \in Elements(o) /\ c \in Elements(n) /\ c \in Elements(u)
                /\ At(u, c) = Get(r, Append(p, c)) /\ At(n, c) = Get(new, Append(p, c))
        /\ \A c \in Element : ~Spine(old, new, Append(p, c)) => Stands(o, n, u, c, Append(p, c) \in P)
    BY <1>3, <1>4, <2>1, <2>2, <2>3
  <2>5. ASSUME NEW c \in Element PROVE Agree(u, n, c)
    <3>1. CASE Spine(old, new, Append(p, c))
      BY <1>4, <2>4, <3>1 DEF Agree
    <3>2. CASE ~Spine(old, new, Append(p, c))
      <4>1. Stands(o, n, u, c, Append(p, c) \in P)
        BY <2>4, <3>2
      <4>2. Append(p, c) \notin P => Agree(o, n, c)
        BY <1>4, <2>1, <2>2, <3>2 DEF Complete
      <4>3. (c \notin Elements(o) => At(o, c) = Null) /\ (c \notin Elements(n) => At(n, c) = Null)
        BY DEF At
      <4>4. o.kind = "vector" => Elements(o) = Elements(n)
        BY <1>4, <2>1, <2>2, <2>4 DEF Matching
      <4>5. CASE Append(p, c) \in P
        BY <2>4, <4>1, <4>3, <4>4, <4>5 DEF Stands, Agree
      <4>6. CASE Append(p, c) \notin P
        BY <2>4, <4>1, <4>2, <4>3, <4>4, <4>6 DEF Stands, Agree
      <4> QED
        BY <4>5, <4>6
    <3> QED
      BY <3>1, <3>2
  <2>6. Elements(u) \subseteq Element /\ Elements(n) \subseteq Element
    BY <1>1, <2>4, AtIs
  <2>7. Elements(u) = Elements(n) /\ \A e \in Elements(n) : At(u, e) = At(n, e)
    BY <2>5, <2>6 DEF Agree
  <2>8. u.kind = n.kind /\ u.kind # "leaf"
    BY <2>4
  <2>9. u = n
    BY <1>1, <2>4, <2>7, <2>8, SameValue
  <2> QED
    BY <2>2, <2>3, <2>9
<1>5. <<>> \in Places /\ Get(r, <<>>) = r /\ Get(new, <<>>) = new
  <2>1. <<>> \in Places
    BY PlacesAre
  <2> QED
    BY <1>1, <2>1, ClosedReads, ReadFurther
<1>6. ASSUME \A p \in Places : Spine(old, new, p) => Matching(old, new, p) PROVE r = new
  <2> DEFINE G == {p \in Places : Spine(old, new, p) => Get(r, p) = Get(new, p)}
  <2>1. ASSUME NEW p \in Places, Len(p) > end PROVE p \in G
    BY <2>1 DEF Spine, Ends
  <2>2. ASSUME NEW p \in Places, \A e \in Element : Append(p, e) \in G PROVE p \in G
    <3>1. \A e \in Element : Spine(old, new, Append(p, e)) => Get(r, Append(p, e)) = Get(new, Append(p, e))
      BY <2>2
    <3>2. ASSUME Spine(old, new, p) PROVE Get(r, p) = Get(new, p)
      BY <1>4, <1>6, <3>1, <3>2
    <3> QED
      BY <3>2
  <2> HIDE DEF G
  <2>3. \A p \in Places : p \in G
    BY <2>1, <2>2, FromTheEnds
  <2> QED
    BY <1>5, <2>3 DEF G
<1>7. ASSUME r = new, NEW p \in Places, Spine(old, new, p) PROVE Matching(old, new, p)
  <2>1. PICK o : o = Get(old, p)
    OBVIOUS
  <2>2. PICK n : n = Get(new, p) /\ n = Get(r, p)
    BY <1>7
  <2>3. /\ o \in W /\ n \in W
        /\ \A c \in Element : Spine(old, new, Append(p, c)) => c \in Elements(o) /\ c \in Elements(n)
        /\ \A c \in Element : ~Spine(old, new, Append(p, c)) => Stands(o, n, n, c, Append(p, c) \in P)
    BY <1>3, <1>7, <2>1, <2>2
  <2>4. Elements(o) \subseteq Element /\ Elements(n) \subseteq Element
    BY <1>1, <2>3, AtIs
  <2>5. ASSUME o.kind = "vector", NEW c \in Element PROVE c \in Elements(o) <=> c \in Elements(n)
    BY <2>3, <2>5 DEF Stands
  <2> QED
    BY <2>1, <2>2, <2>4, <2>5 DEF Matching
<1> QED
  BY <1>6, <1>7

\* Folding over nothing
LEMMA NoneTurned ==
  ASSUME NEW v
  PROVE  EraseAll(v, {}) = v /\ SetAll(v, {}) = v
<1>1. IsFiniteSet({})
  BY FS_EmptySet
<1>2. ASSUME NEW erase \in BOOLEAN PROVE (IF erase THEN EraseAll(v, {}) ELSE SetAll(v, {})) = v
  <2>1. PICK h : IsTurned(h, erase, v, {}) /\ h[{}] = IF erase THEN EraseAll(v, {}) ELSE SetAll(v, {})
    BY <1>1, FoldsAre
  <2>2. h[{}] = TurnedOf(h, erase, v, {})
    BY <2>1 DEF IsTurned
  <2>3. h[{}] = v
    BY <2>2 DEF TurnedOf
  <2> QED
    BY <2>1, <2>3
<1>3. PICK t \in BOOLEAN, f \in BOOLEAN : t /\ ~f
  OBVIOUS
<1> QED
  BY <1>2, <1>3

LEMMA OneSet ==
  ASSUME NEW v, NEW d
  PROVE  SetAll(v, {d}) = SetAt(v, d.path, d.new)
<1>1. IsFiniteSet({d})
  BY FS_Singleton
<1>2. PICK erase \in BOOLEAN : ~erase
  OBVIOUS
<1>3. PICK h : IsTurned(h, erase, v, {d}) /\ h[{d}] = IF erase THEN EraseAll(v, {d}) ELSE SetAll(v, {d})
  BY <1>1, FoldsAre
<1>4. {} \in SUBSET {d} /\ {d} \in SUBSET {d} /\ {d} \ {d} = {} /\ {d} # {}
  OBVIOUS
<1>5. h[{}] = TurnedOf(h, erase, v, {}) /\ h[{d}] = TurnedOf(h, erase, v, {d})
  BY <1>3, <1>4 DEF IsTurned
<1>6. h[{}] = v
  BY <1>5 DEF TurnedOf
<1>7. (CHOOSE x \in {d} : TRUE) = d
  OBVIOUS
<1>8. h[{d}] = Turn(erase, d, v)
  BY <1>4, <1>5, <1>6, <1>7 DEF TurnedOf
<1> QED
  BY <1>2, <1>3, <1>8 DEF Turn

(* The documents are alike at the root alone, or at no place. *)
LEMMA AtTheRoot ==
  ASSUME NEW V, Closed(V), NEW old \in V, NEW new \in V, old # new, old.kind # new.kind \/ old.kind = "leaf",
         NEW p \in Places, IsValidPath(old, p), IsValidPath(new, p)
  PROVE  Matching(old, new, p)
<1>1. <<>> \in Places /\ Get(old, <<>>) = old /\ Get(new, <<>>) = new /\ IsPrefix(<<>>, p)
  <2>1. <<>> \in Places
    BY PlacesAre
  <2> QED
    BY <2>1, ClosedReads, ReadFurther, Beyond
<1>2. CASE p = <<>>
  BY <1>1, <1>2 DEF Matching
<1>3. CASE p # <<>>
  <2>1. PICK e \in Element : e \in Elements(old) /\ e = p[Len(<<>>) + 1]
    BY <1>1, <1>3, PlacesBelow
  <2>2. PICK c \in Element : c \in Elements(new) /\ c = p[Len(<<>>) + 1]
    BY <1>1, <1>3, PlacesBelow
  <2>3. /\ old.kind \in {"null", "leaf", "map", "vector"} /\ (old.kind \in {"null", "leaf"} => Elements(old) = {})
        /\ new.kind \in {"null", "leaf", "map", "vector"} /\ (new.kind \in {"null", "leaf"} => Elements(new) = {})
    BY KindOf
  <2>4. /\ (old.kind = "map" => Elements(old) \subseteq Keys) /\ (old.kind # "map" => Elements(old) \subseteq Nat)
        /\ (new.kind = "map" => Elements(new) \subseteq Keys) /\ (new.kind # "map" => Elements(new) \subseteq Nat)
    BY AtIs
  <2> QED
    BY <2>1, <2>2, <2>3, <2>4, PathAssumption
<1> QED
  BY <1>2, <1>3

(* The list carries over exactly what leaves the vectors both have as long. *)
LEMMA ListCarries ==
  ASSUME NEW V, Closed(V), NEW old \in V, NEW new \in V,
         NEW end \in Nat, Ends(old, end), Ends(new, end)
  PROVE  (ApplyList(old, CollectDiff(old, new)) = new) <=> ~Resized(old, new)
<1>1. <<>> \in Places /\ Get(old, <<>>) = old /\ Get(new, <<>>) = new
  <2>1. <<>> \in Places
    BY PlacesAre
  <2> QED
    BY <2>1, ClosedReads, ReadFurther
<1>2. Resized(old, new) <=> \E p \in Places : IsValidPath(old, p) /\ IsValidPath(new, p) /\ ~Matching(old, new, p)
  BY ResizedIs
<1>3. PICK h : IsList(h, old, new) /\ CollectDiff(old, new) = h[<<>>]
  BY ListIs
<1>4. CollectDiff(old, new) = ListOver(h, <<>>, old, new)
  BY <1>1, <1>3 DEF IsList, ListOf
<1>5. PICK D : D = CollectDiff(old, new)
  OBVIOUS
<1> DEFINE Some(what) == {d \in D : d.what = what}
<1>6. ApplyList(old, D) = SetAll(SetAll(EraseAll(old, Some("removed")), Some("modified")), Some("added"))
  BY DEF ApplyList, EraseAll, SetAll
<1>7. CASE old = new
  <2>1. D = {}
    BY <1>4, <1>5, <1>7 DEF ListOver
  <2>2. Some("removed") = {} /\ Some("modified") = {} /\ Some("added") = {}
    BY <2>1
  <2>3. ApplyList(old, D) = old
    BY <1>6, <2>2, NoneTurned
  <2>4. \A p \in Places : Matching(old, new, p)
    BY <1>7 DEF Matching
  <2> QED
    BY <1>2, <1>5, <1>7, <2>3, <2>4
<1>8. CASE old # new /\ (old.kind # new.kind \/ old.kind = "leaf")
  <2>1. PICK d : d = Entry("modified", <<>>, new) /\ D = {d}
    BY <1>4, <1>5, <1>8 DEF ListOver
  <2>2. d.what = "modified" /\ d.path = <<>> /\ d.new = new
    BY <2>1 DEF Entry
  <2>3. Some("removed") = {} /\ Some("modified") = {d} /\ Some("added") = {}
    BY <2>1, <2>2
  <2> HIDE DEF Some
  <2>4. ApplyList(old, D) = SetAt(old, <<>>, new)
    <3>1. EraseAll(old, {}) = old /\ SetAll(old, {d}) = SetAt(old, <<>>, new)
      BY <2>2, NoneTurned, OneSet
    <3>2. SetAll(SetAt(old, <<>>, new), {}) = SetAt(old, <<>>, new)
      BY NoneTurned
    <3> QED
      BY <1>6, <2>3, <3>1, <3>2
  <2>5. SetAt(old, <<>>, new) = new
    <3>1. PICK vivify \in BOOLEAN : ~vivify
      OBVIOUS
    <3>2. PICK p \in Seq(Element) : p = <<>> /\ Len(p) = 0
      BY EmptySeq
    <3>3. PICK W, a : /\ V \subseteq W /\ Closed(W) /\ Chain(a, W, vivify, old, p, new)
                      /\ EditAt(vivify, old, p, new) = a[1]
      <4>1. p \in Seq(Element) /\ vivify \in BOOLEAN
        BY <3>1, <3>2
      <4> QED
        BY <4>1, EditIs
    <3>4. a[1] = new
      BY <3>2, <3>3 DEF Chain
    <3> QED
      BY <3>1, <3>2, <3>3, <3>4 DEF EditAt
  <2>6. ~Resized(old, new)
    BY <1>2, <1>8, AtTheRoot
  <2> QED
    BY <1>5, <2>4, <2>5, <2>6
<1>9. CASE old # new /\ old.kind = new.kind /\ old.kind # "leaf"
  <2>1. Spine(old, new, <<>>)
    BY <1>1, <1>9, ValidOn DEF Spine
  <2>2. PICK P : P = {d.path : d \in D}
    OBVIOUS
  <2>3. /\ ListedAll(old, new, D)
        /\ \A q \in Places, e \in Element :
             Spine(old, new, q) /\ ~Spine(old, new, Append(q, e)) /\ ~Agree(Get(old, q), Get(new, q), e)
               => \E d \in D : d.path = Append(q, e)
    BY <1>5, <2>1, ListTells
  <2>4. Complete(old, new, P)
    BY <2>2, <2>3 DEF Complete
  <2>5. ForwardBy(V, old, new, ApplyList(old, D), P)
    BY <2>2, <2>3, ListForward
  <2>6. ApplyList(old, D) = new <=> \A p \in Places : Spine(old, new, p) => Matching(old, new, p)
    BY <2>1, <2>4, <2>5, BroughtForward
  <2>7. \A p \in Places : IsValidPath(old, p) /\ IsValidPath(new, p) /\ ~Matching(old, new, p)
                            => Spine(old, new, p)
    <3> SUFFICES ASSUME NEW p \in Places, IsValidPath(old, p), IsValidPath(new, p), ~Matching(old, new, p)
                 PROVE  Spine(old, new, p)
      OBVIOUS
    <3>1. Get(old, p).kind = "vector" /\ Get(new, p).kind = "vector" /\ Get(old, p) # Get(new, p)
      BY DEF Matching
    <3> QED
      BY <3>1 DEF Spine
  <2>8. \A p \in Places : Spine(old, new, p) => IsValidPath(old, p) /\ IsValidPath(new, p)
    BY DEF Spine
  <2> QED
    BY <1>2, <1>5, <2>6, <2>7, <2>8
<1> QED
  BY <1>7, <1>8, <1>9

-----------------------------------------------------------------------------
(* An edit leaves an end to the paths that read something. *)
LEMMA EndsOn ==
  ASSUME NEW v, NEW n \in Nat, NEW m \in Nat, n <= m, Ends(v, n)
  PROVE  Ends(v, m)
<1> SUFFICES ASSUME NEW p \in Places, Len(p) > m PROVE Get(v, p) = Null
  BY DEF Ends
<1>1. Len(p) \in Nat
  BY PlacesAre
<1>2. Len(p) > n
  BY <1>1
<1> QED
  BY <1>2 DEF Ends

LEMMA EndsAfter ==
  ASSUME NEW W, Closed(W), NEW r \in W, NEW v, NEW n \in Nat, Ends(v, n), NEW p \in Seq(Element),
         \A q \in Seq(Element) : ~Related(p, q) => Get(r, q) = Get(v, q),
         \/ Elements(Get(r, p)) = {}
         \/ \A q \in Seq(Element) : IsStrictPrefix(q, p) \/ Get(r, q) = Get(v, q)
  PROVE  Ends(r, n + Len(p))
<1> SUFFICES ASSUME NEW q \in Places, Len(q) > n + Len(p) PROVE Get(r, q) = Null
  BY DEF Ends
<1>1. q \in Seq(Element) /\ Len(q) \in Nat /\ Len(p) \in Nat /\ Len(q) > n /\ Len(q) > Len(p)
  BY PlacesAre
<1>2. Get(v, q) = Null
  BY <1>1 DEF Ends
<1>3. ~IsPrefix(q, p)
  BY <1>1, Within
<1>4. CASE ~IsPrefix(p, q)
  BY <1>1, <1>2, <1>3, <1>4 DEF Related
<1>5. CASE IsPrefix(p, q) /\ Elements(Get(r, p)) = {}
  <2>1. Prefix(q, Len(p)) = p
    BY <1>1, <1>5, Within
  <2>2. Len(q) \in 0 .. Len(q) /\ Len(p) + 1 \in 1 .. Len(q) /\ (Len(p) + 1) - 1 = Len(p)
    BY <1>1
  <2>3. q[Len(p) + 1] \notin Elements(Get(r, Prefix(q, (Len(p) + 1) - 1)))
    BY <1>5, <2>1, <2>2
  <2>4. Get(r, Prefix(q, Len(q))) = Null
    BY <1>1, <2>2, <2>3, NotNull
  <2> QED
    BY <1>1, <2>4, GetIs
<1>6. CASE \A x \in Seq(Element) : IsStrictPrefix(x, p) \/ Get(r, x) = Get(v, x)
  <2>1. ~IsStrictPrefix(q, p)
    BY <1>3 DEF IsStrictPrefix
  <2> QED
    BY <1>1, <1>2, <1>6, <2>1
<1> QED
  BY <1>4, <1>5, <1>6

LEMMA AtomsEnd ==
  ASSUME NEW new \in Atoms
  PROVE  Elements(new) = {}
<1>1. DOMAIN <<>> = {} /\ 0 .. (Len(<<>>) - 1) = {}
  OBVIOUS
<1> QED
  BY <1>1, KindsAre DEF Atoms

(* The inductive invariant: the document and the version the other side has are
   values through and through, made from those of a closed set, and no longer path
   reads anything in either than some. *)
DocumentInv ==
  /\ \E V : Closed(V) /\ value \in V /\ base \in V
  /\ \E end \in Nat : Ends(value, end) /\ Ends(base, end)

LEMMA DocumentInitInv == DocumentInit => DocumentInv
<1> SUFFICES ASSUME DocumentInit PROVE DocumentInv
  OBVIOUS
<1>1. PICK V : V = {Null, MapOf(<<>>), VectorOf(<<>>)}
  OBVIOUS
<1>2. Null \in ValuesOver(V) /\ MapOf(<<>>) \in ValuesOver(V) /\ VectorOf(<<>>) \in ValuesOver(V)
  BY NothingIs, ValueIs
<1>3. Closed(V)
  BY <1>1, <1>2 DEF Closed
<1>4. Ends(MapOf(<<>>), 0)
  <2> SUFFICES ASSUME NEW p \in Places, Len(p) > 0 PROVE Get(MapOf(<<>>), p) = Null
    BY DEF Ends
  <2>1. p \in Seq(Element) /\ Len(p) \in Nat /\ 1 \in 1 .. Len(p) /\ Len(p) \in 0 .. Len(p) /\ 1 - 1 = 0
    BY PlacesAre
  <2>2. MapOf(<<>>) \in V
    BY <1>1
  <2>3. Get(MapOf(<<>>), Prefix(p, 1 - 1)) = MapOf(<<>>)
    BY <1>3, <2>1, <2>2, GetIs
  <2>4. Elements(MapOf(<<>>)) = {}
    BY AtomsEnd DEF Atoms
  <2>5. Get(MapOf(<<>>), Prefix(p, Len(p))) = Null
    BY <1>3, <2>1, <2>2, <2>3, <2>4, NotNull
  <2> QED
    BY <1>3, <2>1, <2>2, <2>5, GetIs
<1> QED
  BY <1>1, <1>3, <1>4 DEF DocumentInit, DocumentInv

(* An edit keeps it. *)
LEMMA EditedInv ==
  ASSUME NEW p \in Seq(Element), DocumentInv, base' = base, NEW W, Closed(W), value \in W, value' \in W,
         \A q \in Seq(Element) : ~Related(p, q) => Get(value', q) = Get(value, q),
         \/ Elements(Get(value', p)) = {}
         \/ \A q \in Seq(Element) : IsStrictPrefix(q, p) \/ Get(value', q) = Get(value, q),
         base \in W
  PROVE  DocumentInv'
<1>1. PICK n \in Nat : Ends(value, n) /\ Ends(base, n)
  BY DEF DocumentInv
<1>2. PICK m \in Nat : m = n + Len(p) /\ n <= m
  OBVIOUS
<1>3. Ends(value', m)
  BY <1>1, <1>2, EndsAfter
<1>4. Ends(base, m)
  BY <1>1, <1>2, EndsOn
<1>5. Ends(value, m)' /\ Ends(base, m)'
  BY <1>3, <1>4 DEF Ends
<1>6. \E V : Closed(V) /\ value' \in V /\ base' \in V
  OBVIOUS
<1> QED
  BY <1>2, <1>3, <1>4, <1>6 DEF DocumentInv, Ends

LEMMA DocumentNextInv == DocumentInv /\ [DocumentNext]_documentVars => DocumentInv'
<1> SUFFICES ASSUME DocumentInv, [DocumentNext]_documentVars PROVE DocumentInv'
  OBVIOUS
<1>1. PICK V : Closed(V) /\ value \in V /\ base \in V
  BY DEF DocumentInv
<1>2. CASE SetValue
  <2>1. PICK p \in Paths, new \in Atoms : value' = SetAt(value, p, new) /\ base' = base
    BY <1>2 DEF SetValue
  <2>2. p \in Seq(Element)
    BY <2>1, PathAssumption DEF Element
  <2>3. PICK U : V \subseteq U /\ Closed(U) /\ value \in U /\ new \in U
    BY <1>1, <2>1, AtomsAre
  <2>4. /\ \E W : U \subseteq W /\ Closed(W) /\ value' \in W
        /\ \A q \in Seq(Element) : ~Related(p, q) => Get(value', q) = Get(value, q)
        /\ Takes(value, p) => Get(value', p) = new
        /\ ~Takes(value, p) => \A q \in Seq(Element) : IsStrictPrefix(q, p) \/ Get(value', q) = Get(value, q)
    BY <2>1, <2>2, <2>3, SetReads
  <2>5. PICK W : U \subseteq W /\ Closed(W) /\ value' \in W
    BY <2>4
  <2>6. value \in W /\ base \in W
    BY <1>1, <2>3, <2>5
  <2>7. \/ Elements(Get(value', p)) = {}
        \/ \A q \in Seq(Element) : IsStrictPrefix(q, p) \/ Get(value', q) = Get(value, q)
    BY <2>1, <2>4, AtomsEnd
  <2> QED
    BY <2>1, <2>2, <2>4, <2>5, <2>6, <2>7, EditedInv
<1>3. CASE VivifyValue
  <2>1. PICK p \in Paths, new \in Atoms : value' = VivifyAt(value, p, new) /\ base' = base
    BY <1>3 DEF VivifyValue
  <2>2. p \in Seq(Element)
    BY <2>1, PathAssumption DEF Element
  <2>3. PICK U : V \subseteq U /\ Closed(U) /\ value \in U /\ new \in U
    BY <1>1, <2>1, AtomsAre
  <2>4. /\ \E W : U \subseteq W /\ Closed(W) /\ value' \in W
        /\ \A q \in Seq(Element) : ~Related(p, q) => Get(value', q) = Get(value, q)
        /\ MayTake(value, p) => Get(value', p) = new
        /\ ~MayTake(value, p) => value' = value
    BY <2>1, <2>2, <2>3, VivifyReads
  <2>5. PICK W : U \subseteq W /\ Closed(W) /\ value' \in W
    BY <2>4
  <2>6. value \in W /\ base \in W
    BY <1>1, <2>3, <2>5
  <2>7. \/ Elements(Get(value', p)) = {}
        \/ \A q \in Seq(Element) : IsStrictPrefix(q, p) \/ Get(value', q) = Get(value, q)
    BY <2>1, <2>4, AtomsEnd
  <2> QED
    BY <2>1, <2>2, <2>4, <2>5, <2>6, <2>7, EditedInv
<1>4. CASE EraseValue
  <2>1. PICK p \in Paths : value' = EraseAt(value, p) /\ base' = base
    BY <1>4 DEF EraseValue
  <2>2. p \in Seq(Element)
    BY <2>1, PathAssumption DEF Element
  <2>3. /\ \E W : V \subseteq W /\ Closed(W) /\ value' \in W
        /\ \A q \in Seq(Element) : ~Related(p, q) => Get(value', q) = Get(value, q)
        /\ Get(value', p) = Null
    BY <1>1, <2>1, <2>2, EraseReads
  <2>4. PICK W : V \subseteq W /\ Closed(W) /\ value' \in W
    BY <2>3
  <2>5. value \in W /\ base \in W
    BY <1>1, <2>4
  <2>6. Elements(Get(value', p)) = {}
    BY <2>3, KindsAre
  <2> QED
    BY <2>1, <2>2, <2>3, <2>4, <2>5, <2>6, EditedInv
<1>5. CASE PublishValue
  <2>1. value' = value /\ base' = value
    BY <1>5 DEF PublishValue
  <2>2. PICK n \in Nat : Ends(value, n)
    BY DEF DocumentInv
  <2> QED
    BY <1>1, <2>1, <2>2 DEF DocumentInv, Ends
<1>6. CASE UNCHANGED documentVars
  BY <1>6 DEF documentVars, DocumentInv, Ends
<1> QED
  BY <1>2, <1>3, <1>4, <1>5, <1>6 DEF DocumentNext

(* Editing along a path: for any keys, leaves and paths, what is set or created where
   it can be is what is read there, what is erased reads null, nothing beside the
   path is disturbed, and what cannot be created leaves the document as it was
   (path_utils.cpp 17-176). *)
THEOREM ReadBack == DocumentSpec => []EditsReadBack
<1>1. DocumentInv => EditsReadBack
  <2> SUFFICES ASSUME DocumentInv PROVE EditsReadBack
    OBVIOUS
  <2>1. PICK V : Closed(V) /\ value \in V
    BY DEF DocumentInv
  <2>2. ReadsBack(value)
    BY <2>1, AllReadBack
  <2> QED
    BY <2>2 DEF EditsReadBack, ReadsBack
<1> QED
  BY <1>1, DocumentInitInv, DocumentNextInv, PTL DEF DocumentSpec

(* The difference as a tree, for any keys, leaves and paths: applied to the version
   the other side has, it gives the present one exactly when nothing turned into
   null, what was added is leaves and maps of such, and what was removed is leaves
   of maps (value_diff.cpp 527-775, 838-1041). *)
THEOREM TreeDiffs == DocumentSpec => []TreeCarriesOver
<1>1. DocumentInv => TreeCarriesOver
  <2> SUFFICES ASSUME DocumentInv PROVE TreeCarriesOver
    OBVIOUS
  <2>1. PICK V : Closed(V) /\ value \in V /\ base \in V
    BY DEF DocumentInv
  <2>2. PICK end \in Nat : Ends(value, end) /\ Ends(base, end)
    BY DEF DocumentInv
  <2> QED
    BY <2>1, <2>2, TreeCarries DEF TreeCarriesOver
<1> QED
  BY <1>1, DocumentInitInv, DocumentNextInv, PTL DEF DocumentSpec

(* The difference as a list of paths, for any keys, leaves and paths: applied to the
   version the other side has, it gives the present one exactly when no vector that
   both have at a place has another length (shared_state.cpp 614-737, 958-990). *)
THEOREM ListDiffs == DocumentSpec => []ListCarriesOver
<1>1. DocumentInv => ListCarriesOver
  <2> SUFFICES ASSUME DocumentInv PROVE ListCarriesOver
    OBVIOUS
  <2>1. PICK V : Closed(V) /\ value \in V /\ base \in V
    BY DEF DocumentInv
  <2>2. PICK end \in Nat : Ends(value, end) /\ Ends(base, end)
    BY DEF DocumentInv
  <2> QED
    BY <2>1, <2>2, ListCarries DEF ListCarriesOver
<1> QED
  BY <1>1, DocumentInitInv, DocumentNextInv, PTL DEF DocumentSpec
=============================================================================
