----------------------------- MODULE SpscBuffer -----------------------------
(***************************************************************************)
(* SharedBufferSPSC<T, Mode> (include/lager_ext/shared_buffer_spsc.h): one *)
(* producer publishes values of T, one consumer reads the latest.  In the  *)
(* double mode the producer fills the buffer that is not active and flips  *)
(* it by storing state + 1; in the single mode there is one buffer and     *)
(* state is a ready flag.                                                  *)
(*                                                                         *)
(* A T is a set of words, stored and loaded one at a time, so that the two *)
(* processes interleave inside a copy.  A value is known by the number of  *)
(* the write that stored each word; 0 is the zero of a fresh buffer.       *)
(***************************************************************************)
EXTENDS Naturals, Sequences

CONSTANTS
  Mode,        \* BufferMode: "double" or "single"
  Words,       \* the words of a T
  MaxWrites    \* bound: writes begun in one behaviour

ASSUME ModeAssumption == Mode \in {"double", "single"}
ASSUME MaxWritesAssumption == MaxWrites \in Nat

VARIABLES
  state,       \* the atomic in the header
  buffers,     \* the one or two BufferSlots
  wpc,         \* the producer: idle, inside write(), or holding a WriteGuard
  wold,        \* old_state: the state the write in progress began from
  wleft,       \* words the write in progress has yet to store
  started,     \* number of writes begun; the value of the current one
  rpc,         \* the consumer: idle, inside try_read(), or using read()'s reference
  rstate,      \* the state the read in progress loaded
  rleft,       \* words the read in progress has yet to load
  rcopy,       \* what it has loaded
  rseen,       \* newest state the consumer has loaded
  lastRead,    \* last_read_state_
  output,      \* the last value try_read() returned
  published    \* history: the value of each publication

writer == <<wpc, wold, wleft, started>>
reader == <<rpc, rstate, rleft, rcopy, rseen, lastRead, output>>
bufferVars == <<state, buffers, wpc, wold, wleft, started, rpc, rstate, rleft,
                rcopy, rseen, lastRead, output, published>>

-----------------------------------------------------------------------------
Value == [Words -> 0..MaxWrites]
Zero  == [w \in Words |-> 0]

BufferCount == IF Mode = "double" THEN 2 ELSE 1
Slots == 0..(BufferCount - 1)

\* The buffer a write that began from old stores into.
ActiveWriteIdx(old) == IF Mode = "double" THEN old % 2 ELSE 0    \* mutant
WriteIdx(old) == IF Mode = "double" THEN 1 - (old % 2) ELSE 0

\* The buffer a read that loaded s looks at.
ReadIdx(s) == IF Mode = "double" THEN s % 2 ELSE 0

\* The state a write that began from old stores.
NextStateByTwo(old) == old + 2    \* mutant: the version moves, the index does not
NextState(old) == IF Mode = "double" THEN old + 1 ELSE 1

\* The value that state s stands for.
Published(s) == IF s = 0 THEN Zero ELSE published[s]

-----------------------------------------------------------------------------
BufferInit ==
  /\ state = 0
  /\ buffers = [i \in Slots |-> Zero]
  /\ wpc = "idle" /\ wold = 0 /\ wleft = {} /\ started = 0
  /\ rpc = "idle" /\ rstate = 0 /\ rleft = {} /\ rcopy = Zero
  /\ rseen = 0 /\ lastRead = 0 /\ output = Zero
  /\ published = <<>>

-----------------------------------------------------------------------------
(* The producer. *)

\* write() and write_guard(): the old state is loaded and the buffer chosen.
\* write() will store every word, a guard's holder the words it cares for.
WriteBegin(kind, words) ==
  /\ wpc = "idle"
  /\ started < MaxWrites
  /\ wpc' = kind
  /\ wold' = state
  /\ wleft' = words
  /\ started' = started + 1
  /\ UNCHANGED <<state, buffers, reader, published>>

StoreWord(w) ==
  /\ wpc # "idle"
  /\ w \in wleft
  /\ buffers' = [buffers EXCEPT ![WriteIdx(wold)] = [@ EXCEPT ![w] = started]]
  /\ wleft' = wleft \ {w}
  /\ UNCHANGED <<state, wpc, wold, started, reader, published>>

\* The end of write(); the end, or the reassignment, of the guard.
Publish ==
  /\ wpc # "idle"
  /\ wleft = {}
  /\ state' = NextState(wold)
  /\ published' = Append(published, buffers[WriteIdx(wold)])
  /\ wpc' = "idle"
  /\ UNCHANGED <<buffers, wold, wleft, started, reader>>

-----------------------------------------------------------------------------
(* The consumer.  A load of state may return an old value. *)

\* try_read(), when the state loaded is not the one it read last.
TryReadBegin ==
  /\ rpc = "idle"
  /\ \E s \in rseen..state :
       /\ s # lastRead
       /\ rseen' = s
       /\ rstate' = s
  /\ rpc' = "try_read"
  /\ rleft' = Words
  /\ UNCHANGED <<state, buffers, writer, rcopy, lastRead, output, published>>

\* try_read() that finds nothing new, and has_update().
LookForUpdate ==
  /\ rpc = "idle"
  /\ \E s \in rseen..state : rseen' = s
  /\ UNCHANGED <<state, buffers, writer, rpc, rstate, rleft, rcopy, lastRead, output, published>>

\* read(): a reference into shared memory, through which the words are loaded.
ReadBegin ==
  /\ rpc = "idle"
  /\ Mode = "single" => rseen = 1       \* after is_ready() returned true
  /\ \E s \in rseen..state :
       /\ rseen' = s
       /\ rstate' = s
  /\ rpc' = "read"
  /\ rleft' = Words
  /\ UNCHANGED <<state, buffers, writer, rcopy, lastRead, output, published>>

LoadWord(w) ==
  /\ rpc # "idle"
  /\ w \in rleft
  /\ rcopy' = [rcopy EXCEPT ![w] = buffers[ReadIdx(rstate)][w]]
  /\ rleft' = rleft \ {w}
  /\ UNCHANGED <<state, buffers, writer, rpc, rstate, rseen, lastRead, output, published>>

\* Mutant: the state is loaded again to remember what was read.
TryReadEndReloading ==
  /\ rpc = "try_read"
  /\ rleft = {}
  /\ rpc' = "idle"
  /\ lastRead' = state
  /\ rseen' = state
  /\ output' = rcopy
  /\ UNCHANGED <<state, buffers, writer, rstate, rleft, rcopy, published>>

TryReadEnd ==
  /\ rpc = "try_read"
  /\ rleft = {}
  /\ rpc' = "idle"
  /\ lastRead' = rstate
  /\ output' = rcopy
  /\ UNCHANGED <<state, buffers, writer, rstate, rleft, rcopy, rseen, published>>

ReadEnd ==
  /\ rpc = "read"
  /\ rleft = {}
  /\ rpc' = "idle"
  /\ UNCHANGED <<state, buffers, writer, rstate, rleft, rcopy, rseen, lastRead, output, published>>

ResetUpdateTracking ==
  /\ rpc = "idle"
  /\ lastRead' = 0
  /\ UNCHANGED <<state, buffers, writer, rpc, rstate, rleft, rcopy, rseen, output, published>>

-----------------------------------------------------------------------------
WriterNext ==
  \/ WriteBegin("write", Words)
  \/ \E words \in SUBSET Words : WriteBegin("guard", words)
  \/ \E w \in Words : StoreWord(w)
  \/ Publish

ReaderNext ==
  \/ TryReadBegin
  \/ LookForUpdate
  \/ ReadBegin
  \/ \E w \in Words : LoadWord(w)
  \/ TryReadEnd
  \/ ReadEnd
  \/ ResetUpdateTracking

BufferNext == WriterNext \/ ReaderNext

BufferSpec == BufferInit /\ [][BufferNext]_bufferVars

(***************************************************************************)
(* Fairness: a write and a read that have begun come to their end, and the *)
(* consumer calls try_read() again and again with a load that is not       *)
(* forever old.  The producer need not write.                              *)
(***************************************************************************)
TryReadLatest == TryReadBegin /\ rstate' = state

BufferFairness ==
  /\ WF_bufferVars(Publish \/ \E w \in Words : StoreWord(w))
  /\ WF_bufferVars(TryReadEnd \/ ReadEnd \/ \E w \in Words : LoadWord(w))
  /\ SF_bufferVars(TryReadLatest)

BufferFairSpec == BufferSpec /\ BufferFairness

-----------------------------------------------------------------------------
(* Properties. *)

\* Every variable has its type; one publication at a time.
BufferTypeOK ==
  /\ state \in 0..MaxWrites
  /\ buffers \in [Slots -> Value]
  /\ wpc \in {"idle", "write", "guard"}
  /\ wold \in 0..state
  /\ wleft \in SUBSET Words
  /\ started \in 0..MaxWrites
  /\ rpc \in {"idle", "try_read", "read"}
  /\ rstate \in 0..rseen
  /\ rleft \in SUBSET Words
  /\ rcopy \in Value
  /\ rseen \in 0..state
  /\ lastRead \in 0..rseen
  /\ output \in Value
  /\ published \in Seq(Value)

\* Double mode: the active buffer holds the last published value whole, at
\* every moment of a write into the other one, so that read()'s reference is
\* good until the next publication ("valid until the next write", line 338).
ActiveIsPublished ==
  Mode = "double" => /\ state = Len(published)
                     /\ buffers[ReadIdx(state)] = Published(state)

\* The writer has come around to the buffer of the read in progress.
Lapped ==
  IF Mode = "double"
  THEN state > rstate + 1 \/ (state = rstate + 1 /\ wpc # "idle")
  ELSE started > 1

\* A copy is whole unless the writer lapped it: the words a try_read() or a
\* reference has loaded are those of the publication it found, however the
\* loads interleave with the stores of the next write (lines 249-261, 355-369).
WholeUnlessLapped ==
  rpc # "idle" /\ ~Lapped =>
    \A w \in Words \ rleft : rcopy[w] = Published(rstate)[w]

\* Once the producer is done the consumer gets the last value: no publication
\* is taken for read when an older one was copied (lines 355-369).
ConsumerCatchesUp ==
  [](started = MaxWrites /\ wpc = "idle" => <>(output = Published(state)))

-----------------------------------------------------------------------------
(* The inductive invariant behind WholeUnlessLapped, for the double mode.  *)

\* A write in progress stores into the buffer that is not active, and the
\* active buffer and, until the writer begins again, the one before it hold
\* what was published.
BuffersInv ==
  /\ state = Len(published)
  /\ wpc = "idle" => started = state
  /\ wpc # "idle" => wold = state /\ started = state + 1
  /\ buffers[ReadIdx(state)] = Published(state)
  /\ wpc = "idle" /\ state > 0 => buffers[ReadIdx(state - 1)] = Published(state - 1)

DoubleInv == BufferTypeOK /\ BuffersInv /\ WholeUnlessLapped
=============================================================================
