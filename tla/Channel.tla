------------------------------- MODULE Channel -------------------------------
(***************************************************************************)
(* ipc::Channel (source/ipc.cpp): a single-producer single-consumer ring   *)
(* of fixed-size messages in shared memory.  writeIndex and readIndex only *)
(* grow; a message lives in slot index % Capacity.  The producer fills a   *)
(* slot with plain stores and publishes it by storing writeIndex; the      *)
(* consumer copies a slot with plain loads and frees it by storing         *)
(* readIndex.                                                              *)
(*                                                                         *)
(* The two processes interleave between any two stores that matter: the    *)
(* header of a message and its payload are written and read in different   *)
(* steps.  A load of the other side's index may return an old value, as    *)
(* far back as the last one this side has seen (relaxed loads, coherence). *)
(***************************************************************************)
EXTENDS Integers, Sequences

CONSTANTS
  Capacity,     \* slots of the ring (QueueHeader::capacity)
  InlineSize,   \* Message::INLINE_SIZE
  Ids,          \* message ids; stands for msgId, domain and the other fields
  Bodies,       \* payloads
  Decodable,    \* those that deserialize_value accepts: every serialized value is one
  Sizes,        \* sizes of payload a caller may pass
  BufferSizes,  \* maxSize arguments of tryReceiveRaw
  Nil,          \* the zero of fresh shared memory and the payload of size 0
  MaxPosts      \* bound: messages accepted in one behaviour

ASSUME CapacityAssumption == Capacity \in Nat \ {0}
ASSUME SizeAssumption == InlineSize \in Nat /\ Sizes \subseteq Nat /\ BufferSizes \subseteq Nat
ASSUME DecodableAssumption == Decodable \subseteq Bodies
ASSUME MaxPostsAssumption == MaxPosts \in Nat

VARIABLES
  writeIndex,   \* QueueHeader::writeIndex, stored by the producer only
  readIndex,    \* QueueHeader::readIndex, stored by the consumer only
  slots,        \* the Message array that follows the header
  ppc,          \* where the producer is
  pcall,        \* the post in progress: the message, and by which entry point
  pseen,        \* newest readIndex the producer has loaded
  cpc,          \* where the consumer is
  ccall,        \* the receive in progress: entry point and buffer size
  cseen,        \* newest writeIndex the consumer has loaded
  ccopy,        \* what the consumer has copied out of the slot so far
  count,        \* the last result of pendingCount
  sent,         \* history: the messages published
  delivered,    \* history: the messages taken off the ring
  heard         \* history: what the receives that took them answered

shared   == <<writeIndex, readIndex, slots>>
producer == <<ppc, pcall, pseen>>
consumer == <<cpc, ccall, cseen, ccopy>>
history  == <<sent, delivered, heard>>
vars     == <<writeIndex, readIndex, slots, ppc, pcall, pseen, cpc, ccall,
              cseen, ccopy, count, sent, delivered, heard>>

-----------------------------------------------------------------------------
(* Messages and slots. *)

\* A message that fits: a payload of size 0 has no content.
Message ==
  {m \in [id : Ids, size : Sizes, body : Bodies \cup {Nil}] :
     m.size <= InlineSize /\ (m.size = 0 <=> m.body = Nil)}

Slot == [id : Ids \cup {Nil}, size : Nat, body : Bodies \cup {Nil}]

ZeroSlot == [id |-> Nil, size |-> 0, body |-> Nil]

\* messageAt: where an index lives.
SlotOf(index) == index % Capacity

\* What a reader makes of a slot: the payload counts only if dataSize > 0.
Content(s) == [s EXCEPT !.body = IF s.size > 0 THEN s.body ELSE Nil]

PostKinds == {"value", "raw"}

\* deserialize_value takes it; without a payload it is not called (line 342).
Decodes(m) == m.size > 0 => m.body \in Decodable

\* What a receive of m answers: tryReceive the message, tryReceiveRaw its size and
\* bytes, so that of a message of size 0 the caller hears what an empty queue
\* answers (lines 396, 409-411).
Unheard == ZeroSlot
Answer(kind, m) == [by |-> kind, msg |-> IF kind = "raw" /\ m.size = 0 THEN Unheard ELSE m]

\* The capacity check, on the producer's own index and the loaded one.
FullOneTooMany(write, read) == write - read > Capacity       \* mutant
Full(write, read) == write - read >= Capacity

\* The emptiness check of the consumer.
EmptyNever(read, write) == read > write                      \* mutant
EmptyTooSoon(read, write) == read + 1 >= write               \* mutant
Empty(read, write) == read >= write

\* The stores into a slot: all fields but the payload, then the payload.
\* postRaw sets dataSize with the other fields, post only after serializing.
WithHeader(s, call) ==
  [s EXCEPT !.id = call.msg.id,
            !.size = IF call.kind = "raw" THEN call.msg.size ELSE s.size]

WithBodyOnly(s, m) ==                                         \* mutant: no dataSize
  [s EXCEPT !.body = IF m.size > 0 THEN m.body ELSE s.body]
WithBody(s, m) ==
  [s EXCEPT !.body = IF m.size > 0 THEN m.body ELSE s.body,
            !.size = m.size]

-----------------------------------------------------------------------------
Init ==
  /\ writeIndex = 0
  /\ readIndex = 0
  /\ slots = [i \in 0..(Capacity - 1) |-> ZeroSlot]
  /\ ppc = "idle"
  /\ pcall = [kind |-> "raw", msg |-> ZeroSlot]
  /\ pseen = 0
  /\ cpc = "idle"
  /\ ccall = [kind |-> "value", max |-> 0]
  /\ cseen = 0
  /\ ccopy = ZeroSlot
  /\ count = 0
  /\ sent = <<>>
  /\ delivered = <<>>
  /\ heard = <<>>

-----------------------------------------------------------------------------
(* The producer. post serializes a value into the slot, postRaw copies     *)
(* bytes; a message larger than InlineSize is refused before anything is   *)
(* touched, so it is no step.                                              *)

PostBegin(kind, m) ==
  /\ ppc = "idle"
  /\ Len(sent) < MaxPosts
  /\ kind = "value" => m.size > 0 /\ Decodes(m)     \* a null value takes postRaw
  /\ \E seen \in pseen..readIndex :
       /\ ~Full(writeIndex, seen)
       /\ pseen' = seen
  /\ pcall' = [kind |-> kind, msg |-> m]
  /\ ppc' = "header"
  /\ UNCHANGED <<shared, consumer, count, history>>

\* "Queue full": the call returns false; only what it has seen changes.
PostRefused ==
  /\ ppc = "idle"
  /\ \E seen \in pseen..readIndex :
       /\ Full(writeIndex, seen)
       /\ pseen' = seen
  /\ UNCHANGED <<shared, ppc, pcall, consumer, count, history>>

WriteHeader ==
  /\ ppc = "header"
  /\ slots' = [slots EXCEPT ![SlotOf(writeIndex)] = WithHeader(slots[SlotOf(writeIndex)], pcall)]
  /\ ppc' = "body"
  /\ UNCHANGED <<writeIndex, readIndex, pcall, pseen, consumer, count, history>>

WriteBody ==
  /\ ppc = "body"
  /\ slots' = [slots EXCEPT ![SlotOf(writeIndex)] = WithBody(slots[SlotOf(writeIndex)], pcall.msg)]
  /\ ppc' = "publish"
  /\ UNCHANGED <<writeIndex, readIndex, pcall, pseen, consumer, count, history>>

Publish ==
  /\ ppc = "publish"
  /\ writeIndex' = writeIndex + 1
  /\ sent' = Append(sent, pcall.msg)
  /\ ppc' = "idle"
  /\ UNCHANGED <<readIndex, slots, pcall, pseen, consumer, count, delivered, heard>>

-----------------------------------------------------------------------------
(* The consumer: tryReceive (kind "value") and tryReceiveRaw (kind "raw"). *)

ReceiveBegin(kind, max) ==
  /\ cpc = "idle"
  /\ \E seen \in cseen..writeIndex :
       /\ ~Empty(readIndex, seen)
       /\ cseen' = seen
  /\ ccall' = [kind |-> kind, max |-> max]
  /\ cpc' = "header"
  /\ UNCHANGED <<shared, producer, ccopy, count, history>>

ReceiveNothing ==
  /\ cpc = "idle"
  /\ \E seen \in cseen..writeIndex :
       /\ Empty(readIndex, seen)
       /\ cseen' = seen
  /\ UNCHANGED <<shared, producer, cpc, ccall, ccopy, count, history>>

ReadHeader ==
  /\ cpc = "header"
  /\ ccopy' = [slots[SlotOf(readIndex)] EXCEPT !.body = Nil]
  /\ cpc' = "body"
  /\ UNCHANGED <<shared, producer, ccall, cseen, count, history>>

\* tryReceiveRaw with a buffer that is too small: -1, nothing is consumed.
BufferTooSmall == ccall.kind = "raw" /\ ccopy.size > ccall.max

\* Mutant: the message that did not fit is dropped.
ReceiveTooSmallDropping ==
  /\ cpc = "body"
  /\ BufferTooSmall
  /\ readIndex' = readIndex + 1
  /\ cpc' = "idle"
  /\ UNCHANGED <<writeIndex, slots, producer, ccall, cseen, ccopy, count, history>>

ReceiveTooSmall ==
  /\ cpc = "body"
  /\ BufferTooSmall
  /\ cpc' = "idle"
  /\ UNCHANGED <<shared, producer, ccall, cseen, ccopy, count, history>>

\* tryReceive of bytes that postRaw took and that are no serialized value.
DecodeFails ==
  ccall.kind = "value" /\ ~Decodes([ccopy EXCEPT !.body = slots[SlotOf(readIndex)].body])

\* deserialize_value throws (line 343) and the call is left before it stores
\* readIndex: the message stays at the head.
ReceiveThrows ==
  /\ cpc = "body"
  /\ DecodeFails
  /\ cpc' = "idle"
  /\ UNCHANGED <<shared, producer, ccall, cseen, ccopy, count, history>>

ReadBody ==
  /\ cpc = "body"
  /\ ~BufferTooSmall
  /\ ~DecodeFails
  /\ ccopy' = Content([ccopy EXCEPT !.body = slots[SlotOf(readIndex)].body])
  /\ cpc' = "consume"
  /\ UNCHANGED <<shared, producer, ccall, cseen, count, history>>

Consume ==
  /\ cpc = "consume"
  /\ readIndex' = readIndex + 1
  /\ delivered' = Append(delivered, ccopy)
  /\ heard' = Append(heard, Answer(ccall.kind, ccopy))
  /\ cpc' = "idle"
  /\ UNCHANGED <<writeIndex, slots, producer, ccall, cseen, ccopy, count, sent>>

-----------------------------------------------------------------------------
(* pendingCount, called by either process between its own calls: its own   *)
(* index is exact, the other one may be old.                               *)

PendingCountByProducer ==
  /\ ppc = "idle"
  /\ \E seen \in pseen..readIndex :
       /\ pseen' = seen
       /\ count' = writeIndex - seen
  /\ UNCHANGED <<shared, ppc, pcall, consumer, history>>

PendingCountByConsumer ==
  /\ cpc = "idle"
  /\ \E seen \in cseen..writeIndex :
       /\ cseen' = seen
       /\ count' = seen - readIndex
  /\ UNCHANGED <<shared, producer, cpc, ccall, ccopy, history>>

-----------------------------------------------------------------------------
ProducerNext ==
  \/ \E kind \in PostKinds, m \in Message : PostBegin(kind, m)
  \/ PostRefused
  \/ WriteHeader
  \/ WriteBody
  \/ Publish
  \/ PendingCountByProducer

ConsumerNext ==
  \/ ReceiveBegin("value", 0)
  \/ \E max \in BufferSizes : ReceiveBegin("raw", max)
  \/ ReceiveNothing
  \/ ReadHeader
  \/ ReceiveTooSmall
  \/ ReceiveThrows
  \/ ReadBody
  \/ Consume
  \/ PendingCountByConsumer

Next == ProducerNext \/ ConsumerNext

Spec == Init /\ [][Next]_vars

(***************************************************************************)
(* Fairness, for the liveness property only.  A call that has begun runs   *)
(* to its end, or throws; the consumer calls tryReceive again and again (a *)
(* loop around tryReceiveRaw with a small buffer would be stuck on a large *)
(* message); and a load returns, sooner or later, the value last stored.   *)
(***************************************************************************)
ReceiveLatest == ReceiveBegin("value", 0) /\ cseen' = writeIndex

Fairness ==
  /\ WF_vars(WriteHeader \/ WriteBody \/ Publish)
  /\ WF_vars(ReadHeader \/ ReceiveTooSmall \/ ReceiveThrows \/ ReadBody \/ Consume)
  /\ SF_vars(ReceiveLatest)

FairSpec == Spec /\ Fairness

-----------------------------------------------------------------------------
(* Properties. *)

\* Every variable has its type, and the ring holds between 0 and Capacity
\* messages: the full and empty checks never let an index overtake.
TypeOK ==
  /\ writeIndex \in Nat
  /\ readIndex \in Nat
  /\ readIndex <= writeIndex
  /\ writeIndex <= readIndex + Capacity
  /\ slots \in [0..(Capacity - 1) -> Slot]
  /\ ppc \in {"idle", "header", "body", "publish"}
  /\ pcall \in [kind : PostKinds, msg : Slot]
  /\ pseen \in 0..readIndex
  /\ cpc \in {"idle", "header", "body", "consume"}
  /\ ccall \in [kind : PostKinds, max : Nat]
  /\ cseen \in readIndex..writeIndex
  /\ ccopy \in Slot
  /\ count \in Int
  /\ sent \in Seq(Message)
  /\ delivered \in Seq(Slot)
  /\ heard \in Seq([by : PostKinds, msg : Slot])

\* The waiting messages, read off the ring the way the consumer would.
Pending == [i \in 1..(writeIndex - readIndex) |-> Content(slots[SlotOf(readIndex + i - 1)])]

\* What the callers heard of the messages they took off the ring.
Told ==
  /\ Len(heard) = Len(delivered)
  /\ \A i \in 1..Len(heard) :
       \/ heard[i].msg = sent[i]
       \/ heard[i] = [by |-> "raw", msg |-> Unheard] /\ sent[i].size = 0

\* Of the messages posted, those taken off the ring come first and those that wait
\* in it follow, in order, none lost, duplicated or torn between post's stores and
\* the loads of the receives; and every caller hears of the message it took off the
\* ring, as it was posted, with one exception: tryReceiveRaw on a message of size 0
\* answers as if there was none (ipc.cpp post/postRaw/tryReceive/tryReceiveRaw).
LosslessFifo ==
  /\ delivered \o Pending = sent
  /\ Told

\* The producer is never storing into the slot the consumer is loading from,
\* although both find it with plain accesses (ipc.cpp 272-285 and 331-346).
NoSlotRace ==
  ~ /\ ppc \in {"header", "body"}
    /\ cpc \in {"header", "body"}
    /\ SlotOf(writeIndex) = SlotOf(readIndex)

\* A published message is frozen until the consumer has freed its slot, even
\* when the producer goes around the ring with an old view of readIndex.
PublishedIsFrozen ==
  [][\A i \in readIndex'..(writeIndex - 1) : slots'[SlotOf(i)] = slots[SlotOf(i)]]_vars

\* pendingCount, computed from one fresh and one old index by either process,
\* never underflows and never exceeds the capacity (ipc.cpp 303-310).
CountInRange == count \in 0..Capacity

\* A consumer that polls with tryReceive comes to every published message before
\* which, itself included, all are serialized values or empty: at the first one that
\* deserialize_value throws on it may be stuck for ever (ipc.cpp 326, 343).
EveryMessageArrives ==
  \A n \in 1..MaxPosts :
    (Len(sent) >= n /\ \A i \in 1..n : Decodes(sent[i])) ~> (Len(heard) >= n)

-----------------------------------------------------------------------------
(***************************************************************************)
(* The inductive invariant behind the safety properties.                   *)
(***************************************************************************)

\* What each side has seen still bounds what it may do next.
ViewsInv ==
  /\ writeIndex <= pseen + Capacity
  /\ ppc # "idle" => writeIndex < pseen + Capacity
  /\ cpc # "idle" => readIndex < cseen

\* The slot being filled agrees with the call, as far as it has come.
ProducerInv ==
  /\ ppc # "idle" => pcall.msg \in Message
  /\ ppc # "idle" /\ pcall.kind = "value" => pcall.msg.size > 0
  /\ ppc = "body" => slots[SlotOf(writeIndex)].id = pcall.msg.id
  /\ ppc = "publish" => Content(slots[SlotOf(writeIndex)]) = pcall.msg

\* The consumer's copy agrees with the slot, as far as it has come.
ConsumerInv ==
  /\ cpc = "body" => ccopy = [slots[SlotOf(readIndex)] EXCEPT !.body = Nil]
  /\ cpc = "consume" => ccopy = sent[readIndex + 1]

\* The histories match the indices, and the ring holds what is in between.
HistoryInv ==
  /\ Len(sent) = writeIndex
  /\ Len(delivered) = readIndex
  /\ \A i \in readIndex..(writeIndex - 1) : Content(slots[SlotOf(i)]) = sent[i + 1]
  /\ \A i \in 1..readIndex : delivered[i] = sent[i]
  /\ Told

\* The conjunction is inductive: each step of post and tryReceive keeps it.
IndInv == TypeOK /\ ViewsInv /\ ProducerInv /\ ConsumerInv /\ HistoryInv /\ CountInRange

-----------------------------------------------------------------------------
(* The ring implements the bounded queue: publishing is Enqueue, consuming *)
(* is Dequeue, every other step is invisible.                              *)
Fifo == INSTANCE FifoQueue WITH pending <- Pending
ImplementsFifo == Fifo!Spec
==============================================================================
