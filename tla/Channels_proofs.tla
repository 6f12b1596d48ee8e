-------------------------- MODULE Channels_proofs ---------------------------
(***************************************************************************)
(* The safety of one ring, for every capacity, message set and number of   *)
(* posts: IndInv of Channel is inductive and the properties follow from    *)
(* it.  Then that of a pair of them, for any number of processes and of    *)
(* departures: whoever has a pair has both halves of one, and messages are *)
(* received once and in order.                                             *)
(***************************************************************************)
EXTENDS Channel, ChannelPair, Integers, SequenceTheorems, TLAPS

-----------------------------------------------------------------------------
(* The arithmetic of the ring. *)

\* A slot number is a slot of the array (QueueHeader::messageAt).
LEMMA SlotInRange ==
  ASSUME NEW i \in Nat
  PROVE  SlotOf(i) \in 0..(Capacity - 1)
BY CapacityAssumption DEF SlotOf

\* Two indices less than Capacity apart share a slot only if they are equal.
LEMMA SlotsDiffer ==
  ASSUME NEW a \in Nat, NEW b \in Nat, a <= b, b - a < Capacity, SlotOf(a) = SlotOf(b)
  PROVE  a = b
<1> DEFINE qa == a \div Capacity
           qb == b \div Capacity
           k == qb - qa
<1>1. qa \in Int /\ qb \in Int /\ a % Capacity \in Int
  BY CapacityAssumption
<1>2. a = Capacity * qa + (a % Capacity) /\ b = Capacity * qb + (b % Capacity)
  BY CapacityAssumption
<1> HIDE DEF qa, qb
<1>3. k \in Int /\ b - a = Capacity * k
  BY <1>1, <1>2, CapacityAssumption DEF SlotOf
<1> HIDE DEF k
<1>4. k < 1 /\ k > -1
  BY <1>3, CapacityAssumption
<1> QED
  BY <1>3, <1>4, CapacityAssumption

\* The slot past the newest message holds none of the waiting messages.
LEMMA FreeSlot ==
  ASSUME TypeOK, writeIndex < readIndex + Capacity,
         NEW i \in readIndex..(writeIndex - 1)
  PROVE  SlotOf(i) # SlotOf(writeIndex)
BY SlotsDiffer, CapacityAssumption DEF TypeOK

\* A message that may be posted is a legal content of a slot.
LEMMA MessageIsSlot == Message \subseteq Slot
BY SizeAssumption DEF Message, Slot

-----------------------------------------------------------------------------
LEMMA InitInv == Init => IndInv
<1> SUFFICES ASSUME Init PROVE IndInv
  OBVIOUS
<1> USE DEF Init
<1>1. TypeOK
  BY CapacityAssumption DEF TypeOK, Slot, ZeroSlot, PostKinds
<1>2. ViewsInv
  BY CapacityAssumption DEF ViewsInv
<1>3. ProducerInv /\ ConsumerInv
  BY DEF ProducerInv, ConsumerInv
<1>4. HistoryInv
  BY DEF HistoryInv, Told
<1>5. CountInRange
  BY CapacityAssumption DEF CountInRange
<1> QED
  BY <1>1, <1>2, <1>3, <1>4, <1>5 DEF IndInv

-----------------------------------------------------------------------------
(* The producer's steps. *)

LEMMA PostBeginInv ==
  ASSUME IndInv, NEW kind \in PostKinds, NEW m \in Message, PostBegin(kind, m)
  PROVE  IndInv'
<1> USE DEF PostBegin, shared, consumer, history
<1>1. TypeOK'
  <2>1. m \in Slot
    BY MessageIsSlot
  <2>2. pcall' \in [kind : PostKinds, msg : Slot]
    BY <2>1
  <2>3. pseen' \in 0..readIndex
    BY DEF IndInv, TypeOK
  <2> QED
    BY <2>2, <2>3 DEF IndInv, TypeOK
<1>2. ViewsInv'
  BY CapacityAssumption DEF IndInv, TypeOK, ViewsInv, Full
<1>3. ProducerInv'
  BY DEF IndInv, ProducerInv
<1>4. ConsumerInv' /\ HistoryInv' /\ CountInRange'
  BY DEF IndInv, ConsumerInv, HistoryInv, Told, CountInRange
<1> QED
  BY <1>1, <1>2, <1>3, <1>4 DEF IndInv

LEMMA PostRefusedInv == IndInv /\ PostRefused => IndInv'
<1> SUFFICES ASSUME IndInv, PostRefused PROVE IndInv'
  OBVIOUS
<1> USE DEF PostRefused, shared, consumer, history
<1>1. TypeOK'
  BY DEF IndInv, TypeOK
<1>2. ViewsInv'
  BY CapacityAssumption DEF IndInv, TypeOK, ViewsInv
<1>3. ProducerInv' /\ ConsumerInv' /\ HistoryInv' /\ CountInRange'
  BY DEF IndInv, ProducerInv, ConsumerInv, HistoryInv, Told, CountInRange
<1> QED
  BY <1>1, <1>2, <1>3 DEF IndInv

\* A store into the slot at writeIndex leaves every waiting message alone.
LEMMA StoreKeepsPending ==
  ASSUME IndInv, ppc # "idle", NEW s,
         slots' = [slots EXCEPT ![SlotOf(writeIndex)] = s],
         UNCHANGED <<writeIndex, readIndex, sent, delivered, heard, cpc, ccopy>>
  PROVE  ConsumerInv' /\ HistoryInv'
<1>1. writeIndex < readIndex + Capacity
  BY CapacityAssumption DEF IndInv, TypeOK, ViewsInv
<1>2. \A i \in readIndex..(writeIndex - 1) : slots'[SlotOf(i)] = slots[SlotOf(i)]
  <2>1. TAKE i \in readIndex..(writeIndex - 1)
  <2>2. SlotOf(i) # SlotOf(writeIndex)
    BY <1>1, FreeSlot DEF IndInv
  <2>. i \in Nat
    BY DEF IndInv, TypeOK
  <2>3. SlotOf(i) \in 0..(Capacity - 1)
    BY SlotInRange
  <2> QED
    BY <2>2, <2>3 DEF IndInv, TypeOK
<1>3. ConsumerInv'
  <2>1. cpc # "idle" => readIndex \in readIndex..(writeIndex - 1)
    BY DEF IndInv, TypeOK, ViewsInv
  <2> QED
    BY <1>2, <2>1 DEF IndInv, ConsumerInv, SlotOf
<1>4. HistoryInv'
  BY <1>2 DEF IndInv, HistoryInv, Told, SlotOf
<1> QED
  BY <1>3, <1>4

LEMMA WriteHeaderInv == IndInv /\ WriteHeader => IndInv'
<1> SUFFICES ASSUME IndInv, WriteHeader PROVE IndInv'
  OBVIOUS
<1> USE DEF WriteHeader, shared, consumer, history
<1>1. SlotOf(writeIndex) \in 0..(Capacity - 1)
  BY SlotInRange DEF IndInv, TypeOK
<1> DEFINE s == slots[SlotOf(writeIndex)]
<1>2. TypeOK'
  <2>1. s \in Slot /\ pcall \in [kind : PostKinds, msg : Slot]
    BY <1>1 DEF IndInv, TypeOK
  <2>2. WithHeader(s, pcall) \in Slot
    BY <2>1 DEF Slot, WithHeader
  <2> QED
    BY <1>1, <2>2 DEF IndInv, TypeOK
<1>3. ViewsInv' /\ CountInRange'
  BY DEF IndInv, ViewsInv, CountInRange
<1>4. ProducerInv'
  BY <1>1 DEF IndInv, TypeOK, ProducerInv, SlotOf, Slot, WithHeader
<1>5. ConsumerInv' /\ HistoryInv'
  BY StoreKeepsPending
<1> QED
  BY <1>2, <1>3, <1>4, <1>5 DEF IndInv

LEMMA WriteBodyInv == IndInv /\ WriteBody => IndInv'
<1> SUFFICES ASSUME IndInv, WriteBody PROVE IndInv'
  OBVIOUS
<1> USE DEF WriteBody, shared, consumer, history
<1>1. SlotOf(writeIndex) \in 0..(Capacity - 1)
  BY SlotInRange DEF IndInv, TypeOK
<1> DEFINE s == slots[SlotOf(writeIndex)]
<1>a. s \in Slot /\ pcall.msg \in Slot
  BY <1>1 DEF IndInv, TypeOK
<1>2. TypeOK'
  <2>1. WithBody(s, pcall.msg) \in Slot
    BY <1>a DEF Slot, WithBody
  <2> QED
    BY <1>1, <2>1 DEF IndInv, TypeOK
<1>3. ViewsInv' /\ CountInRange'
  BY DEF IndInv, ViewsInv, CountInRange
<1>4. ProducerInv'
  <2>1. pcall.msg \in Message /\ slots[SlotOf(writeIndex)].id = pcall.msg.id
    BY DEF IndInv, ProducerInv
  <2>2. Content(slots'[SlotOf(writeIndex)]) = pcall.msg
    <3>1. slots'[SlotOf(writeIndex)] = WithBody(s, pcall.msg)
      BY <1>1 DEF IndInv, TypeOK
    <3>2. pcall.msg.size \in Nat /\ (pcall.msg.size = 0 <=> pcall.msg.body = Nil)
      BY <2>1, SizeAssumption DEF Message
    <3>3. Content(WithBody(s, pcall.msg)) = pcall.msg
      <4>1. CASE pcall.msg.size = 0
        BY <1>a, <2>1, <3>2, <4>1 DEF Slot, Content, WithBody
      <4>2. CASE pcall.msg.size > 0
        BY <1>a, <2>1, <3>2, <4>2 DEF Slot, Content, WithBody
      <4> QED
        BY <3>2, <4>1, <4>2
    <3> QED
      BY <3>1, <3>3
  <2> QED
    BY <2>1, <2>2 DEF IndInv, ProducerInv, SlotOf, Content
<1>5. ConsumerInv' /\ HistoryInv'
  BY StoreKeepsPending
<1> QED
  BY <1>2, <1>3, <1>4, <1>5 DEF IndInv

LEMMA PublishInv == IndInv /\ Publish => IndInv'
<1> SUFFICES ASSUME IndInv, Publish PROVE IndInv'
  OBVIOUS
<1> USE DEF Publish, shared, consumer, history
<1>1. pcall.msg \in Message /\ Content(slots[SlotOf(writeIndex)]) = pcall.msg
  BY DEF IndInv, ProducerInv
<1>2. TypeOK'
  <2>1. sent' \in Seq(Message)
    BY <1>1 DEF IndInv, TypeOK
  <2>2. writeIndex' \in Nat /\ readIndex <= writeIndex' /\ writeIndex' <= readIndex + Capacity
    BY CapacityAssumption DEF IndInv, TypeOK, ViewsInv
  <2>3. cseen \in readIndex..writeIndex'
    BY DEF IndInv, TypeOK
  <2> QED
    BY <2>1, <2>2, <2>3 DEF IndInv, TypeOK
<1>3. ViewsInv'
  BY CapacityAssumption DEF IndInv, TypeOK, ViewsInv
<1>4. ProducerInv' /\ CountInRange'
  BY DEF IndInv, ProducerInv, CountInRange
<1>5. HistoryInv'
  <2>1. Len(sent') = writeIndex' /\ Len(delivered') = readIndex'
    BY DEF IndInv, TypeOK, HistoryInv
  <2>2. \A j \in 1..writeIndex : sent'[j] = sent[j]
    BY <1>1 DEF IndInv, TypeOK, HistoryInv
  <2>3. sent'[writeIndex + 1] = pcall.msg
    BY <1>1 DEF IndInv, TypeOK, HistoryInv
  <2>4. ASSUME NEW i \in readIndex'..(writeIndex' - 1)
        PROVE  Content(slots[SlotOf(i)]) = sent'[i + 1]
    <3>1. CASE i = writeIndex
      BY <1>1, <2>3, <3>1
    <3>2. CASE i # writeIndex
      <4>1. i \in readIndex..(writeIndex - 1) /\ i + 1 \in 1..writeIndex
        BY <3>2 DEF IndInv, TypeOK
      <4>2. Content(slots[SlotOf(i)]) = sent[i + 1]
        BY <4>1 DEF IndInv, HistoryInv
      <4> QED
        BY <2>2, <4>1, <4>2
    <3> QED
      BY <3>1, <3>2
  <2>5. \A i \in 1..readIndex : delivered[i] = sent'[i]
    BY <2>2 DEF IndInv, TypeOK, HistoryInv
  <2>6. Told'
    <3>1. Told /\ Len(delivered) = readIndex /\ readIndex \in Nat /\ readIndex <= writeIndex
          /\ heard' = heard /\ delivered' = delivered
      BY DEF IndInv, TypeOK, HistoryInv
    <3>a. Len(heard) = readIndex
      BY <3>1, Zenon DEF Told
    <3>b. writeIndex \in Nat
      BY DEF IndInv, TypeOK
    <3>2. ASSUME NEW i \in 1..Len(heard) PROVE sent'[i] = sent[i]
      <4>1. i \in 1..writeIndex
        BY <3>1, <3>a, <3>b
      <4> QED
        BY <2>2, <4>1, Zenon
    <3> HIDE DEF Publish
    <3> QED
      BY <3>1, <3>2, Zenon DEF Told, Unheard
  <2> QED
    BY <2>1, <2>4, <2>5, <2>6 DEF HistoryInv, SlotOf, Content
<1>6. ConsumerInv'
  BY DEF IndInv, TypeOK, ViewsInv, HistoryInv, ConsumerInv, SlotOf
<1> QED
  BY <1>2, <1>3, <1>4, <1>5, <1>6 DEF IndInv

LEMMA PendingCountByProducerInv == IndInv /\ PendingCountByProducer => IndInv'
<1> SUFFICES ASSUME IndInv, PendingCountByProducer PROVE IndInv'
  OBVIOUS
<1> USE DEF PendingCountByProducer, shared, consumer, history
<1>1. TypeOK'
  BY DEF IndInv, TypeOK
<1>2. ViewsInv'
  BY CapacityAssumption DEF IndInv, TypeOK, ViewsInv
<1>3. CountInRange'
  BY CapacityAssumption DEF IndInv, TypeOK, ViewsInv, CountInRange
<1>4. ProducerInv' /\ ConsumerInv' /\ HistoryInv'
  BY DEF IndInv, ProducerInv, ConsumerInv, HistoryInv, Told
<1> QED
  BY <1>1, <1>2, <1>3, <1>4 DEF IndInv

-----------------------------------------------------------------------------
(* The consumer's steps. *)

LEMMA ReceiveBeginInv ==
  ASSUME IndInv, NEW kind \in PostKinds, NEW max \in Nat, ReceiveBegin(kind, max)
  PROVE  IndInv'
<1> USE DEF ReceiveBegin, shared, producer, history
<1>1. TypeOK'
  BY DEF IndInv, TypeOK
<1>2. ViewsInv'
  BY DEF IndInv, TypeOK, ViewsInv, Empty
<1>3. ProducerInv' /\ ConsumerInv' /\ HistoryInv' /\ CountInRange'
  BY DEF IndInv, ProducerInv, ConsumerInv, HistoryInv, Told, CountInRange
<1> QED
  BY <1>1, <1>2, <1>3 DEF IndInv

LEMMA ReceiveNothingInv == IndInv /\ ReceiveNothing => IndInv'
<1> SUFFICES ASSUME IndInv, ReceiveNothing PROVE IndInv'
  OBVIOUS
<1> USE DEF ReceiveNothing, shared, producer, history
<1>1. TypeOK'
  BY DEF IndInv, TypeOK
<1>2. ViewsInv'
  BY DEF IndInv, TypeOK, ViewsInv
<1>3. ProducerInv' /\ ConsumerInv' /\ HistoryInv' /\ CountInRange'
  BY DEF IndInv, ProducerInv, ConsumerInv, HistoryInv, Told, CountInRange
<1> QED
  BY <1>1, <1>2, <1>3 DEF IndInv

LEMMA ReadHeaderInv == IndInv /\ ReadHeader => IndInv'
<1> SUFFICES ASSUME IndInv, ReadHeader PROVE IndInv'
  OBVIOUS
<1> USE DEF ReadHeader, shared, producer, history
<1>1. slots[SlotOf(readIndex)] \in Slot
  BY SlotInRange DEF IndInv, TypeOK
<1>2. TypeOK'
  BY <1>1 DEF IndInv, TypeOK, Slot
<1>3. ConsumerInv'
  BY DEF ConsumerInv, SlotOf
<1>4. ViewsInv' /\ ProducerInv' /\ HistoryInv' /\ CountInRange'
  BY DEF IndInv, ViewsInv, ProducerInv, HistoryInv, Told, CountInRange
<1> QED
  BY <1>2, <1>3, <1>4 DEF IndInv

LEMMA ReceiveTooSmallInv == IndInv /\ ReceiveTooSmall => IndInv'
<1> SUFFICES ASSUME IndInv, ReceiveTooSmall PROVE IndInv'
  OBVIOUS
<1> USE DEF ReceiveTooSmall, shared, producer, history
<1>1. TypeOK' /\ ViewsInv' /\ ConsumerInv'
  BY DEF IndInv, TypeOK, ViewsInv, ConsumerInv
<1>2. ProducerInv' /\ HistoryInv' /\ CountInRange'
  BY DEF IndInv, ProducerInv, HistoryInv, Told, CountInRange
<1> QED
  BY <1>1, <1>2 DEF IndInv

LEMMA ReceiveThrowsInv == IndInv /\ ReceiveThrows => IndInv'
<1> SUFFICES ASSUME IndInv, ReceiveThrows PROVE IndInv'
  OBVIOUS
<1> USE DEF ReceiveThrows, shared, producer, history
<1>1. TypeOK' /\ ViewsInv' /\ ConsumerInv'
  BY DEF IndInv, TypeOK, ViewsInv, ConsumerInv
<1>2. ProducerInv' /\ HistoryInv' /\ CountInRange'
  BY DEF IndInv, ProducerInv, HistoryInv, Told, CountInRange
<1> QED
  BY <1>1, <1>2 DEF IndInv

LEMMA ReadBodyInv == IndInv /\ ReadBody => IndInv'
<1> SUFFICES ASSUME IndInv, ReadBody PROVE IndInv'
  OBVIOUS
<1> USE DEF ReadBody, shared, producer, history
<1>1. slots[SlotOf(readIndex)] \in Slot
  BY SlotInRange DEF IndInv, TypeOK
<1>2. TypeOK'
  BY <1>1 DEF IndInv, TypeOK, Slot, Content
<1>3. ConsumerInv'
  <2>1. readIndex \in readIndex..(writeIndex - 1)
    BY DEF IndInv, TypeOK, ViewsInv
  <2>2. Content(slots[SlotOf(readIndex)]) = sent[readIndex + 1]
    BY <2>1 DEF IndInv, HistoryInv, Told
  <2>3. ccopy = [slots[SlotOf(readIndex)] EXCEPT !.body = Nil]
    BY DEF IndInv, ConsumerInv
  <2>4. ccopy' = Content(slots[SlotOf(readIndex)])
    BY <1>1, <2>3 DEF Slot, Content
  <2> QED
    BY <2>2, <2>4 DEF ConsumerInv
<1>4. ViewsInv' /\ ProducerInv' /\ HistoryInv' /\ CountInRange'
  BY DEF IndInv, ViewsInv, ProducerInv, HistoryInv, Told, CountInRange
<1> QED
  BY <1>2, <1>3, <1>4 DEF IndInv

LEMMA ConsumeInv == IndInv /\ Consume => IndInv'
<1> SUFFICES ASSUME IndInv, Consume PROVE IndInv'
  OBVIOUS
<1> USE DEF Consume, shared, producer, history
<1> DEFINE answer == Answer(ccall.kind, ccopy)
<1>1. TypeOK'
  <2>1. answer \in [by : PostKinds, msg : Slot]
    BY DEF IndInv, TypeOK, Answer, Unheard, ZeroSlot, Slot
  <2>2. heard' \in Seq([by : PostKinds, msg : Slot])
    BY <2>1 DEF IndInv, TypeOK
  <2> QED
    BY <2>2, CapacityAssumption DEF IndInv, TypeOK, ViewsInv
<1>2. ViewsInv' /\ ProducerInv' /\ ConsumerInv' /\ CountInRange'
  BY DEF IndInv, ViewsInv, ProducerInv, ConsumerInv, CountInRange
<1>3. Told'
  <2>1. ccopy = sent[readIndex + 1] /\ ccall.kind \in PostKinds
    BY DEF IndInv, TypeOK, ConsumerInv
  <2>2. \/ answer.msg = sent[readIndex + 1]
        \/ answer = [by |-> "raw", msg |-> Unheard] /\ sent[readIndex + 1].size = 0
    BY <2>1 DEF Answer, PostKinds
  <2>3. /\ heard' = Append(heard, answer) /\ delivered' = Append(delivered, ccopy) /\ sent' = sent
        /\ heard \in Seq([by : PostKinds, msg : Slot]) /\ Len(heard) = readIndex
        /\ delivered \in Seq(Slot) /\ Len(delivered) = readIndex /\ readIndex \in Nat
    BY DEF IndInv, TypeOK, HistoryInv, Told
  <2> HIDE DEF answer
  <2>4. Len(heard') = readIndex + 1 /\ Len(delivered') = readIndex + 1
    BY <2>3
  <2>5. heard'[readIndex + 1] = answer /\ \A i \in 1..readIndex : heard'[i] = heard[i]
    BY <2>3
  <2>6. ASSUME NEW i \in 1..readIndex
        PROVE  \/ heard[i].msg = sent[i]
               \/ heard[i] = [by |-> "raw", msg |-> Unheard] /\ sent[i].size = 0
    <3>1. Told
      BY DEF IndInv, HistoryInv
    <3>2. i \in 1..Len(heard)
      BY <2>3
    <3> QED
      BY <3>1, <3>2, Zenon DEF Told
  <2>7. ASSUME NEW i \in 1..(readIndex + 1)
        PROVE  \/ heard'[i].msg = sent[i]
               \/ heard'[i] = [by |-> "raw", msg |-> Unheard] /\ sent[i].size = 0
    <3>1. i = readIndex + 1 \/ i \in 1..readIndex
      BY <2>3
    <3> QED
      BY <2>2, <2>5, <2>6, <3>1
  <2>8. Len(heard') = Len(delivered') /\ 1..Len(heard') = 1..(readIndex + 1)
    BY <2>4
  <2>9. sent' = sent
    BY <2>3
  <2> QED
    BY <2>7, <2>8, <2>9 DEF Told, Unheard
<1>4. HistoryInv'
  BY <1>3 DEF IndInv, TypeOK, ConsumerInv, HistoryInv, SlotOf
<1> QED
  BY <1>1, <1>2, <1>4 DEF IndInv

LEMMA PendingCountByConsumerInv == IndInv /\ PendingCountByConsumer => IndInv'
<1> SUFFICES ASSUME IndInv, PendingCountByConsumer PROVE IndInv'
  OBVIOUS
<1> USE DEF PendingCountByConsumer, shared, producer, history
<1>1. TypeOK'
  BY DEF IndInv, TypeOK
<1>2. ViewsInv'
  BY DEF IndInv, TypeOK, ViewsInv
<1>3. CountInRange'
  BY CapacityAssumption DEF IndInv, TypeOK, CountInRange
<1>4. ProducerInv' /\ ConsumerInv' /\ HistoryInv'
  BY DEF IndInv, ProducerInv, ConsumerInv, HistoryInv, Told
<1> QED
  BY <1>1, <1>2, <1>3, <1>4 DEF IndInv

-----------------------------------------------------------------------------
LEMMA StutterInv == IndInv /\ UNCHANGED vars => IndInv'
<1> SUFFICES ASSUME IndInv, UNCHANGED vars PROVE IndInv'
  OBVIOUS
<1> USE DEF vars
<1>1. TypeOK' /\ ViewsInv' /\ ProducerInv'
  BY DEF IndInv, TypeOK, ViewsInv, ProducerInv
<1>2. ConsumerInv' /\ HistoryInv' /\ CountInRange'
  BY DEF IndInv, ConsumerInv, HistoryInv, Told, CountInRange
<1> QED
  BY <1>1, <1>2 DEF IndInv

LEMMA NextInv == IndInv /\ [Next]_vars => IndInv'
<1> SUFFICES ASSUME IndInv, [Next]_vars PROVE IndInv'
  OBVIOUS
<1>1. ASSUME NEW kind \in PostKinds, NEW m \in Message, PostBegin(kind, m) PROVE IndInv'
  BY <1>1, PostBeginInv
<1>2. CASE PostRefused BY <1>2, PostRefusedInv
<1>3. CASE WriteHeader BY <1>3, WriteHeaderInv
<1>4. CASE WriteBody BY <1>4, WriteBodyInv
<1>5. CASE Publish BY <1>5, PublishInv
<1>6. CASE PendingCountByProducer BY <1>6, PendingCountByProducerInv
<1>7. CASE ReceiveBegin("value", 0)
  BY <1>7, ReceiveBeginInv DEF PostKinds
<1>8. ASSUME NEW max \in BufferSizes, ReceiveBegin("raw", max) PROVE IndInv'
  BY <1>8, ReceiveBeginInv, SizeAssumption DEF PostKinds
<1>9. CASE ReceiveNothing BY <1>9, ReceiveNothingInv
<1>10. CASE ReadHeader BY <1>10, ReadHeaderInv
<1>11. CASE ReceiveTooSmall BY <1>11, ReceiveTooSmallInv
<1>12. CASE ReadBody BY <1>12, ReadBodyInv
<1>16. CASE ReceiveThrows BY <1>16, ReceiveThrowsInv
<1>13. CASE Consume BY <1>13, ConsumeInv
<1>14. CASE PendingCountByConsumer BY <1>14, PendingCountByConsumerInv
<1>15. CASE UNCHANGED vars BY <1>15, StutterInv
<1> QED
  BY <1>1, <1>2, <1>3, <1>4, <1>5, <1>6, <1>7, <1>8, <1>9, <1>10, <1>11, <1>12,
     <1>13, <1>14, <1>15, <1>16 DEF Next, ProducerNext, ConsumerNext

\* The inductive invariant holds in every state of every behaviour.
THEOREM Invariance == Spec => []IndInv
BY InitInv, NextInv, PTL DEF Spec

\* Type correctness of the ring (ipc.cpp QueueHeader, post, tryReceive): the
\* indices never drift more than Capacity apart, whatever the capacity.
THEOREM TypeCorrect == Spec => []TypeOK
<1>1. IndInv => TypeOK
  BY DEF IndInv
<1> QED
  BY <1>1, Invariance, PTL

-----------------------------------------------------------------------------
(* The properties that follow from the invariant. *)

\* What a post stores and what a receive loads never share a slot: the plain
\* accesses of ipc.cpp 272-285 and 331-346 do not race.
THEOREM NoRace == Spec => []NoSlotRace
<1>1. IndInv => NoSlotRace
  <2> SUFFICES ASSUME IndInv, ppc \in {"header", "body"}, cpc \in {"header", "body"},
                      SlotOf(writeIndex) = SlotOf(readIndex)
               PROVE  FALSE
    BY DEF NoSlotRace
  <2>1. readIndex < writeIndex /\ writeIndex < readIndex + Capacity
    BY CapacityAssumption DEF IndInv, TypeOK, ViewsInv
  <2>2. readIndex \in Nat /\ writeIndex \in Nat /\ writeIndex - readIndex < Capacity
    BY <2>1, CapacityAssumption DEF IndInv, TypeOK
  <2> QED
    BY <2>1, <2>2, SlotsDiffer
<1> QED
  BY <1>1, Invariance, PTL

\* pendingCount stays between 0 and the capacity for either process.
THEOREM CountsInRange == Spec => []CountInRange
<1>1. IndInv => CountInRange
  BY DEF IndInv
<1> QED
  BY <1>1, Invariance, PTL

\* What waits in the ring is what was posted and not yet received.
Waits ==
  /\ writeIndex \in Nat /\ readIndex \in Nat /\ readIndex <= writeIndex
  /\ Pending = [k \in 1..(writeIndex - readIndex) |-> sent[readIndex + k]]
  /\ Pending \in Seq(Message) /\ Len(Pending) = writeIndex - readIndex

LEMMA Waiting == IndInv => Waits
<1> SUFFICES ASSUME IndInv PROVE Waits
  OBVIOUS
<1>1. /\ writeIndex \in Nat /\ readIndex \in Nat /\ readIndex <= writeIndex
      /\ sent \in Seq(Message) /\ Len(sent) = writeIndex
  BY DEF IndInv, TypeOK, HistoryInv, Told
<1>2. ASSUME NEW k \in 1..(writeIndex - readIndex)
      PROVE  Content(slots[SlotOf(readIndex + k - 1)]) = sent[readIndex + k]
  <2>1. readIndex + k - 1 \in readIndex..(writeIndex - 1)
    BY <1>1
  <2>2. Content(slots[SlotOf(readIndex + k - 1)]) = sent[(readIndex + k - 1) + 1]
    BY <2>1 DEF IndInv, HistoryInv, Told
  <2> QED
    BY <1>1, <2>2
<1>3. Pending = [k \in 1..(writeIndex - readIndex) |-> sent[readIndex + k]]
  BY <1>2 DEF Pending
<1>4. \A k \in 1..(writeIndex - readIndex) : sent[readIndex + k] \in Message
  BY <1>1
<1>5. Pending \in [1..(writeIndex - readIndex) -> Message]
  BY <1>3, <1>4
<1>6. Pending \in Seq(Message) /\ Len(Pending) = writeIndex - readIndex
  BY <1>1, <1>5, SeqDef
<1> QED
  BY <1>1, <1>3, <1>6 DEF Waits

LEMMA WaitingNext == IndInv' => Waits'
BY Waiting, PTL

\* The ring is a queue: taken, then waiting, is posted, in order; and all that was
\* taken is told, as it was posted, but for messages of size 0 that tryReceiveRaw
\* takes.  For every capacity and every message, serialized or not.
THEOREM Lossless == Spec => []LosslessFifo
<1>1. IndInv => LosslessFifo
  <2> SUFFICES ASSUME IndInv PROVE delivered \o Pending = sent
    BY DEF LosslessFifo, IndInv, HistoryInv
  <2>1. /\ writeIndex \in Nat /\ readIndex \in Nat /\ readIndex <= writeIndex
        /\ sent \in Seq(Message) /\ delivered \in Seq(Slot)
        /\ Len(sent) = writeIndex /\ Len(delivered) = readIndex
    BY DEF IndInv, TypeOK, HistoryInv, Told
  <2>2. /\ \A k \in 1..(writeIndex - readIndex) : Pending[k] = sent[readIndex + k]
        /\ Pending \in Seq(Message) /\ Len(Pending) = writeIndex - readIndex
    BY Waiting DEF Waits
  <2>3. \A i \in 1..readIndex : delivered[i] = sent[i]
    BY DEF IndInv, HistoryInv, Told
  <2> HIDE DEF Pending
  <2>4. Len(delivered \o Pending) = Len(sent)
    BY <2>1, <2>2
  <2>5. \A i \in 1..Len(sent) : (delivered \o Pending)[i] = sent[i]
    <3> TAKE i \in 1..Len(sent)
    <3>1. CASE i <= readIndex
      BY <2>1, <2>2, <2>3, <3>1
    <3>2. CASE ~(i <= readIndex)
      <4>1. i - readIndex \in 1..(writeIndex - readIndex)
        BY <2>1, <3>2
      <4>2. (delivered \o Pending)[i] = Pending[i - readIndex]
        BY <2>1, <2>2, <3>2
      <4> QED
        BY <2>1, <2>2, <4>1, <4>2
    <3> QED
      BY <3>1, <3>2
  <2>6. sent \in Seq(Slot) /\ delivered \o Pending \in Seq(Slot)
    BY <2>1, <2>2, MessageIsSlot
  <2> QED
    BY <2>4, <2>5, <2>6, SeqEqual
<1> QED
  BY <1>1, Invariance, PTL

\* A published message stays as it is until the consumer frees its slot.
THEOREM Frozen == Spec => PublishedIsFrozen
<1>1. IndInv /\ [Next]_vars =>
        [\A i \in readIndex'..(writeIndex - 1) : slots'[SlotOf(i)] = slots[SlotOf(i)]]_vars
  <2> SUFFICES ASSUME IndInv, [Next]_vars, NEW i \in readIndex'..(writeIndex - 1)
               PROVE  slots'[SlotOf(i)] = slots[SlotOf(i)]
    OBVIOUS
  <2>1. CASE WriteHeader \/ WriteBody
    <3> USE DEF WriteHeader, WriteBody
    <3>1. writeIndex < readIndex + Capacity /\ i \in readIndex..(writeIndex - 1) /\ i \in Nat
      BY <2>1, CapacityAssumption DEF IndInv, TypeOK, ViewsInv
    <3>2. SlotOf(i) # SlotOf(writeIndex)
      BY <3>1, FreeSlot DEF IndInv
    <3>3. SlotOf(i) \in 0..(Capacity - 1)
      BY <3>1, SlotInRange
    <3> QED
      BY <2>1, <3>2, <3>3 DEF IndInv, TypeOK
  <2>2. CASE ~(WriteHeader \/ WriteBody)
    <3>1. slots' = slots
      BY <2>2 DEF Next, ProducerNext, ConsumerNext, PostBegin, PostRefused, Publish,
         PendingCountByProducer, ReceiveBegin, ReceiveNothing, ReadHeader, ReceiveTooSmall,
         ReceiveThrows, ReadBody, Consume, PendingCountByConsumer, vars, shared
    <3> QED
      BY <3>1
  <2> QED
    BY <2>1, <2>2
<1> QED
  BY <1>1, Invariance, PTL DEF Spec, PublishedIsFrozen

-----------------------------------------------------------------------------
(* The ring implements the bounded queue of FifoQueue. *)

LEMMA InitIsFifo == Init => Fifo!Init
<1> SUFFICES ASSUME Init PROVE Pending = <<>> /\ delivered = <<>>
  BY DEF Fifo!Init
<1>1. writeIndex - readIndex = 0
  BY DEF Init
<1> QED
  BY <1>1 DEF Init, Pending

\* Publishing is Enqueue: there is room, and what waits grows by the message.
LEMMA PublishIsEnqueue ==
  ASSUME IndInv, IndInv', Publish
  PROVE  Fifo!Enqueue(pcall.msg) /\ pcall.msg \in Message
<1>1. /\ ppc = "publish" /\ writeIndex' = writeIndex + 1 /\ sent' = Append(sent, pcall.msg)
      /\ readIndex' = readIndex /\ delivered' = delivered
  BY DEF Publish
<1>2. pcall.msg \in Message /\ writeIndex < readIndex + Capacity
  BY <1>1, CapacityAssumption DEF IndInv, ProducerInv, ViewsInv, TypeOK
<1>3. /\ writeIndex \in Nat /\ readIndex \in Nat /\ readIndex <= writeIndex
      /\ Pending = [k \in 1..(writeIndex - readIndex) |-> sent[readIndex + k]]
      /\ Pending \in Seq(Message) /\ Len(Pending) = writeIndex - readIndex
  BY Waiting DEF Waits
<1>4. /\ Pending' = [k \in 1..(writeIndex' - readIndex') |-> sent'[readIndex' + k]]
      /\ Pending' \in Seq(Message) /\ Len(Pending') = writeIndex' - readIndex'
  BY WaitingNext DEF Waits
<1>5. sent \in Seq(Message) /\ Len(sent) = writeIndex
  BY DEF IndInv, TypeOK, HistoryInv, Told
<1> HIDE DEF Pending
<1>6. Append(Pending, pcall.msg) \in Seq(Message) /\ Len(Append(Pending, pcall.msg)) = Len(Pending')
  BY <1>1, <1>2, <1>3, <1>4
<1>7. ASSUME NEW k \in 1..Len(Pending')
      PROVE  Pending'[k] = Append(Pending, pcall.msg)[k]
  <2>1. Pending'[k] = Append(sent, pcall.msg)[readIndex + k]
    BY <1>1, <1>4, <1>7
  <2>2. CASE k = writeIndex - readIndex + 1
    BY <1>1, <1>2, <1>3, <1>5, <2>1, <2>2
  <2>3. CASE k # writeIndex - readIndex + 1
    <3>1. k \in 1..(writeIndex - readIndex) /\ readIndex + k \in 1..Len(sent)
      BY <1>1, <1>3, <1>4, <1>5, <1>7, <2>3
    <3>2. Append(sent, pcall.msg)[readIndex + k] = sent[readIndex + k]
      BY <1>2, <1>5, <3>1
    <3>3. Append(Pending, pcall.msg)[k] = Pending[k]
      BY <1>2, <1>3, <3>1
    <3> QED
      BY <1>3, <2>1, <3>1, <3>2, <3>3
  <2> QED
    BY <2>2, <2>3
<1>8. Pending' = Append(Pending, pcall.msg)
  BY <1>4, <1>6, <1>7, SeqEqual
<1> QED
  BY <1>1, <1>2, <1>3, <1>8, CapacityAssumption DEF Fifo!Enqueue

\* Consuming is Dequeue: the caller gets the oldest of what waits.
LEMMA ConsumeIsDequeue ==
  ASSUME IndInv, IndInv', Consume
  PROVE  Fifo!Dequeue
<1>1. /\ cpc = "consume" /\ readIndex' = readIndex + 1 /\ delivered' = Append(delivered, ccopy)
      /\ writeIndex' = writeIndex /\ sent' = sent
  BY DEF Consume
<1>2. ccopy = sent[readIndex + 1] /\ readIndex < writeIndex
  BY <1>1 DEF IndInv, ConsumerInv, ViewsInv, TypeOK
<1>3. /\ writeIndex \in Nat /\ readIndex \in Nat /\ readIndex <= writeIndex
      /\ Pending = [k \in 1..(writeIndex - readIndex) |-> sent[readIndex + k]]
      /\ Pending \in Seq(Message) /\ Len(Pending) = writeIndex - readIndex
  BY Waiting DEF Waits
<1>4. /\ Pending' = [k \in 1..(writeIndex' - readIndex') |-> sent'[readIndex' + k]]
      /\ Pending' \in Seq(Message) /\ Len(Pending') = writeIndex' - readIndex'
  BY WaitingNext DEF Waits
<1> HIDE DEF Pending
<1>5. Pending # <<>> /\ Head(Pending) = ccopy
  BY <1>2, <1>3
<1>6. Len(Pending') = Len(Pending) - 1 /\ Len(Pending) \in Nat
  <2>1. Len(Pending) = writeIndex - readIndex /\ Len(Pending) \in Nat
    BY <1>3
  <2>2. Len(Pending') = writeIndex - (readIndex + 1)
    BY <1>1, <1>4
  <2> QED
    BY <1>3, <2>1, <2>2
<1>7. /\ Tail(Pending) \in Seq(Message) /\ Len(Tail(Pending)) = Len(Pending) - 1
      /\ \A k \in 1..(Len(Pending) - 1) : Tail(Pending)[k] = Pending[k + 1]
  <2>1. Pending \in Seq(Message) /\ Pending # <<>>
    BY <1>3, <1>5
  <2> QED
    BY <2>1, HeadTailProperties
<1>8. ASSUME NEW k \in 1..Len(Pending')
      PROVE  Pending'[k] = Tail(Pending)[k]
  <2>1. k \in Nat /\ 1 <= k /\ k <= Len(Pending) - 1
    BY <1>6, <1>8
  <2>2. k + 1 \in 1..(writeIndex - readIndex) /\ k \in 1..(writeIndex - (readIndex + 1))
    BY <1>3, <2>1
  <2>3. Pending[k + 1] = sent[readIndex + (k + 1)]
    BY <1>3, <2>2
  <2>4. Pending'[k] = sent[(readIndex + 1) + k]
    BY <1>1, <1>4, <2>2
  <2>5. readIndex + (k + 1) = (readIndex + 1) + k
    BY <1>3, <2>1
  <2>6. Tail(Pending)[k] = Pending[k + 1]
    BY <1>6, <1>7, <2>1
  <2> QED
    BY <2>3, <2>4, <2>5, <2>6
<1>9. Pending' = Tail(Pending)
  BY <1>4, <1>6, <1>7, <1>8, SeqEqual
<1> QED
  BY <1>1, <1>5, <1>9 DEF Fifo!Dequeue

\* Every other step is invisible: what waits depends on the indices and the posts.
LEMMA OtherIsHidden ==
  ASSUME IndInv, IndInv', UNCHANGED <<writeIndex, readIndex, sent, delivered>>
  PROVE  UNCHANGED Fifo!vars
<1>1. Pending = [k \in 1..(writeIndex - readIndex) |-> sent[readIndex + k]]
  BY Waiting DEF Waits
<1>2. Pending' = [k \in 1..(writeIndex' - readIndex') |-> sent'[readIndex' + k]]
  BY WaitingNext DEF Waits
<1> QED
  BY <1>1, <1>2 DEF Fifo!vars

\* post and tryReceive, taken apart into their stores and loads on one ring, are a
\* bounded first-in first-out queue, whatever the capacity and the messages and
\* however old the indices either side sees (ipc.cpp 195-378).
THEOREM Implements == Spec => ImplementsFifo
<1>1. IndInv /\ IndInv' /\ [Next]_vars => [Fifo!Next]_(Fifo!vars)
  <2> SUFFICES ASSUME IndInv, IndInv', [Next]_vars PROVE [Fifo!Next]_(Fifo!vars)
    OBVIOUS
  <2>1. CASE Publish
    BY <2>1, PublishIsEnqueue DEF Fifo!Next
  <2>2. CASE Consume
    BY <2>2, ConsumeIsDequeue DEF Fifo!Next
  <2>3. CASE ~Publish /\ ~Consume
    <3>1. UNCHANGED <<writeIndex, readIndex, sent, delivered>>
      BY <2>3 DEF Next, ProducerNext, ConsumerNext, PostBegin, PostRefused, WriteHeader, WriteBody,
         PendingCountByProducer, ReceiveBegin, ReceiveNothing, ReadHeader, ReceiveTooSmall,
         ReceiveThrows, ReadBody, PendingCountByConsumer, vars, shared, history
    <3> QED
      BY <3>1, OtherIsHidden
  <2> QED
    BY <2>1, <2>2, <2>3
<1> QED
  BY <1>1, InitIsFifo, Invariance, PTL DEF Spec, ImplementsFifo, Fifo!Spec

-----------------------------------------------------------------------------
(* The pair: its processes, its names and their segments. *)

Holds(p, n) == open[p][n] # None

(* What a process has open tells how far it has come, and which it may be. *)
ShapeOf(p) ==
  /\ Holds(p, "AtoB") <=> \/ pc[p] \in {"out", "outReady", "in", "creator", "opened", "connector"}
                          \/ pc[p] = "closing" /\ p \in Creators
  /\ Holds(p, "BtoA") <=> \/ pc[p] \in {"in", "creator", "connector"}
                          \/ pc[p] = "closing" /\ p \notin Creators
  /\ pc[p] \in {"out", "outReady", "in", "creator"} => p \in Creators
  /\ pc[p] \in {"opened", "connector"} => p \in Connectors
  /\ pc[p] = "closing" => p \in Creators \cup Connectors
  /\ pc[p] \in {"in", "creator", "connector"} => open[p]["AtoB"] = open[p]["BtoA"]

Shape == \A p \in Processes : ShapeOf(p)

(* A name stands for one segment. *)
Unique ==
  \A n \in Names : \A p, q \in Processes : Holds(p, n) /\ Holds(q, n) => open[p][n] = open[q][n]

(* One creator holds a pair, or a part of one. *)
Owner == \A p, q \in Creators : Holds(p, "AtoB") /\ Holds(q, "AtoB") => p = q

(* Nothing is ever posted to BtoA; a message being received is the next one, and
   its receiver has not let go of the segment. *)
Consuming ==
  /\ written["BtoA"] = 0
  /\ \A n \in Names : read[n] <= written[n]
  /\ \A p \in Processes :
       loaded[p] # Unloaded =>
         pc[p] = "connector" /\ loaded[p] = read["AtoB"] /\ read["AtoB"] < written["AtoB"]

IInv == PairTypeOK /\ Shape /\ Unique /\ Owner /\ Consuming /\ OnceAndInOrder

USE DEF Names, None, Generations, Unloaded, Stages

-----------------------------------------------------------------------------
(* A name that stands for something stands for a segment somebody has open. *)
LEMMA Found ==
  ASSUME PairTypeOK, NEW n \in Names, Segments(n) # {}
  PROVE  \E q \in Processes : Holds(q, n) /\ SegmentOf(n) = open[q][n]
<1>1. SegmentOf(n) \in Segments(n)
  BY DEF SegmentOf
<1> QED
  BY <1>1 DEF Segments, Holds

LEMMA NotFound ==
  ASSUME PairTypeOK, NEW n \in Names, Segments(n) = {}
  PROVE  \A q \in Processes : ~Holds(q, n)
BY DEF Segments, Holds, PairTypeOK

(* Two names stand for two segments at most, so that one number in three is free. *)
LEMMA Numbered == ASSUME PairTypeOK, Unique PROVE NewGeneration \in Generations
<1>1. \A n \in Names : \A g, h \in Segments(n) : g = h
  BY DEF Segments, Unique, Holds
<1>2. \E g \in Generations : \A n \in Names : g \notin Segments(n)
  <2>1. CASE 1 \notin Segments("AtoB") /\ 1 \notin Segments("BtoA")
    BY <2>1
  <2>2. CASE 2 \notin Segments("AtoB") /\ 2 \notin Segments("BtoA")
    BY <2>2
  <2>3. CASE 3 \notin Segments("AtoB") /\ 3 \notin Segments("BtoA")
    BY <2>3
  <2> QED
    BY <1>1, <2>1, <2>2, <2>3
<1> QED
  BY <1>2 DEF NewGeneration

(* What a process that closes some of its segments leaves behind. *)
LEMMA Closed ==
  ASSUME IInv, NEW p \in Processes, NEW N \in SUBSET Names, Close(p, N)
  PROVE  /\ open' \in [Processes -> [Names -> Generations \cup {None}]]
         /\ \A q \in Processes, n \in Names :
              open'[q][n] = IF q = p /\ n \in N THEN None ELSE open[q][n]
         /\ ready' \subseteq Names
         /\ written' \in [Names -> 0..PairPosts] /\ read' \in [Names -> 0..PairPosts]
         /\ arrived' \in [Names -> Seq(0..(PairPosts - 1))]
         /\ loaded' = [loaded EXCEPT ![p] = Unloaded]
         /\ \A n \in Names : \/ /\ LastOf(p, n)
                                /\ written'[n] = 0 /\ read'[n] = 0 /\ arrived'[n] = <<>>
                             \/ /\ written'[n] = written[n] /\ read'[n] = read[n]
                                /\ arrived'[n] = arrived[n]
<1> DEFINE gone == {n \in N : LastOf(p, n)}
<1>1. ready' = ready \ gone
  BY DEF Close
<1>2. open' = [open EXCEPT ![p] = [n \in Names |-> IF n \in N THEN None ELSE @[n]]]
  BY DEF Close
<1>3. /\ written' = [n \in Names |-> IF n \in gone THEN 0 ELSE written[n]]
      /\ read' = [n \in Names |-> IF n \in gone THEN 0 ELSE read[n]]
      /\ arrived' = [n \in Names |-> IF n \in gone THEN <<>> ELSE arrived[n]]
      /\ loaded' = [loaded EXCEPT ![p] = Unloaded]
  BY DEF Close
<1>4. \A n \in gone : LastOf(p, n)
  OBVIOUS
<1> HIDE DEF gone
<1>5. open' \in [Processes -> [Names -> Generations \cup {None}]]
  BY <1>2 DEF IInv, PairTypeOK
<1>6. \A q \in Processes, n \in Names : open'[q][n] = IF q = p /\ n \in N THEN None ELSE open[q][n]
  BY <1>2 DEF IInv, PairTypeOK
<1>7. 0 \in 0..PairPosts /\ <<>> \in Seq(0..(PairPosts - 1))
  BY BoundAssumption
<1>8. written' \in [Names -> 0..PairPosts] /\ read' \in [Names -> 0..PairPosts]
  BY <1>3, <1>7 DEF IInv, PairTypeOK
<1>9. arrived' \in [Names -> Seq(0..(PairPosts - 1))]
  BY <1>3, <1>7 DEF IInv, PairTypeOK
<1>10. \A n \in Names : \/ /\ LastOf(p, n)
                           /\ written'[n] = 0 /\ read'[n] = 0 /\ arrived'[n] = <<>>
                        \/ /\ written'[n] = written[n] /\ read'[n] = read[n]
                           /\ arrived'[n] = arrived[n]
  BY <1>3, <1>4
<1> QED
  BY <1>1, <1>3, <1>5, <1>6, <1>8, <1>9, <1>10 DEF IInv, PairTypeOK

-----------------------------------------------------------------------------
(* The steps that only open something: rings and receives are left alone. *)
LEMMA OpeningStep ==
  ASSUME IInv, NEW p \in Processes,
         MakeOut(p) \/ OutReady(p) \/ MakeIn(p) \/ Created(p) \/ OpenIn(p) \/ Connected(p)
  PROVE  IInv'
<1> USE DEF IInv
<1>1. /\ UNCHANGED <<written, read, arrived, loaded, leaves>>
      /\ pc[p] # "connector" /\ loaded[p] = Unloaded
  BY DEF MakeOut, OutReady, MakeIn, Created, OpenIn, Connected, MarkReady, rings, Consuming
<1>2. pc' \in [Processes -> Stages] /\ \A q \in Processes \ {p} : pc'[q] = pc[q]
  BY DEF MakeOut, OutReady, MakeIn, Created, OpenIn, Connected, MarkReady, PairTypeOK
<1>3. ready' \subseteq Names
  BY DEF MakeOut, OutReady, MakeIn, Created, OpenIn, Connected, MarkReady, PairTypeOK
<1>4. Consuming' /\ OnceAndInOrder'
  BY <1>1, <1>2 DEF Consuming, OnceAndInOrder
<1>5. CASE MakeOut(p)
  <2>1. /\ open' = [open EXCEPT ![p]["AtoB"] = NewGeneration] /\ NewGeneration \in Generations
        /\ pc'[p] = "out" /\ pc[p] = "none" /\ p \in Creators
        /\ \A q \in Processes : ~Holds(q, "AtoB")
    BY <1>5, Numbered, NotFound DEF MakeOut, MayMake, PairTypeOK
  <2>2. open' \in [Processes -> [Names -> Generations \cup {None}]]
    BY <2>1 DEF PairTypeOK
  <2>3. \A q \in Processes, n \in Names :
          open'[q][n] = IF q = p /\ n = "AtoB" THEN NewGeneration ELSE open[q][n]
    BY <2>1 DEF PairTypeOK
  <2>4. Unique' /\ Owner'
    BY <2>1, <2>3, ProcessAssumption DEF Unique, Owner, Holds
  <2>5. Shape'
    BY <1>2, <2>1, <2>3 DEF Shape, ShapeOf, Holds
  <2> QED
    BY <1>1, <1>2, <1>3, <1>4, <2>2, <2>4, <2>5 DEF PairTypeOK
<1>6. CASE OutReady(p) \/ Created(p)
  <2>1. open' = open
    BY <1>6 DEF OutReady, Created, MarkReady
  <2>2. \/ pc[p] = "out" /\ pc'[p] = "outReady"
        \/ pc[p] = "in" /\ pc'[p] = "creator"
    <3>1. CASE OutReady(p)
      BY <3>1 DEF OutReady, MarkReady, PairTypeOK
    <3>2. CASE Created(p)
      BY <3>2 DEF Created, MarkReady, PairTypeOK
    <3> QED
      BY <1>6, <3>1, <3>2
  <2>3. Shape' /\ Unique' /\ Owner'
    BY <1>2, <2>1, <2>2 DEF Shape, ShapeOf, Unique, Owner, Holds
  <2> QED
    BY <1>1, <1>2, <1>3, <1>4, <2>1, <2>3 DEF PairTypeOK
<1>7. CASE MakeIn(p)
  <2>1. /\ open' = [open EXCEPT ![p]["BtoA"] = open[p]["AtoB"]]
        /\ pc'[p] = "in" /\ pc[p] = "outReady"
        /\ \A q \in Processes : ~Holds(q, "BtoA")
    BY <1>7, NotFound DEF MakeIn, MayMake, PairTypeOK
  <2>2. open' \in [Processes -> [Names -> Generations \cup {None}]]
    BY <2>1 DEF PairTypeOK
  <2>3. \A q \in Processes, n \in Names :
          open'[q][n] = IF q = p /\ n = "BtoA" THEN open[p]["AtoB"] ELSE open[q][n]
    BY <2>1 DEF PairTypeOK
  <2>4. Unique' /\ Owner'
    BY <2>1, <2>3, ProcessAssumption DEF Unique, Owner, Holds
  <2>5. Shape'
    BY <1>2, <2>1, <2>3 DEF Shape, ShapeOf, Holds
  <2> QED
    BY <1>1, <1>2, <1>3, <1>4, <2>2, <2>4, <2>5 DEF PairTypeOK
<1>8. CASE OpenIn(p)
  <2>1. /\ open' = [open EXCEPT ![p]["AtoB"] = SegmentOf("AtoB")]
        /\ pc'[p] = "opened" /\ pc[p] = "none" /\ p \in Connectors
    BY <1>8 DEF OpenIn, PairTypeOK
  <2>2. PICK q \in Processes : Holds(q, "AtoB") /\ SegmentOf("AtoB") = open[q]["AtoB"]
    BY <1>8, Found DEF OpenIn, MayOpen
  <2>3. open' \in [Processes -> [Names -> Generations \cup {None}]]
    BY <2>1, <2>2 DEF PairTypeOK
  <2>4. \A r \in Processes, n \in Names :
          open'[r][n] = IF r = p /\ n = "AtoB" THEN open[q]["AtoB"] ELSE open[r][n]
    BY <2>1, <2>2 DEF PairTypeOK
  <2>5. Unique'
    BY <2>2, <2>4 DEF Unique, Holds
  <2>6. Owner'
    BY <2>1, <2>4, ProcessAssumption, OneConsumer DEF Owner, Holds
  <2>7. Shape'
    BY <1>2, <2>1, <2>2, <2>4 DEF Shape, ShapeOf, Holds
  <2> QED
    BY <1>1, <1>2, <1>3, <1>4, <2>3, <2>5, <2>6, <2>7 DEF PairTypeOK
(* Only a creator can have BtoA open while the one connector is still opening,
   and it has the AtoB that the connector has. *)
<1>9. CASE Connected(p)
  <2>1. /\ open' = [open EXCEPT ![p]["BtoA"] = SegmentOf("BtoA")]
        /\ pc'[p] = "connector" /\ pc[p] = "opened"
    BY <1>9 DEF Connected, PairTypeOK
  <2>2. PICK q \in Processes : Holds(q, "BtoA") /\ SegmentOf("BtoA") = open[q]["BtoA"]
    BY <1>9, Found DEF Connected, MayOpen
  <2>3. p \in Connectors /\ Holds(p, "AtoB") /\ ~Holds(p, "BtoA")
    BY <2>1, OneConsumer DEF Shape, ShapeOf
  <2>4. q \notin Connectors
    BY <2>2, <2>3, OneConsumer
  <2>5. pc[q] \in {"in", "creator"}
    BY <2>2, <2>4 DEF Shape, ShapeOf
  <2>6. open[q]["BtoA"] = open[p]["AtoB"]
    BY <2>3, <2>5 DEF Shape, ShapeOf, Unique
  <2>7. open' \in [Processes -> [Names -> Generations \cup {None}]]
    BY <2>1, <2>2 DEF PairTypeOK
  <2>8. \A r \in Processes, n \in Names :
          open'[r][n] = IF r = p /\ n = "BtoA" THEN open[q]["BtoA"] ELSE open[r][n]
    BY <2>1, <2>2 DEF PairTypeOK
  <2>9. Unique' /\ Owner'
    BY <2>2, <2>8, ProcessAssumption DEF Unique, Owner, Holds
  <2>10. Shape'
    BY <1>2, <2>1, <2>2, <2>3, <2>6, <2>8 DEF Shape, ShapeOf, Holds
  <2> QED
    BY <1>1, <1>2, <1>3, <1>4, <2>7, <2>9, <2>10 DEF PairTypeOK
<1> QED
  BY <1>5, <1>6, <1>7, <1>8, <1>9

(* The steps that close something.  While a message is being received its
   receiver, the one connector, has AtoB open: nobody else is the last there. *)
LEMMA ClosingStep ==
  ASSUME IInv, NEW p \in Processes, NEW N \in SUBSET Names, NEW stage \in {"none", "closing"},
         Close(p, N), pc' = [pc EXCEPT ![p] = stage], leaves' \in 0..MaxLeaves,
         stage = "none" => N = Names,
         stage = "closing" => pc[p] \in {"creator", "connector"} /\ N = {InName(p)}
  PROVE  IInv'
<1> USE DEF IInv
<1>1. /\ open' \in [Processes -> [Names -> Generations \cup {None}]]
      /\ \A q \in Processes, n \in Names :
           open'[q][n] = IF q = p /\ n \in N THEN None ELSE open[q][n]
      /\ ready' \subseteq Names
      /\ written' \in [Names -> 0..PairPosts] /\ read' \in [Names -> 0..PairPosts]
      /\ arrived' \in [Names -> Seq(0..(PairPosts - 1))]
      /\ loaded' = [loaded EXCEPT ![p] = Unloaded]
  BY Closed
<1>2. \A n \in Names : \/ /\ LastOf(p, n)
                          /\ written'[n] = 0 /\ read'[n] = 0 /\ arrived'[n] = <<>>
                       \/ /\ written'[n] = written[n] /\ read'[n] = read[n]
                          /\ arrived'[n] = arrived[n]
  BY Closed
<1>3. /\ pc' \in [Processes -> Stages] /\ pc'[p] = stage
      /\ \A q \in Processes \ {p} : pc'[q] = pc[q]
  BY DEF PairTypeOK
<1>4. loaded' \in [Processes -> 0..PairPosts] /\ loaded'[p] = Unloaded
      /\ \A q \in Processes \ {p} : loaded'[q] = loaded[q]
  BY <1>1, BoundAssumption DEF PairTypeOK
<1>5. PairTypeOK'
  BY <1>1, <1>3, <1>4 DEF PairTypeOK
<1>6. Unique' /\ Owner'
  <2>1. \A q \in Processes, n \in Names : open'[q][n] # None => open'[q][n] = open[q][n]
    BY <1>1
  <2>2. Unique'
    BY <2>1 DEF Unique, Holds
  <2>3. Owner'
    BY <2>1, ProcessAssumption DEF Owner, Holds
  <2> QED
    BY <2>2, <2>3
<1>7. Shape'
  <2>1. ASSUME NEW q \in Processes, q # p PROVE ShapeOf(q)'
    <3>1. pc'[q] = pc[q]
      BY <1>3, <2>1
    <3>2. open'[q]["AtoB"] = open[q]["AtoB"] /\ open'[q]["BtoA"] = open[q]["BtoA"]
      BY <1>1, <2>1
    <3>3. ShapeOf(q)
      BY DEF Shape
    <3> QED
      BY <3>1, <3>2, <3>3 DEF ShapeOf, Holds
  <2>2. ShapeOf(p)'
    <3>1. CASE stage = "none"
      <4>1. open'[p]["AtoB"] = None /\ open'[p]["BtoA"] = None /\ pc'[p] = "none"
        BY <1>1, <1>3, <3>1
      <4> QED
        BY <4>1 DEF ShapeOf, Holds
    <3>2. CASE stage = "closing" /\ pc[p] = "creator"
      <4>1. N = {"BtoA"} /\ p \in Creators /\ Holds(p, "AtoB")
        BY <3>2 DEF InName, Shape, ShapeOf
      <4>2. open'[p]["BtoA"] = None /\ open'[p]["AtoB"] = open[p]["AtoB"]
        BY <1>1, <4>1
      <4>3. pc'[p] = "closing"
        BY <1>3, <3>2
      <4> QED
        BY <4>1, <4>2, <4>3 DEF ShapeOf, Holds
    <3>3. CASE stage = "closing" /\ pc[p] = "connector"
      <4>1. N = {"AtoB"} /\ p \in Connectors /\ Holds(p, "BtoA")
        BY <3>3 DEF InName, Shape, ShapeOf
      <4>2. p \notin Creators
        BY <4>1, OneConsumer
      <4>3. open'[p]["AtoB"] = None /\ open'[p]["BtoA"] = open[p]["BtoA"]
        BY <1>1, <4>1
      <4>4. pc'[p] = "closing"
        BY <1>3, <3>3
      <4> QED
        BY <4>1, <4>2, <4>3, <4>4 DEF ShapeOf, Holds
    <3> QED
      BY <3>1, <3>2, <3>3
  <2> QED
    BY <2>1, <2>2 DEF Shape
<1>8. Consuming'
  <2>1. written'["BtoA"] = 0
    BY <1>2 DEF Consuming
  <2>2. \A n \in Names : read'[n] <= written'[n]
    BY <1>2 DEF Consuming
  <2>3. ASSUME NEW q \in Processes, loaded'[q] # Unloaded
        PROVE  /\ pc'[q] = "connector" /\ loaded'[q] = read'["AtoB"]
               /\ read'["AtoB"] < written'["AtoB"]
    <3>1. q # p /\ loaded'[q] = loaded[q] /\ pc'[q] = pc[q]
      BY <1>3, <1>4, <2>3
    <3>2. pc[q] = "connector" /\ loaded[q] = read["AtoB"] /\ read["AtoB"] < written["AtoB"]
      BY <2>3, <3>1 DEF Consuming
    <3>3. Holds(q, "AtoB")
      BY <3>2 DEF Shape, ShapeOf
    <3>4. ~LastOf(p, "AtoB")
      BY <3>1, <3>3 DEF LastOf, Holds
    <3> QED
      BY <1>2, <3>1, <3>2, <3>4
  <2> QED
    BY <2>1, <2>2, <2>3 DEF Consuming
<1>9. OnceAndInOrder'
  <2>1. ASSUME NEW n \in Names PROVE arrived'[n] = [i \in 1..read'[n] |-> i - 1]
    <3>1. CASE written'[n] = written[n] /\ read'[n] = read[n] /\ arrived'[n] = arrived[n]
      BY <3>1 DEF OnceAndInOrder
    <3>2. CASE read'[n] = 0 /\ arrived'[n] = <<>>
      BY <3>2
    <3> QED
      BY <1>2, <3>1, <3>2
  <2> QED
    BY <2>1 DEF OnceAndInOrder
<1> QED
  BY <1>5, <1>6, <1>7, <1>8, <1>9

(* The steps on a ring. *)
LEMMA RingStep ==
  ASSUME IInv, NEW p \in Processes, Post(p) \/ Receive(p)
  PROVE  IInv'
<1> USE DEF IInv
<1>1. UNCHANGED <<pc, open, ready, leaves>>
  BY DEF Post, Receive, BeginReceive, ReceiveEnd
<1>2. Shape' /\ Unique' /\ Owner'
  BY <1>1 DEF Shape, ShapeOf, Unique, Owner, Holds
<1>3. CASE Post(p)
  <2>1. /\ written["AtoB"] < PairPosts
        /\ written' = [written EXCEPT !["AtoB"] = @ + 1]
        /\ UNCHANGED <<read, loaded, arrived>>
    BY <1>3 DEF Post, IsProducer, OutName
  <2>2. written' \in [Names -> 0..PairPosts] /\ written'["BtoA"] = written["BtoA"]
        /\ written'["AtoB"] = written["AtoB"] + 1
    BY <2>1, BoundAssumption DEF PairTypeOK
  <2>3. PairTypeOK'
    BY <1>1, <2>1, <2>2 DEF PairTypeOK
  <2>4. \A n \in Names : read[n] \in Nat /\ written[n] \in Nat
    BY BoundAssumption DEF PairTypeOK
  <2>5. Consuming'
    BY <1>1, <2>1, <2>2, <2>4 DEF Consuming
  <2>6. OnceAndInOrder'
    BY <2>1 DEF OnceAndInOrder
  <2> QED
    BY <1>2, <2>3, <2>5, <2>6
<1>4. CASE BeginReceive(p)
  <2>1. pc[p] = "connector" /\ read["AtoB"] < written["AtoB"]
        /\ loaded' = [loaded EXCEPT ![p] = read["AtoB"]]
        /\ UNCHANGED <<written, read, arrived>>
    <3>1. read["BtoA"] \in Nat /\ written["BtoA"] = 0
      BY BoundAssumption DEF PairTypeOK, Consuming
    <3>2. pc[p] # "creator"
      BY <1>4, <3>1 DEF BeginReceive, InName
    <3> QED
      BY <1>4, <3>2 DEF BeginReceive, InName, rings
  <2>2. loaded' \in [Processes -> 0..PairPosts]
        /\ \A q \in Processes : loaded'[q] = IF q = p THEN read["AtoB"] ELSE loaded[q]
    BY <2>1 DEF PairTypeOK
  <2>3. PairTypeOK'
    BY <1>1, <2>1, <2>2 DEF PairTypeOK
  <2>4. Consuming'
    BY <1>1, <2>1, <2>2 DEF Consuming
  <2>5. OnceAndInOrder'
    BY <2>1 DEF OnceAndInOrder
  <2> QED
    BY <1>2, <2>3, <2>4, <2>5
<1>5. CASE ReceiveEnd(p)
  <2>1. /\ pc[p] = "connector" /\ loaded[p] = read["AtoB"] /\ read["AtoB"] < written["AtoB"]
        /\ InName(p) = "AtoB"
    BY <1>5 DEF ReceiveEnd, Consuming, InName
  <2>2. /\ read' = [read EXCEPT !["AtoB"] = read["AtoB"] + 1]
        /\ arrived' = [arrived EXCEPT !["AtoB"] = Append(@, read["AtoB"])]
        /\ loaded' = [loaded EXCEPT ![p] = Unloaded]
        /\ written' = written
    BY <1>5, <2>1 DEF ReceiveEnd
  <2>3. /\ read["AtoB"] \in 0..PairPosts /\ written["AtoB"] \in 0..PairPosts
        /\ read["BtoA"] \in 0..PairPosts /\ written["BtoA"] \in 0..PairPosts
        /\ arrived["AtoB"] \in Seq(0..(PairPosts - 1))
    BY DEF PairTypeOK
  <2>4. read["AtoB"] + 1 \in 0..PairPosts /\ read["AtoB"] \in 0..(PairPosts - 1)
    BY <2>1, <2>3, BoundAssumption
  <2>5. /\ read' \in [Names -> 0..PairPosts]
        /\ read'["AtoB"] = read["AtoB"] + 1 /\ read'["BtoA"] = read["BtoA"]
    BY <2>2, <2>4 DEF PairTypeOK
  <2>6. /\ arrived' \in [Names -> Seq(0..(PairPosts - 1))]
        /\ arrived'["AtoB"] = Append(arrived["AtoB"], read["AtoB"])
        /\ arrived'["BtoA"] = arrived["BtoA"]
    BY <2>2, <2>3, <2>4 DEF PairTypeOK
  <2>7. /\ loaded' \in [Processes -> 0..PairPosts] /\ loaded'[p] = Unloaded
        /\ \A q \in Processes \ {p} : loaded'[q] = loaded[q]
    BY <2>2, BoundAssumption DEF PairTypeOK
  <2>8. PairTypeOK'
    BY <1>1, <2>2, <2>5, <2>6, <2>7 DEF PairTypeOK
  (* There is no other receiver. *)
  <2>9. \A q \in Processes \ {p} : loaded[q] = Unloaded
    BY <2>1, OneConsumer DEF Consuming, Shape, ShapeOf
  <2>10. Consuming'
    BY <1>1, <2>1, <2>2, <2>3, <2>5, <2>7, <2>9, BoundAssumption DEF Consuming
  <2>11. arrived'["AtoB"] = [i \in 1..(read["AtoB"] + 1) |-> i - 1]
    <3>1. arrived["AtoB"] = [i \in 1..read["AtoB"] |-> i - 1]
      BY DEF OnceAndInOrder
    <3> DEFINE r == read["AtoB"]
               d == [i \in 1..r |-> i - 1]
    <3>2. r \in Nat
      BY <2>3, BoundAssumption
    <3> HIDE DEF r
    <3>3. d \in Seq(Int) /\ Len(d) = r
      BY <3>2
    <3>4. Append(d, r) = [i \in 1..(r + 1) |-> i - 1]
      BY <3>2, <3>3
    <3> QED
      BY <2>6, <3>1, <3>4 DEF r
  <2>12. OnceAndInOrder'
    BY <2>5, <2>6, <2>11 DEF OnceAndInOrder
  <2> QED
    BY <1>2, <2>8, <2>10, <2>12
<1> QED
  BY <1>3, <1>4, <1>5 DEF Receive

-----------------------------------------------------------------------------
LEMMA Initially == PairInit => IInv
<1> SUFFICES ASSUME PairInit PROVE IInv
  OBVIOUS
<1>1. PairTypeOK
  BY BoundAssumption DEF PairInit, PairTypeOK
<1>2. \A p \in Processes : pc[p] = "none" /\ open[p]["AtoB"] = None /\ open[p]["BtoA"] = None
  BY DEF PairInit
<1>3. Shape
  BY <1>2 DEF Shape, ShapeOf, Holds
<1>4. Unique /\ Owner
  BY <1>2, ProcessAssumption DEF Unique, Owner, Holds
<1>5. Consuming
  BY DEF PairInit, Consuming
<1>6. \A n \in Names : arrived[n] = [i \in 1..read[n] |-> i - 1]
  BY DEF PairInit
<1> QED
  BY <1>1, <1>3, <1>4, <1>5, <1>6 DEF IInv, OnceAndInOrder

LEMMA Step == IInv /\ [PairNext]_pairVars => IInv'
<1> SUFFICES ASSUME IInv, [PairNext]_pairVars PROVE IInv'
  OBVIOUS
<1>1. CASE UNCHANGED pairVars
  BY <1>1 DEF pairVars, IInv, PairTypeOK, Shape, ShapeOf, Unique, Owner, Holds, Consuming, OnceAndInOrder
<1>2. ASSUME NEW p \in Processes, MakeInFails(p) \/ GiveUp(p) \/ Left(p) \/ Crash(p)
      PROVE  IInv'
  <2>1. Close(p, Names) /\ pc' = [pc EXCEPT ![p] = "none"]
    BY <1>2 DEF MakeInFails, GiveUp, Left, Crash
  <2>2. leaves' \in 0..MaxLeaves
    BY <1>2, BoundAssumption DEF MakeInFails, GiveUp, Left, Crash, IInv, PairTypeOK
  <2>3. Names \in SUBSET Names /\ "none" \in {"none", "closing"} /\ "none" # "closing"
    OBVIOUS
  <2> QED
    BY <2>1, <2>2, <2>3, ClosingStep
<1>3. ASSUME NEW p \in Processes, Leave(p)
      PROVE  IInv'
  <2>1. /\ Close(p, {InName(p)}) /\ pc' = [pc EXCEPT ![p] = "closing"]
        /\ pc[p] \in {"creator", "connector"}
    BY <1>3 DEF Leave
  <2>2. leaves' \in 0..MaxLeaves
    BY <1>3, BoundAssumption DEF Leave, IInv, PairTypeOK
  <2>3. {InName(p)} \in SUBSET Names /\ "closing" \in {"none", "closing"} /\ "none" # "closing"
    BY DEF InName
  <2> QED
    BY <2>1, <2>2, <2>3, ClosingStep
<1> QED
  BY <1>1, <1>2, <1>3, OpeningStep, RingStep DEF PairNext, Begin, GoOn

LEMMA Invariant == PairSpec => []IInv
BY Initially, Step, PTL DEF PairSpec

(* The state of the pair keeps its type (ipc.cpp 523-628). *)
THEOREM PairTypeCorrect == PairSpec => []PairTypeOK
<1>1. IInv => PairTypeOK
  BY DEF IInv
<1> QED
  BY <1>1, Invariant, PTL

(* Whoever has a pair has both halves of the same one, and it has one creator,
   however many processes try to make pairs, leave and crash while others are
   half way through (ipc.cpp 525-573, 620-621). *)
THEOREM OneOfAPair == PairSpec => []OnePair
<1>1. ASSUME IInv PROVE OnePair
  <2>1. ASSUME NEW p \in Processes, NEW q \in Processes, Complete(p), Complete(q)
        PROVE  /\ open[p] = open[q]
               /\ open[p]["AtoB"] = open[p]["BtoA"]
               /\ pc[p] = "creator" /\ pc[q] = "creator" => p = q
    <3>1. /\ \A n \in Names : Holds(p, n) /\ Holds(q, n)
          /\ open[p]["AtoB"] = open[p]["BtoA"]
      BY <1>1, <2>1 DEF IInv, Shape, ShapeOf, Complete
    <3>2. open[p]["AtoB"] = open[q]["AtoB"] /\ open[p]["BtoA"] = open[q]["BtoA"]
      BY <1>1, <3>1 DEF IInv, Unique
    <3>3. open[p] \in [Names -> Generations \cup {None}] /\ open[q] \in [Names -> Generations \cup {None}]
      BY <1>1 DEF IInv, PairTypeOK
    <3>4. open[p] = open[q]
      BY <3>2, <3>3
    <3>5. pc[p] = "creator" /\ pc[q] = "creator" => p = q
      BY <1>1, <3>1 DEF IInv, Owner, Shape, ShapeOf
    <3> QED
      BY <3>1, <3>4, <3>5
  <2>2. \A n \in Names : \A g, h \in Segments(n) : g = h
    BY <1>1 DEF IInv, Unique, Segments, Holds
  <2> QED
    BY <2>1, <2>2 DEF OnePair
<1> QED
  BY <1>1, Invariant, PTL

(* A segment's messages are received once and in the order they were posted,
   through any number of connectors and crashes (ipc.cpp 316-352). *)
THEOREM InOrder == PairSpec => []OnceAndInOrder
<1>1. IInv => OnceAndInOrder
  BY DEF IInv
<1> QED
  BY <1>1, Invariant, PTL
=============================================================================
