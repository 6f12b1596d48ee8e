------------------------- MODULE Notification_proofs ------------------------
(* Who is told of what: the event bus, and the watchers of paths.

   The dispatch of the event bus, for any number of slots, events and nested
   publishes: its indexes agree with the slots, nobody is called after it was
   disconnected, and an undisturbed publish reaches exactly its audience.

   The trie of the path watcher, for any paths and any values, and the checks
   inside one another: it has the nodes its watches need, counts them, and a
   check calls every watch that stayed and whose value changed, once. *)
EXTENDS EventBus, PathWatcher, SequenceLemmas, TLAPS

------------------------------------------------------------------------------
(* Lists of slots *)

Distinct(list) == \A i, j \in DOMAIN list : list[i] = list[j] => i = j

(* An element that is not there yet may be appended. *)
LEMMA AppendDistinct ==
  ASSUME NEW S, NEW list \in Seq(S), NEW x \in S, Distinct(list), x \notin ToSet(list)
  PROVE  Distinct(Append(list, x))
<1>1. /\ Len(list) \in Nat /\ DOMAIN list = 1 .. Len(list) /\ DOMAIN Append(list, x) = 1 .. Len(list) + 1
      /\ \A i \in 1 .. Len(list) : Append(list, x)[i] = list[i] /\ list[i] # x
      /\ Append(list, x)[Len(list) + 1] = x
  BY DEF ToSet
<1>2. PICK long : long = Append(list, x)
  OBVIOUS
<1>3. ASSUME NEW i \in 1 .. Len(list) + 1, NEW j \in 1 .. Len(list) + 1, long[i] = long[j] PROVE i = j
  <2>1. CASE i = Len(list) + 1 \/ j = Len(list) + 1
    BY <1>1, <1>2, <1>3, <2>1
  <2>2. CASE i \in 1 .. Len(list) /\ j \in 1 .. Len(list)
    BY <1>1, <1>2, <1>3, <2>2 DEF Distinct
  <2> QED
    BY <1>1, <2>1, <2>2
<1> QED
  BY <1>1, <1>2, <1>3 DEF Distinct

(* What is left of a list: the entries that are wanted, and each as often. *)
OnlyWanted(part, list, m, wanted) ==
  /\ ToSet(part) = {list[k] : k \in 1 .. m} \cap wanted
  /\ Distinct(list) => Distinct(part)

(* Only keeps the wanted elements and no others, in their order. *)
LEMMA OnlyIs ==
  ASSUME NEW S, NEW list \in Seq(S), NEW wanted
  PROVE  Only(list, wanted) \in Seq(S) /\ OnlyWanted(Only(list, wanted), list, Len(list), wanted)
<1> DEFINE n == Len(list)
           W == Seq(S)
           step == [i \in 1 .. n |-> [x \in W |-> IF list[i] \in wanted THEN Append(x, list[i]) ELSE x]]
           Solves(f) == f = [i \in 0 .. n |->
                               IF i = 0 THEN <<>>
                               ELSE IF list[i] \in wanted THEN Append(f[i - 1], list[i]) ELSE f[i - 1]]
           upTo == CHOOSE f : Solves(f)
<1>1. n \in Nat /\ <<>> \in W /\ DOMAIN list = 1 .. n /\ \A i \in 1 .. n : list[i] \in S
  OBVIOUS
<1>2. Steps(step, 1 .. n, W)
  <2>1. ASSUME NEW i \in 1 .. n
        PROVE  [x \in W |-> IF list[i] \in wanted THEN Append(x, list[i]) ELSE x] \in [W -> W]
    <3>1. \A x \in W : Append(x, list[i]) \in W
      BY <1>1
    <3> HIDE DEF W
    <3> QED
      BY <3>1
  <2> HIDE DEF W, n
  <2> QED
    BY <2>1 DEF Steps
<1>3. \A i \in 1 .. n, x \in W : step[i][x] = IF list[i] \in wanted THEN Append(x, list[i]) ELSE x
  OBVIOUS
<1> HIDE DEF step
<1>4. PICK g \in [0 .. n -> W] : g[0] = <<>> /\ \A i \in 1 .. n : g[i] = step[i][g[i - 1]]
  <2>1. PICK C, w : C = W /\ w = <<>>
    OBVIOUS
  <2> HIDE DEF n, W
  <2>2. n \in Nat /\ w \in C /\ Steps(step, 1 .. n, C)
    BY <1>1, <1>2, <2>1
  <2>3. \E g : Climbs(g, n, C, w, step)
    BY <2>2, Climb
  <2> QED
    BY <2>1, <2>3 DEF Climbs
<1>5. Solves(g)
  <2> HIDE DEF n, W
  <2>1. g = [i \in 0 .. n |-> g[i]]
    OBVIOUS
  <2>2. ASSUME NEW i \in 0 .. n
        PROVE  g[i] = IF i = 0 THEN <<>>
                      ELSE IF list[i] \in wanted THEN Append(g[i - 1], list[i]) ELSE g[i - 1]
    <3>1. CASE i = 0
      BY <1>4, <3>1
    <3>2. CASE i # 0
      <4>1. i \in 1 .. n /\ i - 1 \in 0 .. n
        BY <1>1, <3>2
      <4>2. g[i - 1] \in W
        BY <4>1
      <4> QED
        BY <1>3, <1>4, <3>2, <4>1, <4>2
    <3> QED
      BY <3>1, <3>2
  <2> QED
    BY <2>1, <2>2
<1>6. Solves(upTo)
  BY <1>5
<1>7. Only(list, wanted) = upTo[n]
  BY DEF Only
<1>8. PICK a : a = upTo
  OBVIOUS
<1>9. /\ Only(list, wanted) = a[n]
      /\ \A i \in 0 .. n : a[i] = IF i = 0 THEN <<>>
                                  ELSE IF list[i] \in wanted THEN Append(a[i - 1], list[i]) ELSE a[i - 1]
  <2>1. a = [i \in 0 .. n |-> IF i = 0 THEN <<>>
                               ELSE IF list[i] \in wanted THEN Append(a[i - 1], list[i]) ELSE a[i - 1]]
    BY <1>6, <1>8
  <2> QED
    BY <1>7, <1>8, <2>1
<1> HIDE DEF upTo, Solves, n
<1> DEFINE T == {i \in 0 .. n : a[i] \in W /\ OnlyWanted(a[i], list, i, wanted)}
<1>10. 0 \in T
  <2>1. 0 \in 0 .. n /\ a[0] = <<>>
    BY <1>1, <1>9
  <2>2. ToSet(<<>>) = {} /\ {list[k] : k \in 1 .. 0} = {} /\ Distinct(<<>>)
    BY DEF ToSet, Distinct
  <2> QED
    BY <1>1, <2>1, <2>2 DEF OnlyWanted
<1>11. ASSUME NEW i \in 0 .. n - 1, i \in T PROVE i + 1 \in T
  <2>1. PICK j \in 1 .. n : j = i + 1
    BY <1>1
  <2>2. j \in 0 .. n /\ j # 0 /\ j - 1 = i
    BY <1>1, <2>1
  <2>3. a[j] = IF list[j] \in wanted THEN Append(a[i], list[j]) ELSE a[i]
    BY <1>9, <2>2
  <2>4. a[i] \in W /\ OnlyWanted(a[i], list, i, wanted)
    BY <1>11
  <2>5. {list[k] : k \in 1 .. j} = {list[k] : k \in 1 .. i} \cup {list[j]}
    <3>1. 1 .. j = (1 .. i) \cup {j}
      BY <1>1, <2>1
    <3> QED
      BY <3>1
  <2>6. CASE list[j] \notin wanted
    <3>1. a[j] = a[i]
      BY <2>3, <2>6
    <3> QED
      BY <2>1, <2>2, <2>4, <2>5, <2>6, <3>1 DEF OnlyWanted
  <2>7. CASE list[j] \in wanted
    <3>1. a[j] = Append(a[i], list[j])
      BY <2>3, <2>7
    <3>2. PICK part : part = a[i]
      OBVIOUS
    <3>3. part \in Seq(S) /\ list[j] \in S
      BY <1>1, <2>4, <3>2
    <3>4. Append(part, list[j]) \in W /\ ToSet(Append(part, list[j])) = ToSet(part) \cup {list[j]}
      <4>1. PICK x : x = list[j]
        OBVIOUS
      <4>2. Append(part, x) \in Seq(S) /\ ToSet(Append(part, x)) = ToSet(part) \cup {x}
        BY <3>3, <4>1, EndEntries, Zenon
      <4> QED
        BY <4>1, <4>2, Zenon
    <3>5. Distinct(list) => Distinct(Append(part, list[j]))
      <4>1. SUFFICES ASSUME Distinct(list) PROVE Distinct(Append(part, list[j]))
        OBVIOUS
      <4>2. list[j] \notin {list[k] : k \in 1 .. i}
        <5>1. \A k \in 1 .. i : k \in DOMAIN list /\ j \in DOMAIN list /\ k # j
          BY <1>1, <2>1
        <5> QED
          BY <4>1, <5>1 DEF Distinct
      <4>3. Distinct(part) /\ list[j] \notin ToSet(part)
        BY <2>4, <3>2, <4>1, <4>2 DEF OnlyWanted
      <4> QED
        BY <3>3, <4>3, AppendDistinct
    <3>6. ToSet(a[j]) = {list[k] : k \in 1 .. j} \cap wanted
      BY <2>4, <2>5, <2>7, <3>1, <3>2, <3>4 DEF OnlyWanted
    <3> QED
      BY <2>1, <2>2, <3>1, <3>2, <3>4, <3>5, <3>6 DEF OnlyWanted
  <2> QED
    BY <2>6, <2>7
<1> HIDE DEF T
<1>13. \A i \in 0 .. n : i \in T
  BY <1>1, <1>10, <1>11, Upwards
<1>12. n \in T
  BY <1>1, <1>13
<1> QED
  BY <1>9, <1>12 DEF T, n

(* std::erase takes the slot out and keeps the rest distinct. *)
LEMMA WithoutIs ==
  ASSUME NEW list \in Seq(Slots), NEW s
  PROVE  /\ Without(list, s) \in Seq(Slots)
         /\ ToSet(Without(list, s)) = ToSet(list) \ {s}
         /\ Distinct(list) => Distinct(Without(list, s))
<1>1. PICK part : part = Without(list, s)
  OBVIOUS
<1>2. part \in Seq(Slots) /\ OnlyWanted(part, list, Len(list), Slots \ {s})
  BY <1>1, OnlyIs DEF Without
<1>3. ToSet(list) = {list[k] : k \in 1 .. Len(list)} /\ ToSet(list) \subseteq Slots
  BY DEF ToSet
<1> QED
  BY <1>1, <1>2, <1>3 DEF OnlyWanted

------------------------------------------------------------------------------
(* The inductive invariant *)

SingleOf(e) == {t \in Slots : Life(t) = "active" /\ slots[t].kind = "single" /\ e \in slots[t].events}
Several == {t \in Slots : Life(t) = "active" /\ slots[t].kind = "complex"}
Gone == {t \in Slots : Life(t) \in {"inactive", "freed"}}

(* Each list holds the connected slots it is for, each once. *)
Lists ==
  /\ \A e \in Events : Distinct(singles[e]) /\ ToSet(singles[e]) = SingleOf(e)
  /\ Distinct(complex) /\ ToSet(complex) = Several
  /\ \A t \in Slots : Life(t) = "active" /\ slots[t].kind = "single" => \E e \in Events : slots[t].events = {e}

Counted == disconnects = Cardinality(Gone)

(* A loop that was left undisturbed runs over storage as it was, which holds its
   audience, each slot once and none of them freed; those before its position
   are called or were disconnected. *)
Undisturbed(f) ==
  /\ ~undefined
  /\ f.storage = Len(cells) /\ f.at \in 1 .. f.end + 1 /\ f.end \in 0 .. Len(cells)
  /\ f.audience = {cells[i] : i \in 1 .. f.end}
  /\ \A i, j \in 1 .. f.end : cells[i] = cells[j] => i = j
  /\ \A t \in f.audience : Life(t) \in {"active", "inactive"}
  /\ f.called \subseteq {cells[i] : i \in 1 .. f.at - 1}
  /\ \A i \in 1 .. f.at - 1 : Life(cells[i]) = "active" => cells[i] \in f.called

(* Only the innermost loop can be undisturbed. *)
Loops ==
  \A i \in DOMAIN frames :
    /\ frames[i].at >= 1 /\ frames[i].end <= frames[i].storage
    /\ ~frames[i].disturbed => i = Len(frames) /\ Undisturbed(frames[i])

IInv == TypeOK /\ Lists /\ Counted /\ Loops

(* Disconnected slots are finitely many, so the counter is bounded. *)
LEMMA FiniteGone ==
  /\ IsFiniteSet(Slots)
  /\ \A S \in SUBSET Slots : IsFiniteSet(S) /\ Cardinality(S) \in Nat /\ Cardinality(S) <= Cardinality(Slots)
<1>1. IsFiniteSet(Slots) /\ Cardinality(Slots) \in Nat
  BY ConstantsAssumption, FS_CardinalityType
<1> QED
  BY <1>1, FS_Subset, FS_CardinalityType

(* The bus begins with empty lists. *)
LEMMA Start == Init => IInv
<1> SUFFICES ASSUME Init PROVE IInv
  OBVIOUS
<1>1. /\ <<>> \in Seq(Slots) /\ <<>> \in Seq(Slots \cup {None}) /\ <<>> \in Seq(Frame)
      /\ Len(<<>>) = 0 /\ DOMAIN <<>> = {} /\ ToSet(<<>>) = {} /\ Distinct(<<>>)
  BY DEF ToSet, Distinct
<1>2. \A t \in Slots : Life(t) = "unused"
  BY DEF Init, Life
<1>3. Gone = {} /\ Several = {} /\ \A e \in Events : SingleOf(e) = {}
  BY <1>2 DEF Gone, Several, SingleOf
<1>4. Counted
  BY <1>3, FS_EmptySet DEF Counted, Init
<1>5. TypeOK
  <2>1. slots \in [Slots -> Slot]
    BY DEF Init, Slot, Kinds
  <2>2. 0 \in 0 .. Cardinality(Slots) /\ 0 <= MaxDepth
    BY FiniteGone, ConstantsAssumption
  <2> QED
    BY <1>1, <2>1, <2>2 DEF Init, TypeOK
<1>6. Lists
  BY <1>1, <1>2, <1>3 DEF Init, Lists
<1>7. Loops
  BY <1>1 DEF Init, Loops
<1> QED
  BY <1>4, <1>5, <1>6, <1>7 DEF IInv

------------------------------------------------------------------------------
(* Steps that leave the loops alone *)

(* No slot that was subscribed at some time is freed or connected again. *)
LEMMA LoopsStay ==
  ASSUME Loops, TypeOK, UNCHANGED <<frames, cells, undefined>>,
         \A t \in Slots : Life(t) \in {"active", "inactive"} =>
           Life(t)' \in {"active", "inactive"} /\ (Life(t)' = "active" => Life(t) = "active")
  PROVE  Loops'
<1>1. SUFFICES ASSUME NEW i \in DOMAIN frames, ~frames[i].disturbed
               PROVE  i = Len(frames) /\ Undisturbed(frames[i])'
  BY DEF Loops
<1>2. i = Len(frames) /\ Undisturbed(frames[i])
  BY <1>1 DEF Loops
<1>3. PICK f : f = frames[i]
  OBVIOUS
<1>4. f \in Frame /\ f.audience \subseteq Slots /\ Undisturbed(f)
  <2>1. f \in Frame
    BY <1>1, <1>3 DEF TypeOK
  <2> QED
    BY <1>2, <1>3, <2>1 DEF Frame
<1>5. \A k \in 1 .. f.at - 1 : cells[k] \in f.audience
  BY <1>4 DEF Undisturbed, Frame
<1>6. Undisturbed(f)'
  BY <1>4, <1>5 DEF Undisturbed
<1> QED
  BY <1>2, <1>3, <1>6

(* A new slot enters the list of its event only. *)
LEMMA SubscribeSingleInv ==
  ASSUME IInv, NEW s \in Slots, NEW e \in Events, NEW guard \in {"none", "live"}, SubscribeSingle(s, e, guard)
  PROVE  IInv'
<1> DEFINE new == [life |-> "active", kind |-> "single", events |-> {e}, guard |-> guard]
<1>1. /\ Life(s) = "unused" /\ slots' = [slots EXCEPT ![s] = new]
      /\ singles' = [singles EXCEPT ![e] = Append(singles[e], s)]
      /\ UNCHANGED <<complex, cells, disconnects, frames, undefined>>
  BY DEF SubscribeSingle
<1>2. TypeOK /\ Lists /\ Counted /\ Loops
  BY DEF IInv
<1>3. slots \in [Slots -> Slot] /\ singles \in [Events -> Seq(Slots)] /\ new \in Slot
  BY <1>2 DEF TypeOK, Slot, Kinds
<1>4. \A t \in Slots : slots'[t] = IF t = s THEN new ELSE slots[t]
  BY <1>1, <1>3
<1>5. Gone' = Gone /\ Several' = Several
  BY <1>1, <1>4 DEF Gone, Several, Life
<1>6. SingleOf(e)' = SingleOf(e) \cup {s} /\ \A d \in Events \ {e} : SingleOf(d)' = SingleOf(d)
  BY <1>1, <1>4 DEF SingleOf, Life
<1>7. s \notin SingleOf(e)
  BY <1>1 DEF SingleOf
<1>8. /\ Append(singles[e], s) \in Seq(Slots) /\ Distinct(Append(singles[e], s))
      /\ ToSet(Append(singles[e], s)) = SingleOf(e)'
  <2>1. PICK list : list = singles[e]
    OBVIOUS
  <2>2. list \in Seq(Slots) /\ Distinct(list) /\ ToSet(list) = SingleOf(e)
    BY <1>2, <1>3, <2>1 DEF Lists
  <2>3. Append(list, s) \in Seq(Slots) /\ ToSet(Append(list, s)) = ToSet(list) \cup {s}
    BY <2>2, EndEntries
  <2>4. Distinct(Append(list, s))
    BY <1>7, <2>2, AppendDistinct
  <2> QED
    BY <1>6, <2>1, <2>2, <2>3, <2>4
<1>9. TypeOK'
  <2>1. slots' \in [Slots -> Slot] /\ singles' \in [Events -> Seq(Slots)]
    BY <1>1, <1>3, <1>8
  <2> QED
    BY <1>1, <1>2, <2>1 DEF TypeOK
<1>10. Lists'
  <2>1. ASSUME NEW d \in Events PROVE (Distinct(singles[d]) /\ ToSet(singles[d]) = SingleOf(d))'
    <3>1. CASE d = e
      BY <1>1, <1>3, <1>8, <3>1
    <3>2. CASE d # e
      BY <1>1, <1>2, <1>3, <1>6, <3>2 DEF Lists
    <3> QED
      BY <3>1, <3>2
  <2>2. (Distinct(complex) /\ ToSet(complex) = Several)'
    BY <1>1, <1>2, <1>5 DEF Lists
  <2>3. \A t \in Slots : (Life(t) = "active" /\ slots[t].kind = "single" => \E d \in Events : slots[t].events = {d})'
    BY <1>2, <1>4 DEF Lists, Life
  <2> QED
    BY <2>1, <2>2, <2>3 DEF Lists
<1>11. Counted'
  BY <1>1, <1>2, <1>5 DEF Counted
<1>12. Loops'
  <2>1. \A t \in Slots : Life(t) \in {"active", "inactive"} => Life(t)' = Life(t)
    BY <1>1, <1>4 DEF Life
  <2> QED
    BY <1>1, <1>2, <2>1, LoopsStay
<1> QED
  BY <1>9, <1>10, <1>11, <1>12 DEF IInv

(* A new slot enters complex_slots_ only. *)
LEMMA SubscribeComplexInv ==
  ASSUME IInv, NEW s \in Slots, NEW wanted \in Interests, SubscribeComplex(s, wanted)
  PROVE  IInv'
<1> DEFINE new == [life |-> "active", kind |-> "complex", events |-> wanted, guard |-> "none"]
<1>1. /\ Life(s) = "unused" /\ slots' = [slots EXCEPT ![s] = new]
      /\ complex' = Append(complex, s)
      /\ UNCHANGED <<singles, cells, disconnects, frames, undefined>>
  BY DEF SubscribeComplex
<1>2. TypeOK /\ Lists /\ Counted /\ Loops
  BY DEF IInv
<1>3. slots \in [Slots -> Slot] /\ complex \in Seq(Slots) /\ new \in Slot
  BY <1>2, ConstantsAssumption DEF TypeOK, Slot, Kinds
<1>4. \A t \in Slots : slots'[t] = IF t = s THEN new ELSE slots[t]
  BY <1>1, <1>3
<1>5. Gone' = Gone /\ \A d \in Events : SingleOf(d)' = SingleOf(d)
  BY <1>1, <1>4 DEF Gone, SingleOf, Life
<1>6. Several' = Several \cup {s} /\ s \notin Several
  BY <1>1, <1>4 DEF Several, Life
<1>7. complex' \in Seq(Slots) /\ ToSet(complex') = Several'
  BY <1>1, <1>2, <1>3, <1>6, EndEntries DEF Lists
<1>8. Distinct(complex')
  BY <1>1, <1>2, <1>3, <1>6, AppendDistinct DEF Lists
<1>9. TypeOK'
  <2>1. slots' \in [Slots -> Slot]
    BY <1>1, <1>3
  <2> QED
    BY <1>1, <1>2, <1>7, <2>1 DEF TypeOK
<1>10. Lists'
  <2>1. \A t \in Slots : (Life(t) = "active" /\ slots[t].kind = "single" => \E d \in Events : slots[t].events = {d})'
    BY <1>2, <1>4 DEF Lists, Life
  <2> QED
    BY <1>1, <1>2, <1>5, <1>7, <1>8, <2>1 DEF Lists
<1>11. Counted'
  BY <1>1, <1>2, <1>5 DEF Counted
<1>12. Loops'
  <2>1. \A t \in Slots : Life(t) \in {"active", "inactive"} => Life(t)' = Life(t)
    BY <1>1, <1>4 DEF Life
  <2> QED
    BY <1>1, <1>2, <2>1, LoopsStay
<1> QED
  BY <1>9, <1>10, <1>11, <1>12 DEF IInv

(* A guard that dies leaves the slot listed: only a call skips it. *)
LEMMA ExpireGuardInv ==
  ASSUME IInv, NEW s \in Slots, ExpireGuard(s)
  PROVE  IInv'
<1>1. /\ slots' = [slots EXCEPT ![s].guard = "expired"]
      /\ UNCHANGED <<singles, complex, cells, disconnects, frames, undefined>>
  BY DEF ExpireGuard
<1>2. TypeOK /\ Lists /\ Counted /\ Loops /\ slots \in [Slots -> Slot]
  BY DEF IInv, TypeOK
<1>3. slots' \in [Slots -> Slot]
  BY <1>1, <1>2 DEF Slot
<1>4. \A t \in Slots : /\ Life(t)' = Life(t) /\ slots'[t].kind = slots[t].kind
                       /\ slots'[t].events = slots[t].events
  BY <1>1, <1>2 DEF Slot, Life
<1>5. Gone' = Gone /\ Several' = Several /\ \A d \in Events : SingleOf(d)' = SingleOf(d)
  BY <1>4 DEF Gone, Several, SingleOf
<1>6. TypeOK'
  BY <1>1, <1>2, <1>3 DEF TypeOK
<1>7. Lists'
  <2>1. \A t \in Slots : (Life(t) = "active" /\ slots[t].kind = "single" => \E d \in Events : slots[t].events = {d})'
    BY <1>2, <1>4 DEF Lists
  <2> QED
    BY <1>1, <1>2, <1>5, <2>1 DEF Lists
<1>8. Counted'
  BY <1>1, <1>2, <1>5 DEF Counted
<1>9. Loops'
  BY <1>1, <1>2, <1>4, LoopsStay
<1> QED
  BY <1>6, <1>7, <1>8, <1>9 DEF IInv

------------------------------------------------------------------------------
(* Disturbing the loops under way *)

(* What a disturbance does to the publishes under way: they are marked, nothing else. *)
LEMMA DisturbedIs ==
  ASSUME TypeOK
  PROVE  /\ Disturbed \in Seq(Frame) /\ Len(Disturbed) = Len(frames) /\ DOMAIN Disturbed = DOMAIN frames
         /\ \A i \in DOMAIN frames :
              /\ Disturbed[i].disturbed /\ Disturbed[i].at = frames[i].at
              /\ Disturbed[i].end = frames[i].end /\ Disturbed[i].storage = frames[i].storage
<1>1. frames \in Seq(Frame) /\ Len(frames) \in Nat /\ DOMAIN frames = 1 .. Len(frames)
  BY DEF TypeOK
<1>2. ASSUME NEW i \in DOMAIN frames
      PROVE  LET f == [frames[i] EXCEPT !.disturbed = TRUE, !.audience = {}, !.called = {}]
             IN  /\ f \in Frame /\ f.disturbed /\ f.at = frames[i].at
                 /\ f.end = frames[i].end /\ f.storage = frames[i].storage
  <2>1. PICK f : f = frames[i]
    OBVIOUS
  <2>2. f \in Frame
    BY <1>1, <1>2, <2>1
  <2>3. LET g == [f EXCEPT !.disturbed = TRUE, !.audience = {}, !.called = {}]
        IN  g \in Frame /\ g.disturbed /\ g.at = f.at /\ g.end = f.end /\ g.storage = f.storage
    BY <2>2 DEF Frame
  <2> QED
    BY <2>1, <2>3
<1>3. PICK d : d = Disturbed
  OBVIOUS
<1>4. /\ d \in [1 .. Len(frames) -> Frame]
      /\ \A i \in DOMAIN frames :
              /\ d[i].disturbed /\ d[i].at = frames[i].at
              /\ d[i].end = frames[i].end /\ d[i].storage = frames[i].storage
  BY <1>1, <1>2, <1>3 DEF Disturbed
<1>5. d \in Seq(Frame) /\ Len(d) = Len(frames) /\ DOMAIN d = DOMAIN frames
  BY <1>1, <1>4
<1> QED
  BY <1>3, <1>4, <1>5

(* Disconnecting *)
LEMMA DisconnectInv ==
  ASSUME IInv, NEW s \in Slots, Disconnect(s)
  PROVE  IInv'
<1>1. /\ Life(s) = "active" /\ disconnects' = disconnects + 1 /\ UNCHANGED <<cells, undefined>>
      /\ slots' = [t \in Slots |->
                 IF t = s \/ Life(t) = "inactive"
                 THEN [slots[t] EXCEPT !.life = IF MustCompact THEN "freed" ELSE "inactive"]
                 ELSE slots[t]]
      /\ frames' = IF MustCompact THEN Disturbed ELSE frames
  BY DEF Disconnect
<1>2. TypeOK /\ Lists /\ Counted /\ Loops
  BY DEF IInv
<1>3. slots \in [Slots -> Slot] /\ singles \in [Events -> Seq(Slots)] /\ complex \in Seq(Slots)
  BY <1>2 DEF TypeOK
<1>4. /\ slots' \in [Slots -> Slot]
      /\ \A t \in Slots : /\ slots'[t].kind = slots[t].kind /\ slots'[t].events = slots[t].events
                          /\ slots'[t].life = IF t = s \/ Life(t) = "inactive"
                                              THEN IF MustCompact THEN "freed" ELSE "inactive"
                                              ELSE Life(t)
  <2>1. ASSUME NEW t \in Slots, NEW l \in {"freed", "inactive"}
        PROVE  LET u == [slots[t] EXCEPT !.life = l]
               IN  u \in Slot /\ u.kind = slots[t].kind /\ u.events = slots[t].events /\ u.life = l
    BY <1>3 DEF Slot
  <2>2. PICK l \in {"freed", "inactive"} : l = IF MustCompact THEN "freed" ELSE "inactive"
    OBVIOUS
  <2>3. slots' = [t \in Slots |-> IF t = s \/ Life(t) = "inactive" THEN [slots[t] EXCEPT !.life = l] ELSE slots[t]]
    BY <1>1, <2>2
  <2>4. slots' \in [Slots -> Slot]
    BY <1>3, <2>1, <2>3
  <2>5. ASSUME NEW t \in Slots
        PROVE  /\ slots'[t].kind = slots[t].kind /\ slots'[t].events = slots[t].events
               /\ slots'[t].life = IF t = s \/ Life(t) = "inactive" THEN l ELSE Life(t)
    BY <2>1, <2>3 DEF Life
  <2> QED
    BY <2>2, <2>4, <2>5
<1>5. \A t \in Slots : Life(t)' = "active" <=> Life(t) = "active" /\ t # s
  BY <1>4 DEF Life
<1>6. /\ Several' = Several \ {s}
      /\ \A e \in Events : SingleOf(e)' = SingleOf(e) \ {s}
  BY <1>4, <1>5 DEF Several, SingleOf
<1>7. Lists'
  <2>1. \A t \in Slots : (Life(t) = "active" /\ slots[t].kind = "single" => \E e \in Events : slots[t].events = {e})'
    BY <1>2, <1>4, <1>5 DEF Lists
  <2>2. CASE slots[s].kind = "single"
    <3>1. /\ singles' = [e \in Events |-> IF e \in slots[s].events THEN Without(singles[e], s) ELSE singles[e]]
          /\ complex' = complex
      BY <2>2 DEF Disconnect
    <3>2. s \notin Several
      BY <2>2 DEF Several
    <3>3. ASSUME NEW e \in Events PROVE (Distinct(singles[e]) /\ ToSet(singles[e]) = SingleOf(e))'
      <4>1. PICK list : list = singles[e]
        OBVIOUS
      <4>2. list \in Seq(Slots) /\ Distinct(list) /\ ToSet(list) = SingleOf(e)
        BY <1>2, <1>3, <4>1 DEF Lists
      <4>3. CASE e \in slots[s].events
        <5>1. singles'[e] = Without(list, s)
          BY <3>1, <4>1, <4>3
        <5> QED
          BY <1>6, <4>2, <5>1, WithoutIs
      <4>4. CASE e \notin slots[s].events
        <5>1. singles'[e] = list /\ s \notin SingleOf(e)
          BY <3>1, <4>1, <4>4 DEF SingleOf
        <5> QED
          BY <1>6, <4>2, <5>1
      <4> QED
        BY <4>3, <4>4
    <3>4. (Distinct(complex) /\ ToSet(complex) = Several)'
      <4>1. Distinct(complex) /\ ToSet(complex) = Several
        BY <1>2 DEF Lists
      <4>2. Several' = Several
        BY <1>6, <3>2
      <4> QED
        BY <3>1, <4>1, <4>2
    <3> QED
      BY <2>1, <3>3, <3>4 DEF Lists
  <2>3. CASE slots[s].kind # "single"
    <3>1. singles' = singles /\ complex' = Without(complex, s)
      BY <2>3 DEF Disconnect
    <3>2. \A e \in Events : s \notin SingleOf(e)
      BY <2>3 DEF SingleOf
    <3>3. (Distinct(complex) /\ ToSet(complex) = Several)'
      BY <1>2, <1>3, <1>6, <3>1, WithoutIs DEF Lists
    <3>4. ASSUME NEW e \in Events PROVE (Distinct(singles[e]) /\ ToSet(singles[e]) = SingleOf(e))'
      <4>1. Distinct(singles[e]) /\ ToSet(singles[e]) = SingleOf(e)
        BY <1>2 DEF Lists
      <4>2. SingleOf(e)' = SingleOf(e)
        BY <1>6, <3>2
      <4> QED
        BY <3>1, <4>1, <4>2
    <3> QED
      BY <2>1, <3>3, <3>4 DEF Lists
  <2> QED
    BY <2>2, <2>3
<1>8. singles' \in [Events -> Seq(Slots)] /\ complex' \in Seq(Slots)
  <2>1. \A e \in Events : Without(singles[e], s) \in Seq(Slots)
    BY <1>3, WithoutIs
  <2>2. Without(complex, s) \in Seq(Slots)
    BY <1>3, WithoutIs
  <2> QED
    BY <1>3, <2>1, <2>2 DEF Disconnect
<1>9. Counted' /\ disconnects' \in 0 .. Cardinality(Slots)
  <2>1. Gone' = Gone \cup {s} /\ s \notin Gone /\ Gone \in SUBSET Slots /\ Gone' \in SUBSET Slots
    BY <1>1, <1>4 DEF Gone, Life
  <2>2. PICK before, after : before = Gone /\ after = Gone'
    OBVIOUS
  <2>3. IsFiniteSet(before) /\ after = before \cup {s} /\ s \notin before
    BY <2>1, <2>2, FiniteGone
  <2>4. Cardinality(after) = Cardinality(before) + 1
    BY <2>3, FS_AddElement
  <2>5. Cardinality(after) \in Nat /\ Cardinality(after) <= Cardinality(Slots) /\ Cardinality(Slots) \in Nat
    BY <2>1, <2>2, FiniteGone
  <2>6. disconnects' = Cardinality(after)
    BY <1>1, <1>2, <2>2, <2>4 DEF Counted
  <2> QED
    BY <2>2, <2>5, <2>6 DEF Counted
<1>10. CASE MustCompact
  <2>1. frames' = Disturbed
    BY <1>1, <1>10
  <2>2. TypeOK'
    <3>1. frames' \in Seq(Frame) /\ Len(frames') <= MaxDepth
      BY <1>2, <2>1, DisturbedIs DEF TypeOK
    <3>2. \A i \in DOMAIN frames' : frames'[i].at <= frames'[i].end + 1
      BY <1>2, <2>1, DisturbedIs DEF TypeOK
    <3> QED
      BY <1>1, <1>2, <1>4, <1>8, <1>9, <3>1, <3>2 DEF TypeOK
  <2>3. Loops'
    <3>1. \A i \in DOMAIN frames' :
            frames'[i].at >= 1 /\ frames'[i].end <= frames'[i].storage /\ frames'[i].disturbed
      BY <1>2, <2>1, DisturbedIs DEF Loops
    <3> QED
      BY <3>1 DEF Loops
  <2> QED
    BY <1>7, <1>9, <2>2, <2>3 DEF IInv
<1>11. CASE ~MustCompact
  <2>1. frames' = frames
    BY <1>1, <1>11
  <2>2. TypeOK'
    BY <1>1, <1>2, <1>4, <1>8, <1>9, <2>1 DEF TypeOK
  <2>3. Loops'
    <3>1. \A t \in Slots : Life(t) \in {"active", "inactive"} =>
           Life(t)' \in {"active", "inactive"} /\ (Life(t)' = "active" => Life(t) = "active")
      BY <1>4, <1>11 DEF Life
    <3> QED
      BY <1>1, <1>2, <2>1, <3>1, LoopsStay
  <2> QED
    BY <1>7, <1>9, <2>2, <2>3 DEF IInv
<1> QED
  BY <1>10, <1>11

------------------------------------------------------------------------------
(* Publishing *)

(* Two lists with nothing in common, one after the other. *)
LEMMA JoinDistinct ==
  ASSUME NEW S, NEW a \in Seq(S), NEW b \in Seq(S), Distinct(a), Distinct(b),
         ToSet(a) \cap ToSet(b) = {}
  PROVE  /\ a \o b \in Seq(S) /\ Distinct(a \o b) /\ ToSet(a \o b) = ToSet(a) \cup ToSet(b)
<1> DEFINE n == Len(a)
           k == Len(b)
<1>1. /\ n \in Nat /\ k \in Nat /\ DOMAIN a = 1 .. n /\ DOMAIN b = 1 .. k
      /\ a \o b \in Seq(S) /\ Len(a \o b) = n + k
      /\ \A i \in 1 .. n + k : (a \o b)[i] = IF i <= n THEN a[i] ELSE b[i - n]
  OBVIOUS
<1>2. PICK c : c = a \o b
  OBVIOUS
<1>3. c \in Seq(S) /\ DOMAIN c = 1 .. n + k
  BY <1>1, <1>2
<1> HIDE DEF n, k
<1>4. /\ \A i \in 1 .. n : i \in 1 .. n + k /\ c[i] = a[i]
      /\ \A i \in 1 .. k : n + i \in 1 .. n + k /\ c[n + i] = b[i]
      /\ \A i \in 1 .. n + k : i \in 1 .. n \/ (i - n \in 1 .. k /\ i = n + (i - n))
  <2>1. \A i \in 1 .. n : i \in 1 .. n + k /\ c[i] = a[i]
    BY <1>1, <1>2
  <2>2. \A i \in 1 .. k : n + i \in 1 .. n + k /\ ~(n + i <= n) /\ (n + i) - n = i
    BY <1>1
  <2>3. \A i \in 1 .. k : c[n + i] = b[i]
    BY <1>1, <1>2, <2>2
  <2>4. \A i \in 1 .. n + k : i \in 1 .. n \/ (i - n \in 1 .. k /\ i = n + (i - n))
    BY <1>1
  <2> QED
    BY <2>1, <2>2, <2>3, <2>4
<1>5. ToSet(c) = ToSet(a) \cup ToSet(b)
  <2>1. /\ ToSet(c) = {c[i] : i \in 1 .. n + k}
        /\ ToSet(a) = {a[i] : i \in 1 .. n} /\ ToSet(b) = {b[i] : i \in 1 .. k}
    BY <1>1, <1>3 DEF ToSet
  <2>2. ASSUME NEW x \in ToSet(c) PROVE x \in ToSet(a) \cup ToSet(b)
    <3>1. PICK i \in 1 .. n + k : x = c[i]
      BY <2>1
    <3>2. CASE i \in 1 .. n
      BY <1>4, <2>1, <3>1, <3>2
    <3>3. CASE i - n \in 1 .. k /\ i = n + (i - n)
      <4>1. PICK j \in 1 .. k : i = n + j
        BY <3>3
      <4> QED
        BY <1>4, <2>1, <3>1, <4>1
    <3> QED
      BY <1>4, <3>2, <3>3
  <2>3. ToSet(a) \subseteq ToSet(c)
    BY <1>4, <2>1
  <2>4. ToSet(b) \subseteq ToSet(c)
    BY <1>4, <2>1
  <2> QED
    BY <2>2, <2>3, <2>4
<1>6. ASSUME NEW i \in 1 .. n + k, NEW j \in 1 .. n + k, c[i] = c[j] PROVE i = j
  <2>1. CASE i \in 1 .. n /\ j \in 1 .. n
    BY <1>1, <1>4, <1>6, <2>1 DEF Distinct
  <2>2. CASE i - n \in 1 .. k /\ i = n + (i - n) /\ j - n \in 1 .. k /\ j = n + (j - n)
    <3>1. PICK x \in 1 .. k, y \in 1 .. k : x = i - n /\ y = j - n /\ i = n + x /\ j = n + y
      BY <2>2
    <3>2. b[x] = b[y]
      BY <1>4, <1>6, <3>1
    <3> QED
      BY <1>1, <3>1, <3>2 DEF Distinct
  <2>3. ASSUME NEW x \in 1 .. n, NEW y \in 1 .. k, c[x] = c[n + y] PROVE FALSE
    <3>1. a[x] \in ToSet(a) /\ b[y] \in ToSet(b) /\ a[x] = b[y]
      BY <1>1, <1>4, <2>3 DEF ToSet
    <3> QED
      BY <3>1
  <2>4. CASE i \in 1 .. n /\ j - n \in 1 .. k /\ j = n + (j - n)
    BY <1>6, <2>3, <2>4
  <2>5. CASE j \in 1 .. n /\ i - n \in 1 .. k /\ i = n + (i - n)
    BY <1>6, <2>3, <2>5
  <2> QED
    BY <1>4, <2>1, <2>2, <2>4, <2>5
<1> QED
  BY <1>2, <1>3, <1>5, <1>6 DEF Distinct

(* What publish collects is its audience, each slot once. *)
LEMMA CollectedIs ==
  ASSUME TypeOK, Lists, NEW e \in Events
  PROVE  /\ Collected(e) \in Seq(Slots) /\ Distinct(Collected(e))
         /\ ToSet(Collected(e)) = Audience(e)
<1>1. PICK one, several, a, b : /\ one = singles[e] /\ several = complex
                                /\ a = Only(one, Everyone) /\ b = Only(several, Audience(e))
  OBVIOUS
<1>2. /\ one \in Seq(Slots) /\ Distinct(one) /\ ToSet(one) = SingleOf(e)
      /\ several \in Seq(Slots) /\ Distinct(several) /\ ToSet(several) = Several
  BY <1>1 DEF TypeOK, Lists
<1>3. ToSet(one) = {one[k] : k \in 1 .. Len(one)} /\ ToSet(several) = {several[k] : k \in 1 .. Len(several)}
  BY <1>2 DEF ToSet
<1>4. a \in Seq(Slots) /\ Distinct(a) /\ ToSet(a) = SingleOf(e) \cap Everyone
  BY <1>1, <1>2, <1>3, OnlyIs DEF OnlyWanted
<1>5. b \in Seq(Slots) /\ Distinct(b) /\ ToSet(b) = Several \cap Audience(e)
  BY <1>1, <1>2, <1>3, OnlyIs DEF OnlyWanted
<1>6. \A t \in Slots : slots[t].kind \in {"single", "complex"}
  BY DEF TypeOK, Slot, Kinds
<1>7. ToSet(a) \cap ToSet(b) = {} /\ ToSet(a) \cup ToSet(b) = Audience(e)
  <2>1. SingleOf(e) \cap Several = {}
    BY DEF SingleOf, Several
  <2>2. Audience(e) \subseteq SingleOf(e) \cup Several
    BY <1>6 DEF SingleOf, Several, Everyone, Audience, Listening
  <2>3. SingleOf(e) \cap Everyone \subseteq Audience(e)
    BY DEF SingleOf, Everyone, Audience
  <2>4. Audience(e) \subseteq Everyone
    BY DEF Audience
  <2> QED
    BY <1>4, <1>5, <2>1, <2>2, <2>3, <2>4
<1>8. Collected(e) = a \o b
  BY <1>1 DEF Collected
<1>9. PICK c : c = a \o b
  OBVIOUS
<1>10. c \in Seq(Slots) /\ Distinct(c) /\ ToSet(c) = Audience(e)
  BY <1>4, <1>5, <1>7, <1>9, JoinDistinct
<1> QED
  BY <1>8, <1>9, <1>10

(* clear and push_back: the hits come first in the storage, whatever lies behind. *)
LEMMA StoredIs ==
  ASSUME TypeOK, NEW hits \in Seq(Slots), NEW new \in Stored(hits)
  PROVE  /\ new \in Seq(Slots \cup {None}) /\ Len(hits) <= Len(new)
         /\ \A i \in 1 .. Len(hits) : new[i] = hits[i]
<1> DEFINE S == Slots \cup {None}
<1>1. hits \in Seq(S) /\ cells \in Seq(S) /\ Len(hits) \in Nat /\ Len(cells) \in Nat
  BY DEF TypeOK
<1> HIDE DEF S
<1>2. ASSUME NEW rest \in Seq(S), new = hits \o rest
      PROVE  /\ new \in Seq(S) /\ Len(hits) <= Len(new)
             /\ \A i \in 1 .. Len(hits) : new[i] = hits[i]
  BY <1>1, <1>2
<1>3. CASE Len(hits) <= Len(cells)
  <2>1. new = hits \o SubSeq(cells, Len(hits) + 1, Len(cells))
    BY <1>3 DEF Stored
  <2>2. SubSeq(cells, Len(hits) + 1, Len(cells)) \in Seq(S)
    BY <1>1, <1>3
  <2> QED
    BY <1>2, <2>1, <2>2 DEF S
<1>4. CASE ~(Len(hits) <= Len(cells))
  <2>1. PICK n \in {0, Len(hits)} : new = hits \o [i \in 1 .. n |-> None]
    BY <1>4 DEF Stored
  <2>2. [i \in 1 .. n |-> None] \in Seq(S)
    BY <1>1 DEF S
  <2> QED
    BY <1>2, <2>1, <2>2 DEF S
<1> QED
  BY <1>3, <1>4

(* A publish collects its audience once each, and disturbs those outside it. *)
LEMMA PublishInv ==
  ASSUME IInv, NEW e \in Events, Publish(e)
  PROVE  IInv'
<1>1. TypeOK /\ Lists /\ Counted /\ Loops
  BY DEF IInv
<1>2. PICK hits : hits = Collected(e)
  OBVIOUS
<1> DEFINE f == [event |-> e, at |-> 1, end |-> Len(hits), storage |-> Len(cells'), running |-> None,
                 audience |-> Audience(e), called |-> {}, disturbed |-> FALSE]
<1>3. /\ ~undefined /\ Len(frames) < MaxDepth
      /\ cells' \in Stored(hits) /\ frames' = Append(Disturbed, f)
      /\ UNCHANGED <<slots, singles, complex, disconnects, undefined>>
  BY <1>2 DEF Publish, UserCode
<1>4. hits \in Seq(Slots) /\ Distinct(hits) /\ ToSet(hits) = Audience(e) /\ Len(hits) \in Nat
  BY <1>1, <1>2, CollectedIs
<1>5. /\ cells' \in Seq(Slots \cup {None}) /\ Len(hits) <= Len(cells') /\ Len(cells') \in Nat
      /\ \A i \in 1 .. Len(hits) : cells'[i] = hits[i]
  BY <1>1, <1>3, <1>4, StoredIs
<1>6. f \in Frame
  BY <1>4, <1>5 DEF Frame, Audience, Everyone
<1>7. PICK d, g : d = Disturbed /\ g = f
  OBVIOUS
<1>8. /\ d \in Seq(Frame) /\ Len(d) = Len(frames) /\ DOMAIN d = DOMAIN frames
      /\ \A i \in DOMAIN frames :
           /\ d[i].disturbed /\ d[i].at = frames[i].at
           /\ d[i].end = frames[i].end /\ d[i].storage = frames[i].storage
  BY <1>1, <1>7, DisturbedIs
<1>9. /\ g \in Frame /\ ~g.disturbed /\ g.at = 1 /\ g.end = Len(hits) /\ g.storage = Len(cells')
      /\ g.audience = Audience(e) /\ g.called = {}
  BY <1>6, <1>7
<1>10. /\ Len(frames) \in Nat /\ DOMAIN frames = 1 .. Len(frames)
       /\ frames' = Append(d, g) /\ frames' \in Seq(Frame)
       /\ Len(frames') = Len(frames) + 1 /\ DOMAIN frames' = 1 .. Len(frames) + 1
       /\ frames'[Len(frames) + 1] = g
       /\ \A i \in DOMAIN frames : frames'[i] = d[i]
  <2> HIDE DEF f
  <2>1. Len(frames) \in Nat /\ DOMAIN frames = 1 .. Len(frames)
    BY <1>1 DEF TypeOK
  <2> QED
    BY <1>3, <1>7, <1>8, <1>9, <2>1
<1> HIDE DEF f
<1>11. \A i \in 1 .. Len(frames) + 1 : i \in DOMAIN frames \/ i = Len(frames) + 1
  BY <1>10
<1>12. Undisturbed(g)'
  <2>1. \A t \in Slots : Life(t)' = Life(t)
    BY <1>3 DEF Life
  <2>2. \A t \in g.audience : Life(t) = "active" /\ t \in Slots
    BY <1>9 DEF Audience, Everyone, Listening
  <2>3. g.audience = {cells'[i] : i \in 1 .. g.end}
    BY <1>4, <1>5, <1>9 DEF ToSet
  <2>4. \A i, j \in 1 .. g.end : cells'[i] = cells'[j] => i = j
    BY <1>4, <1>5, <1>9 DEF Distinct
  <2>5. g.storage = Len(cells') /\ g.at \in 1 .. g.end + 1 /\ g.end \in 0 .. Len(cells')
    BY <1>4, <1>5, <1>9
  <2>6. 1 .. g.at - 1 = {}
    BY <1>9
  <2> QED
    BY <1>3, <1>9, <2>1, <2>2, <2>3, <2>4, <2>5, <2>6 DEF Undisturbed
<1>13. TypeOK'
  <2>1. ASSUME NEW i \in DOMAIN frames' PROVE frames'[i].at <= frames'[i].end + 1
    <3>1. CASE i \in DOMAIN frames
      <4>1. frames[i].at <= frames[i].end + 1
        BY <1>1, <3>1 DEF TypeOK
      <4>2. frames'[i] = d[i] /\ d[i].at = frames[i].at /\ d[i].end = frames[i].end
        BY <1>8, <1>10, <3>1
      <4> QED
        BY <4>1, <4>2
    <3>2. CASE i = Len(frames) + 1
      BY <1>4, <1>9, <1>10, <3>2
    <3> QED
      BY <1>10, <1>11, <2>1, <3>1, <3>2
  <2>2. Len(frames') <= MaxDepth
    BY <1>3, <1>10, ConstantsAssumption
  <2> QED
    BY <1>1, <1>3, <1>5, <1>10, <2>1, <2>2 DEF TypeOK
<1>14. Lists'
  BY <1>1, <1>3 DEF Lists, SingleOf, Several, Life
<1>15. Counted'
  BY <1>1, <1>3 DEF Counted, Gone, Life
<1>16. Loops'
  <2>1. ASSUME NEW i \in DOMAIN frames'
        PROVE  /\ frames'[i].at >= 1 /\ frames'[i].end <= frames'[i].storage
               /\ ~frames'[i].disturbed => i = Len(frames') /\ Undisturbed(frames[i])'
    <3>1. CASE i \in DOMAIN frames
      <4>1. frames'[i] = d[i] /\ d[i].disturbed /\ d[i].at >= 1 /\ d[i].end <= d[i].storage
        BY <1>1, <1>8, <1>10, <3>1 DEF Loops
      <4> QED
        BY <4>1
    <3>2. CASE i = Len(frames) + 1
      <4>1. frames'[i] = g
        BY <1>10, <3>2
      <4>2. g.at >= 1 /\ g.end <= g.storage
        BY <1>5, <1>9
      <4>3. i = Len(frames')
        BY <1>10, <3>2
      <4>4. Undisturbed(frames[i])'
        BY <1>12, <4>1
      <4> QED
        BY <4>1, <4>2, <4>3, <4>4
    <3> QED
      BY <1>10, <1>11, <2>1, <3>1, <3>2
  <2> QED
    BY <2>1 DEF Loops
<1> QED
  BY <1>13, <1>14, <1>15, <1>16 DEF IInv

------------------------------------------------------------------------------
(* The turns of the innermost loop *)

(* The innermost publish. *)
LEMMA TopIs ==
  ASSUME TypeOK, frames # <<>>
  PROVE  /\ Len(frames) \in Nat \ {0} /\ DOMAIN frames = 1 .. Len(frames)
         /\ Len(frames) \in DOMAIN frames /\ Top \in Frame /\ Top = frames[Len(frames)]
<1>1. frames \in Seq(Frame)
  BY DEF TypeOK
<1>2. Len(frames) \in Nat \ {0} /\ DOMAIN frames = 1 .. Len(frames)
  BY <1>1, EmptySeq
<1>3. Len(frames) \in DOMAIN frames
  BY <1>2
<1> QED
  BY <1>1, <1>2, <1>3 DEF Top

(* A turn that only moves the innermost loop on keeps the invariant. *)
LEMMA TurnInv ==
  ASSUME IInv, frames # <<>>, NEW f \in Frame, frames' = SetTop(f),
         UNCHANGED <<slots, singles, complex, cells, disconnects, undefined>>,
         f.at \in 1 .. f.end + 1, f.end <= f.storage, ~f.disturbed => Undisturbed(f)
  PROVE  IInv'
<1>1. TypeOK /\ Lists /\ Counted /\ Loops
  BY DEF IInv
<1>2. frames \in Seq(Frame) /\ Len(frames) \in Nat \ {0} /\ DOMAIN frames = 1 .. Len(frames)
  BY <1>1, TopIs DEF TypeOK
<1>3. /\ frames' \in Seq(Frame) /\ Len(frames') = Len(frames) /\ DOMAIN frames' = DOMAIN frames
      /\ \A i \in DOMAIN frames : frames'[i] = IF i = Len(frames) THEN f ELSE frames[i]
  <2>1. frames' = [frames EXCEPT ![Len(frames)] = f]
    BY DEF SetTop
  <2> QED
    BY <1>2, <2>1
<1>4. ~f.disturbed => Undisturbed(f)'
  BY DEF Undisturbed, Life
<1>5. TypeOK'
  <2>1. \A i \in DOMAIN frames' : frames'[i].at <= frames'[i].end + 1
    BY <1>1, <1>3 DEF TypeOK
  <2>2. Len(frames') <= MaxDepth
    BY <1>1, <1>3 DEF TypeOK
  <2> QED
    BY <1>1, <1>3, <2>1, <2>2 DEF TypeOK
<1>6. Lists'
  BY <1>1 DEF Lists, SingleOf, Several, Life
<1>7. Counted'
  BY <1>1 DEF Counted, Gone, Life
<1>8. Loops'
  <2>1. ASSUME NEW i \in DOMAIN frames'
        PROVE  /\ frames'[i].at >= 1 /\ frames'[i].end <= frames'[i].storage
               /\ ~frames'[i].disturbed => i = Len(frames') /\ Undisturbed(frames[i])'
    <3>1. CASE i = Len(frames)
      <4>1. frames'[i] = f /\ f.at >= 1
        BY <1>3, <2>1, <3>1
      <4>2. ~f.disturbed => Undisturbed(frames[i])'
        BY <1>4, <4>1
      <4> QED
        BY <1>3, <3>1, <4>1, <4>2
    <3>2. CASE i # Len(frames)
      <4>1. frames'[i] = frames[i] /\ i \in DOMAIN frames
        BY <1>3, <2>1, <3>2
      <4>2. frames[i].disturbed /\ frames[i].at >= 1 /\ frames[i].end <= frames[i].storage
        BY <1>1, <3>2, <4>1 DEF Loops
      <4> QED
        BY <4>1, <4>2
    <3> QED
      BY <3>1, <3>2
  <2> QED
    BY <2>1 DEF Loops
<1> QED
  BY <1>5, <1>6, <1>7, <1>8 DEF IInv

(* The slot an undisturbed loop stands before is one of its audience, not freed. *)
LEMMA StandsBefore ==
  ASSUME IInv, Looping, Top.at <= Top.end, ~Top.disturbed
  PROVE  /\ Undisturbed(Top) /\ Top.storage = Len(cells)
         /\ cells[Top.at] \in Top.audience /\ cells[Top.at] \in Slots
         /\ Life(cells[Top.at]) # "freed"
<1>1. TypeOK /\ Loops /\ frames # <<>>
  BY DEF IInv, Looping
<1>2. Top \in Frame /\ Undisturbed(Top)
  BY <1>1, TopIs DEF Loops
<1>3. PICK f : f = Top
  OBVIOUS
<1>4. f.at \in 1 .. f.end /\ cells[f.at] \in f.audience
  BY <1>2, <1>3 DEF Undisturbed, Frame
<1>5. f.audience \subseteq Slots
  BY <1>2, <1>3 DEF Frame
<1> QED
  BY <1>2, <1>3, <1>4, <1>5 DEF Undisturbed

(* One turn of the loop calls the next slot, or passes over it. *)
LEMMA DispatchInv == IInv /\ DispatchNext => IInv'
<1> SUFFICES ASSUME IInv, DispatchNext PROVE IInv'
  OBVIOUS
<1>1. TypeOK /\ Lists /\ Counted /\ Loops /\ Looping /\ frames # <<>> /\ Top.at <= Top.end
  BY DEF IInv, DispatchNext, Looping
<1>2. UNCHANGED <<slots, singles, complex, cells, disconnects>>
  BY DEF DispatchNext
<1>3. CASE Top.storage # Len(cells) \/ Life(cells[Top.at]) = "freed"
  <2>1. undefined' = TRUE /\ UNCHANGED frames
    BY <1>3 DEF DispatchNext
  <2>2. Top.disturbed
    BY <1>1, <1>3, StandsBefore
  <2>3. \A i \in DOMAIN frames : frames[i].disturbed
    BY <1>1, <2>2, TopIs DEF Loops
  <2>4. Loops'
    BY <1>1, <2>1, <2>3 DEF Loops
  <2>5. TypeOK'
    BY <1>1, <1>2, <2>1 DEF TypeOK
  <2>6. Lists'
    BY <1>1, <1>2 DEF Lists, SingleOf, Several, Life
  <2>7. Counted'
    BY <1>1, <1>2 DEF Counted, Gone, Life
  <2> QED
    BY <2>4, <2>5, <2>6, <2>7 DEF IInv
<1>4. CASE ~(Top.storage # Len(cells) \/ Life(cells[Top.at]) = "freed")
  <2>1. PICK top, s : top = Top /\ s = cells[Top.at]
    OBVIOUS
  <2>2. /\ top \in Frame /\ top.at \in 1 .. top.end /\ top.end <= top.storage /\ top.storage = Len(cells)
        /\ top.at \in Nat /\ top.end \in Nat
    BY <1>1, <1>4, <2>1, TopIs DEF Loops, Frame
  <2>3. s \in Slots \cup {None}
    <3>1. cells \in Seq(Slots \cup {None}) /\ Len(cells) \in Nat
      BY <1>1 DEF TypeOK
    <3>2. top.at \in 1 .. Len(cells)
      BY <2>2, <3>1
    <3> QED
      BY <2>1, <3>1, <3>2
  <2>4. ~top.disturbed => Undisturbed(top) /\ s \in top.audience /\ s \in Slots
    BY <1>1, <2>1, StandsBefore
  <2> DEFINE called == IF top.disturbed THEN top.called ELSE top.called \cup {s}
             on == [top EXCEPT !.at = @ + 1]
             f == IF HasHandler(s) THEN [on EXCEPT !.running = s, !.called = called] ELSE on
  <2>5. frames' = SetTop(f) /\ UNCHANGED undefined
    BY <1>4, <2>1 DEF DispatchNext
  <2>6. /\ f \in Frame /\ f.at = top.at + 1 /\ f.end = top.end /\ f.storage = top.storage
        /\ f.audience = top.audience /\ f.disturbed = top.disturbed
        /\ f.called = IF HasHandler(s) THEN called ELSE top.called
    <3>1. called \in SUBSET Slots
      BY <2>2, <2>4 DEF Frame
    <3>2. PICK c : c = called
      OBVIOUS
    <3> HIDE DEF called
    <3>3. CASE HasHandler(s)
      <4>1. f = [event |-> top.event, at |-> top.at + 1, end |-> top.end, storage |-> top.storage,
                 running |-> s, audience |-> top.audience, called |-> c, disturbed |-> top.disturbed]
        BY <2>2, <3>2, <3>3 DEF Frame
      <4> HIDE DEF f
      <4> QED
        BY <2>2, <2>3, <3>1, <3>2, <3>3, <4>1 DEF Frame
    <3>4. CASE ~HasHandler(s)
      <4>1. f = [event |-> top.event, at |-> top.at + 1, end |-> top.end, storage |-> top.storage,
                 running |-> top.running, audience |-> top.audience, called |-> top.called,
                 disturbed |-> top.disturbed]
        BY <2>2, <3>4 DEF Frame
      <4> HIDE DEF f
      <4> QED
        BY <2>2, <3>4, <4>1 DEF Frame
    <3> QED
      BY <3>3, <3>4
  <2> HIDE DEF f
  <2>7. f.at \in 1 .. f.end + 1 /\ f.end <= f.storage
    BY <2>2, <2>6
  <2>8. ~f.disturbed => Undisturbed(f)
    <3> SUFFICES ASSUME ~f.disturbed PROVE Undisturbed(f)
      OBVIOUS
    <3>1. Undisturbed(top) /\ s \in top.audience /\ cells[top.at] = s
      BY <2>1, <2>4, <2>6
    <3>2. f.at - 1 = top.at /\ 1 .. top.at = (1 .. top.at - 1) \cup {top.at}
      BY <2>2, <2>6
    <3>3. f.called \subseteq {cells[i] : i \in 1 .. f.at - 1}
      BY <2>6, <3>1, <3>2 DEF Undisturbed
    <3>4. \A i \in 1 .. f.at - 1 : Life(cells[i]) = "active" => cells[i] \in f.called
      BY <2>6, <3>1, <3>2 DEF Undisturbed, HasHandler
    <3> QED
      BY <2>6, <2>7, <3>1, <3>3, <3>4 DEF Undisturbed
  <2> QED
    BY <1>1, <1>2, <2>5, <2>6, <2>7, <2>8, TurnInv
<1> QED
  BY <1>3, <1>4

(* After a handler, the loop goes on where it was. *)
LEMMA HandlerReturnsInv == IInv /\ HandlerReturns => IInv'
<1> SUFFICES ASSUME IInv, HandlerReturns PROVE IInv'
  OBVIOUS
<1>1. TypeOK /\ Loops /\ frames # <<>>
  BY DEF IInv, HandlerReturns, InHandler
<1>2. PICK top : top = Top
  OBVIOUS
<1>3. /\ top \in Frame /\ top.at >= 1 /\ top.at <= top.end + 1 /\ top.end <= top.storage
      /\ ~top.disturbed => Undisturbed(top)
  BY <1>1, <1>2, TopIs DEF Loops, TypeOK
<1> DEFINE f == [top EXCEPT !.running = None]
<1>4. f = [event |-> top.event, at |-> top.at, end |-> top.end, storage |-> top.storage,
           running |-> None, audience |-> top.audience, called |-> top.called, disturbed |-> top.disturbed]
  BY <1>3 DEF Frame
<1>5. frames' = SetTop(f) /\ UNCHANGED <<slots, singles, complex, cells, disconnects, undefined>>
  BY <1>2 DEF HandlerReturns
<1> HIDE DEF f
<1>6. f \in Frame /\ f.at \in 1 .. f.end + 1 /\ f.end <= f.storage
  BY <1>3, <1>4 DEF Frame
<1>7. ~f.disturbed => Undisturbed(f)
  BY <1>3, <1>4 DEF Undisturbed
<1> QED
  BY <1>1, <1>5, <1>6, <1>7, TurnInv

(* The outer publish finds its list as it left it, or is marked. *)
LEMMA PublishReturnsInv == IInv /\ PublishReturns => IInv'
<1> SUFFICES ASSUME IInv, PublishReturns PROVE IInv'
  OBVIOUS
<1>1. TypeOK /\ Lists /\ Counted /\ Loops /\ frames # <<>>
  BY DEF IInv, PublishReturns, Looping
<1>2. frames' = Front(frames) /\ UNCHANGED <<slots, singles, complex, cells, disconnects, undefined>>
  BY DEF PublishReturns
<1>3. frames \in Seq(Frame) /\ Len(frames) \in Nat \ {0} /\ DOMAIN frames = 1 .. Len(frames)
  BY <1>1, TopIs DEF TypeOK
<1>4. /\ frames' \in Seq(Frame) /\ Len(frames') = Len(frames) - 1 /\ DOMAIN frames' = 1 .. Len(frames) - 1
      /\ \A i \in 1 .. Len(frames) - 1 : i \in DOMAIN frames /\ i # Len(frames) /\ frames'[i] = frames[i]
  <2>1. PICK t, n : t = frames /\ n = Len(frames) - 1
    OBVIOUS
  <2>2. t \in Seq(Frame) /\ n \in Nat /\ Len(t) = n + 1 /\ DOMAIN t = 1 .. n + 1
    BY <1>3, <2>1
  <2>3. frames' = SubSeq(t, 1, n)
    BY <1>2, <2>1 DEF Front
  <2>4. \A i \in 1 .. n : i \in 1 .. n + 1 /\ t[i] \in Frame
    BY <2>2
  <2>5. SubSeq(t, 1, n) = [i \in 1 .. n |-> t[i]]
    BY <2>2
  <2>6. SubSeq(t, 1, n) \in [1 .. n -> Frame]
    BY <2>4, <2>5
  <2>7. SubSeq(t, 1, n) \in Seq(Frame) /\ Len(SubSeq(t, 1, n)) = n /\ DOMAIN SubSeq(t, 1, n) = 1 .. n
    BY <2>2, <2>6
  <2>8. \A i \in 1 .. n : i \in DOMAIN t /\ i # Len(t) /\ SubSeq(t, 1, n)[i] = t[i]
    BY <2>2, <2>5
  <2> QED
    BY <2>1, <2>3, <2>7, <2>8
<1>5. \A i \in DOMAIN frames' :
        /\ frames'[i].disturbed /\ frames'[i].at >= 1 /\ frames'[i].end <= frames'[i].storage
        /\ frames'[i].at <= frames'[i].end + 1
  BY <1>1, <1>4 DEF Loops, TypeOK
<1>6. TypeOK'
  <2>1. Len(frames') <= MaxDepth
    <3>1. PICK n : n = Len(frames)
      OBVIOUS
    <3>2. n \in Nat /\ n <= MaxDepth /\ Len(frames') = n - 1 /\ MaxDepth \in Nat
      BY <1>1, <1>3, <1>4, <3>1, ConstantsAssumption DEF TypeOK
    <3> QED
      BY <3>2
  <2> QED
    BY <1>1, <1>2, <1>4, <1>5, <2>1 DEF TypeOK
<1>7. Loops'
  BY <1>5 DEF Loops
<1>8. Lists'
  BY <1>1, <1>2 DEF Lists, SingleOf, Several, Life
<1>9. Counted'
  BY <1>1, <1>2 DEF Counted, Gone, Life
<1> QED
  BY <1>6, <1>7, <1>8, <1>9 DEF IInv

------------------------------------------------------------------------------
LEMMA Step == IInv /\ [Next]_vars => IInv'
<1> SUFFICES ASSUME IInv, [Next]_vars PROVE IInv'
  OBVIOUS
<1>1. CASE Subscribe
  BY <1>1, SubscribeSingleInv, SubscribeComplexInv DEF Subscribe
<1>2. CASE \E s \in Slots : ExpireGuard(s) \/ Disconnect(s)
  BY <1>2, ExpireGuardInv, DisconnectInv
<1>3. CASE \E e \in Events : Publish(e)
  BY <1>3, PublishInv
<1>4. CASE DispatchNext
  BY <1>4, DispatchInv
<1>5. CASE HandlerReturns
  BY <1>5, HandlerReturnsInv
<1>6. CASE PublishReturns
  BY <1>6, PublishReturnsInv
<1>7. CASE UNCHANGED vars
  <2>1. UNCHANGED <<slots, singles, complex, cells, disconnects, frames, undefined>>
    BY <1>7 DEF vars
  <2>2. TypeOK'
    BY <2>1 DEF IInv, TypeOK
  <2>3. Lists'
    BY <2>1 DEF IInv, Lists, SingleOf, Several, Life
  <2>4. Counted'
    BY <2>1 DEF IInv, Counted, Gone, Life
  <2>5. Loops'
    BY <2>1 DEF IInv, Loops, Undisturbed, Life
  <2> QED
    BY <2>2, <2>3, <2>4, <2>5 DEF IInv
<1> QED
  BY <1>1, <1>2, <1>3, <1>4, <1>5, <1>6, <1>7 DEF Next

LEMMA Always == Spec => []IInv
<1>1. IInv /\ [Next]_vars => IInv'
  BY Step
<1> QED
  BY Start, <1>1, PTL DEF Spec

(* The bus keeps its types whatever the handlers do, and never counts more
   disconnections than there are slots. *)
THEOREM Typed == Spec => []TypeOK
<1>1. IInv => TypeOK
  BY DEF IInv
<1> QED
  BY Always, <1>1, PTL

------------------------------------------------------------------------------
(* What is in a distinct list is there at one place. *)
LEMMA ListedOnce ==
  ASSUME NEW S, NEW list \in Seq(S), Distinct(list), NEW s
  PROVE  /\ s \notin ToSet(list) => {i \in DOMAIN list : list[i] = s} = {}
         /\ s \in ToSet(list) => \E k : {i \in DOMAIN list : list[i] = s} = {k}
<1>1. s \notin ToSet(list) => {i \in DOMAIN list : list[i] = s} = {}
  BY DEF ToSet
<1>2. ASSUME s \in ToSet(list) PROVE \E k : {i \in DOMAIN list : list[i] = s} = {k}
  <2>1. PICK k \in DOMAIN list : list[k] = s
    BY <1>2 DEF ToSet
  <2>2. {i \in DOMAIN list : list[i] = s} = {k}
    BY <2>1 DEF Distinct
  <2> QED
    BY <2>2
<1> QED
  BY <1>1, <1>2

(* The two indexes agree with the slots: every connected slot is listed once,
   where publish looks for it, and no other, however subscriptions come and go
   inside the handlers of a publish. *)
THEOREM IndexRight == Spec => []IndexAgrees
<1>1. IInv => IndexAgrees
  <2> SUFFICES ASSUME IInv, NEW s \in Slots
               PROVE IF Life(s) # "active" THEN Entries(s) = {} /\ ComplexEntries(s) = {}
                     ELSE IF slots[s].kind = "single"
                     THEN /\ ComplexEntries(s) = {} /\ Cardinality(Entries(s)) = 1
                          /\ \A entry \in Entries(s) : entry[1] \in slots[s].events
                     ELSE Entries(s) = {} /\ Cardinality(ComplexEntries(s)) = 1
    BY DEF IndexAgrees
  <2>1. TypeOK /\ Lists
    BY DEF IInv
  <2> DEFINE At(e) == {j \in DOMAIN singles[e] : singles[e][j] = s}
  <2>2. ASSUME NEW e \in Events
        PROVE  /\ s \notin SingleOf(e) => At(e) = {}
               /\ s \in SingleOf(e) => \E k : At(e) = {k}
    <3>1. PICK list : list = singles[e]
      OBVIOUS
    <3>2. list \in Seq(Slots) /\ Distinct(list) /\ ToSet(list) = SingleOf(e)
      BY <2>1, <3>1 DEF TypeOK, Lists
    <3>3. /\ s \notin ToSet(list) => {i \in DOMAIN list : list[i] = s} = {}
          /\ s \in ToSet(list) => \E k : {i \in DOMAIN list : list[i] = s} = {k}
      BY <3>2, ListedOnce
    <3> QED
      BY <3>1, <3>2, <3>3
  <2>3. /\ s \notin Several => ComplexEntries(s) = {}
        /\ s \in Several => \E k : ComplexEntries(s) = {k}
    <3>1. PICK list : list = complex
      OBVIOUS
    <3>2. list \in Seq(Slots) /\ Distinct(list) /\ ToSet(list) = Several
      BY <2>1, <3>1 DEF TypeOK, Lists
    <3>3. /\ s \notin ToSet(list) => {i \in DOMAIN list : list[i] = s} = {}
          /\ s \in ToSet(list) => \E k : {i \in DOMAIN list : list[i] = s} = {k}
      BY <3>2, ListedOnce
    <3> QED
      BY <3>1, <3>2, <3>3 DEF ComplexEntries
  <2>4. Entries(s) = UNION {{<<e, i>> : i \in At(e)} : e \in Events}
    BY DEF Entries
  <2>5. (\A e \in Events : s \notin SingleOf(e)) => Entries(s) = {}
    <3> SUFFICES ASSUME \A e \in Events : s \notin SingleOf(e) PROVE Entries(s) = {}
      OBVIOUS
    <3>1. \A e \in Events : At(e) = {}
      BY <2>2
    <3> HIDE DEF At
    <3> QED
      BY <2>4, <3>1
  <2>6. CASE Life(s) # "active"
    <3>1. s \notin Several /\ \A e \in Events : s \notin SingleOf(e)
      BY <2>6 DEF Several, SingleOf
    <3> QED
      BY <2>3, <2>5, <2>6, <3>1
  <2>7. CASE Life(s) = "active" /\ slots[s].kind = "single"
    <3>1. PICK d \in Events : slots[s].events = {d}
      BY <2>1, <2>7 DEF Lists
    <3>2. s \in SingleOf(d) /\ \A e \in Events \ {d} : s \notin SingleOf(e)
      BY <2>7, <3>1 DEF SingleOf
    <3>3. PICK k : At(d) = {k}
      BY <2>2, <3>2
    <3>4. \A e \in Events \ {d} : At(e) = {}
      BY <2>2, <3>2
    <3>5. Entries(s) = {<<d, k>>}
      <4> HIDE DEF At
      <4> QED
        BY <2>4, <3>3, <3>4
    <3>6. Cardinality({<<d, k>>}) = 1
      BY FS_Singleton
    <3>7. s \notin Several
      BY <2>7 DEF Several
    <3>8. \A entry \in Entries(s) : entry[1] \in slots[s].events
      BY <3>1, <3>5
    <3> QED
      BY <2>3, <2>7, <3>5, <3>6, <3>7, <3>8
  <2>8. CASE Life(s) = "active" /\ slots[s].kind # "single"
    <3>1. s \in Several /\ \A e \in Events : s \notin SingleOf(e)
      BY <2>1, <2>8 DEF Several, SingleOf, TypeOK, Slot, Kinds
    <3>2. PICK k : ComplexEntries(s) = {k}
      BY <2>3, <3>1
    <3>3. Cardinality({k}) = 1
      BY FS_Singleton
    <3> QED
      BY <2>5, <2>8, <3>1, <3>2, <3>3
  <2> QED
    BY <2>6, <2>7, <2>8
<1> QED
  BY Always, <1>1, PTL

(* A publish that no nested publish and no compaction disturbs calls those of
   its subscribers that stay connected, each once, and nobody else. *)
THEOREM Reaches == Spec => []ReachesItsAudience
<1>1. IInv => ReachesItsAudience
  <2> SUFFICES ASSUME IInv, NEW i \in DOMAIN frames, ~frames[i].disturbed
               PROVE  LET f == frames[i]
                      IN  /\ ~undefined
                          /\ f.called \subseteq f.audience
                          /\ f.at > f.end => {s \in f.audience : Life(s) = "active"} \subseteq f.called
                          /\ f.at <= f.end => cells[f.at] \notin f.called
    BY DEF ReachesItsAudience
  <2>1. PICK f : f = frames[i]
    OBVIOUS
  <2>2. f \in Frame /\ Undisturbed(f)
    BY <2>1 DEF IInv, TypeOK, Loops
  <2>3. /\ ~undefined /\ f.at \in 1 .. f.end + 1 /\ f.end \in Nat
        /\ f.audience = {cells[k] : k \in 1 .. f.end}
        /\ \A k, l \in 1 .. f.end : cells[k] = cells[l] => k = l
        /\ f.called \subseteq {cells[k] : k \in 1 .. f.at - 1}
        /\ \A k \in 1 .. f.at - 1 : Life(cells[k]) = "active" => cells[k] \in f.called
    BY <2>2 DEF Undisturbed, Frame
  <2>4. f.called \subseteq f.audience
    <3>1. \A k \in 1 .. f.at - 1 : k \in 1 .. f.end
      BY <2>3
    <3> QED
      BY <2>3, <3>1
  <2>5. ASSUME f.at > f.end PROVE {s \in f.audience : Life(s) = "active"} \subseteq f.called
    <3>1. f.at - 1 = f.end
      BY <2>3, <2>5
    <3> QED
      BY <2>3, <3>1
  <2>6. ASSUME f.at <= f.end PROVE cells[f.at] \notin f.called
    <3>1. \A k \in 1 .. f.at - 1 : k \in 1 .. f.end /\ f.at \in 1 .. f.end /\ k # f.at
      BY <2>3, <2>6
    <3> QED
      BY <2>3, <3>1
  <2> QED
    BY <2>1, <2>3, <2>4, <2>5, <2>6
<1> QED
  BY Always, <1>1, PTL

------------------------------------------------------------------------------
(* Paths *)

Keys == UNION {ToSet(p) : p \in Paths}

(* Paths are finite sequences, and the root is one of them. *)
LEMMA PathIs ==
  ASSUME NEW p \in Paths
  PROVE  p \in Seq(Keys) /\ Len(p) \in Nat /\ <<>> \in Paths
<1>1. p \in Seq(ToSet(p)) /\ Len(p) \in Nat
  BY PathAssumption
<1>2. ToSet(p) \subseteq Keys
  BY DEF Keys
<1>3. p \in Seq(Keys)
  BY <1>1, <1>2
<1>4. 0 \in 0 .. Len(p) /\ SubSeq(p, 1, 0) = <<>>
  BY <1>1
<1>5. SubSeq(p, 1, 0) \in Paths
  BY <1>4, PathAssumption
<1> QED
  BY <1>1, <1>3, <1>4, <1>5

(* The beginnings of a path: those not longer with the same keys *)
Below(x, p) == x \in PrefixesOf(p)

(* A prefix agrees with the path as far as it goes. *)
LEMMA BelowIs ==
  ASSUME NEW p \in Paths, NEW x
  PROVE  Below(x, p) <=> /\ x \in Paths /\ Len(x) <= Len(p)
                         /\ \A i \in 1 .. Len(x) : x[i] = p[i]
<1>1. p \in Seq(Keys) /\ Len(p) \in Nat
  BY PathIs
<1>2. ASSUME NEW i \in 0 .. Len(p)
      PROVE  /\ SubSeq(p, 1, i) \in Paths /\ Len(SubSeq(p, 1, i)) = i
             /\ \A j \in 1 .. i : SubSeq(p, 1, i)[j] = p[j]
  BY <1>1, PathAssumption
<1>3. ASSUME Below(x, p)
      PROVE  x \in Paths /\ Len(x) <= Len(p) /\ \A i \in 1 .. Len(x) : x[i] = p[i]
  <2>1. PICK i \in 0 .. Len(p) : x = SubSeq(p, 1, i)
    BY <1>3, Zenon DEF Below, PrefixesOf
  <2> QED
    BY <1>1, <1>2, <2>1
<1>4. ASSUME x \in Paths, Len(x) <= Len(p), \A i \in 1 .. Len(x) : x[i] = p[i]
      PROVE  Below(x, p)
  <2>1. x \in Seq(Keys) /\ Len(x) \in 0 .. Len(p)
    BY <1>1, <1>4, PathIs
  <2>2. x = SubSeq(p, 1, Len(x))
    BY <1>1, <1>4, <2>1
  <2> QED
    BY <2>1, <2>2 DEF Below, PrefixesOf
<1> QED
  BY <1>3, <1>4

(* A path is below itself and the root. *)
LEMMA BelowItself ==
  ASSUME NEW p \in Paths
  PROVE  Below(p, p) /\ Below(<<>>, p)
<1>1. p \in Seq(Keys) /\ Len(p) \in Nat /\ <<>> \in Paths /\ Len(<<>>) = 0
  BY PathIs
<1> QED
  BY <1>1, BelowIs

(* A prefix of a prefix is one. *)
LEMMA BelowBelow ==
  ASSUME NEW p \in Paths, NEW x, NEW y, Below(x, y), Below(y, p)
  PROVE  Below(x, p)
<1>1. y \in Paths /\ Len(y) <= Len(p) /\ \A i \in 1 .. Len(y) : y[i] = p[i]
  BY BelowIs
<1>2. x \in Paths /\ Len(x) <= Len(y) /\ \A i \in 1 .. Len(x) : x[i] = y[i]
  BY <1>1, BelowIs
<1>3. Len(x) \in Nat /\ Len(y) \in Nat /\ Len(p) \in Nat
  BY <1>1, <1>2, PathIs
<1> QED
  BY <1>1, <1>2, <1>3, BelowIs

(* Of two beginnings of a path, one is a beginning of the other. *)
LEMMA BelowOther ==
  ASSUME NEW p \in Paths, NEW x, NEW y, Below(x, p), Below(y, p), Len(x) <= Len(y)
  PROVE  Below(x, y) /\ (Len(x) = Len(y) => x = y)
<1>1. x \in Paths /\ Len(x) <= Len(p) /\ \A i \in 1 .. Len(x) : x[i] = p[i]
  BY BelowIs
<1>2. y \in Paths /\ Len(y) <= Len(p) /\ \A i \in 1 .. Len(y) : y[i] = p[i]
  BY BelowIs
<1>3. x \in Seq(Keys) /\ y \in Seq(Keys) /\ Len(x) \in Nat /\ Len(y) \in Nat
  BY <1>1, <1>2, PathIs
<1>4. \A i \in 1 .. Len(x) : x[i] = y[i]
  BY <1>1, <1>2, <1>3
<1>5. Len(x) = Len(y) => x = y
  BY <1>3, <1>4
<1> QED
  BY <1>1, <1>2, <1>4, <1>5, BelowIs

------------------------------------------------------------------------------
(* The trie serves the watches, and counts them. *)

Served == UNION {PrefixesOf(p) : p \in {x \in Paths : callbacks[x] # <<>>}}

TrieInv ==
  /\ callbacks \in [Paths -> Seq(Callbacks)] /\ nodes \subseteq Paths
  /\ \A p \in Paths : Distinct(callbacks[p])
  /\ IsFiniteSet(Watched) /\ watchCount = Cardinality(Watched)
  /\ nodes \ {<<>>} = Served \ {<<>>}

(* The nodes a trie needs. *)
LEMMA ServedIs ==
  ASSUME NEW x
  PROVE  x \in Served <=> \E p \in Paths : callbacks[p] # <<>> /\ Below(x, p)
BY DEF Served, Below

(* Nothing is watched and there is no node. *)
LEMMA TrieStarts == WatcherInit => TrieInv
<1> SUFFICES ASSUME WatcherInit PROVE TrieInv
  OBVIOUS
<1>1. callbacks = [p \in Paths |-> <<>>] /\ nodes = {} /\ watchCount = 0
  BY DEF WatcherInit
<1>2. <<>> \in Seq(Callbacks) /\ DOMAIN <<>> = {} /\ ToSet(<<>>) = {}
  BY DEF ToSet
<1>3. Watched = {}
  BY <1>1, <1>2 DEF Watched
<1>4. IsFiniteSet(Watched) /\ watchCount = Cardinality(Watched)
  BY <1>1, <1>3, FS_EmptySet
<1>5. \A p \in Paths : Distinct(callbacks[p])
  BY <1>1, <1>2 DEF Distinct
<1>6. \A x : x \notin Served
  BY <1>1, ServedIs
<1> QED
  BY <1>1, <1>2, <1>4, <1>5, <1>6 DEF TrieInv

(* A walk changes nothing of the trie. *)
LEMMA TrieStays == TrieInv /\ UNCHANGED trie => TrieInv'
BY DEF TrieInv, trie, Watched, Served

(* A watch adds the nodes that were missing, and no other. *)
LEMMA WatchTrie ==
  ASSUME TrieInv, NEW c \in Callbacks, NEW p \in Paths, Watch(c, p)
  PROVE  TrieInv'
<1>1. /\ callbacks \in [Paths -> Seq(Callbacks)] /\ nodes \subseteq Paths
      /\ \A q \in Paths : Distinct(callbacks[q])
      /\ IsFiniteSet(Watched) /\ watchCount = Cardinality(Watched)
      /\ nodes \ {<<>>} = Served \ {<<>>}
  BY DEF TrieInv
<1>2. /\ \A x \in Paths : c \notin ToSet(callbacks[x])
      /\ nodes' = nodes \cup (PrefixesOf(p) \ nodes)
      /\ callbacks' = [callbacks EXCEPT ![p] = Append(@, c)]
      /\ watchCount' = watchCount + 1
  BY DEF Watch
<1>3. /\ Append(callbacks[p], c) \in Seq(Callbacks) /\ Append(callbacks[p], c) # <<>>
      /\ ToSet(Append(callbacks[p], c)) = ToSet(callbacks[p]) \cup {c}
  <2>1. callbacks[p] \in Seq(Callbacks)
    BY <1>1
  <2>2. Append(callbacks[p], c) # <<>>
    BY <2>1
  <2> QED
    BY <2>1, <2>2, EndEntries
<1>4. callbacks' \in [Paths -> Seq(Callbacks)]
  BY <1>1, <1>2, <1>3
<1>5. nodes' = nodes \cup PrefixesOf(p) /\ nodes' \subseteq Paths
  <2>1. \A x \in PrefixesOf(p) : x \in Paths
    BY BelowIs DEF Below
  <2> QED
    BY <1>1, <1>2, <2>1
<1>6. ASSUME NEW q \in Paths PROVE Distinct(callbacks[q])'
  <2>1. CASE q = p
    <3>1. callbacks'[q] = Append(callbacks[p], c)
      BY <1>1, <1>2, <2>1
    <3>2. Distinct(Append(callbacks[p], c))
      BY <1>1, <1>2, AppendDistinct
    <3> QED
      BY <3>1, <3>2
  <2>2. CASE q # p
    <3>1. callbacks'[q] = callbacks[q]
      BY <1>1, <1>2, <2>2
    <3> QED
      BY <1>1, <3>1
  <2> QED
    BY <2>1, <2>2
<1>7. Watched' = Watched \cup {<<c, p>>} /\ <<c, p>> \notin Watched
  <2>1. ASSUME NEW w \in Callbacks \X Paths
        PROVE  w[1] \in ToSet(callbacks'[w[2]]) <=> w[1] \in ToSet(callbacks[w[2]]) \/ w = <<c, p>>
    <3>1. w[1] \in Callbacks /\ w[2] \in Paths /\ w = <<w[1], w[2]>>
      OBVIOUS
    <3>2. CASE w[2] = p
      <4>1. ToSet(callbacks'[w[2]]) = ToSet(callbacks[p]) \cup {c}
        BY <1>1, <1>2, <1>3, <3>2
      <4> QED
        BY <3>1, <3>2, <4>1
    <3>3. CASE w[2] # p
      <4>1. callbacks'[w[2]] = callbacks[w[2]]
        BY <1>1, <1>2, <3>1, <3>3
      <4> QED
        BY <3>1, <3>3, <4>1
    <3> QED
      BY <3>2, <3>3
  <2>2. <<c, p>> \in Callbacks \X Paths
    OBVIOUS
  <2>3. <<c, p>> \notin Watched
    BY <1>2 DEF Watched
  <2> QED
    BY <2>1, <2>2, <2>3 DEF Watched
<1>8. IsFiniteSet(Watched)' /\ (watchCount = Cardinality(Watched))'
  BY <1>1, <1>2, <1>7, FS_AddElement
<1>9. nodes' \ {<<>>} = Served' \ {<<>>}
  <2>1. \A q \in Paths : callbacks'[q] # <<>> <=> callbacks[q] # <<>> \/ q = p
    BY <1>1, <1>2, <1>3
  <2>2. Served' = UNION {PrefixesOf(q) : q \in {x \in Paths : callbacks'[x] # <<>>}}
    BY DEF Served
  <2>3. Served' = Served \cup PrefixesOf(p)
    BY <2>1, <2>2 DEF Served
  <2> QED
    BY <1>1, <1>5, <2>3
<1> QED
  BY <1>4, <1>5, <1>6, <1>8, <1>9 DEF TrieInv

(* A list without repetitions is as long as it has entries. *)
LEMMA AsLong ==
  ASSUME NEW S, NEW list \in Seq(S), Distinct(list), NEW p
  PROVE  /\ IsFiniteSet({<<c, p>> : c \in ToSet(list)})
         /\ Cardinality({<<c, p>> : c \in ToSet(list)}) = Len(list)
<1> DEFINE T == {<<c, p>> : c \in ToSet(list)}
           n == Len(list)
           f == [i \in 1 .. n |-> <<list[i], p>>]
<1>1. n \in Nat /\ DOMAIN list = 1 .. n
  OBVIOUS
<1>2. IsFiniteSet(1 .. n) /\ Cardinality(1 .. n) = n
  BY <1>1, FS_Interval
<1>3. f \in [1 .. n -> T]
  BY <1>1 DEF ToSet
<1>4. \A i, j \in 1 .. n : f[i] = f[j] => i = j
  BY <1>1 DEF Distinct
<1>5. \A t \in T : \E i \in 1 .. n : f[i] = t
  BY <1>1 DEF ToSet
<1> HIDE DEF T, f, n
<1>6. f \in Bijection(1 .. n, T)
  BY <1>3, <1>4, <1>5 DEF Bijection, Injection, Surjection, IsInjective
<1>7. ExistsBijection(1 .. n, T)
  BY <1>6 DEF ExistsBijection
<1> QED
  BY <1>2, <1>7, FS_Bijection DEF T, n

(* An unwatch takes away the nodes nothing is watched below, and no other. *)
LEMMA UnwatchTrie ==
  ASSUME TrieInv, NEW p \in Paths, Unwatch(p)
  PROVE  TrieInv'
<1>1. /\ callbacks \in [Paths -> Seq(Callbacks)] /\ nodes \subseteq Paths
      /\ \A q \in Paths : Distinct(callbacks[q])
      /\ IsFiniteSet(Watched) /\ watchCount = Cardinality(Watched)
      /\ nodes \ {<<>>} = Served \ {<<>>}
  BY DEF TrieInv
<1>2. /\ p \in nodes /\ callbacks[p] # <<>>
      /\ callbacks' = [callbacks EXCEPT ![p] = <<>>]
      /\ watchCount' = watchCount - Len(callbacks[p])
      /\ nodes' = nodes \ Unneeded(p)
  BY DEF Unwatch
<1>3. callbacks' \in [Paths -> Seq(Callbacks)] /\ nodes' \subseteq Paths
  BY <1>1, <1>2
<1>4. \A q \in Paths : callbacks'[q] = IF q = p THEN <<>> ELSE callbacks[q]
  BY <1>1, <1>2
<1>5. ASSUME NEW q \in Paths PROVE Distinct(callbacks[q])'
  BY <1>1, <1>4 DEF Distinct
<1>6. IsFiniteSet(Watched)' /\ (watchCount = Cardinality(Watched))'
  <2> DEFINE D == {<<c, p>> : c \in ToSet(callbacks[p])}
  <2>1. D \subseteq Watched
    BY <1>1 DEF Watched, ToSet
  <2>2. Watched' = Watched \ D
    <3>1. ASSUME NEW w \in Callbacks \X Paths
          PROVE  w[1] \in ToSet(callbacks'[w[2]]) <=> w[1] \in ToSet(callbacks[w[2]]) /\ w \notin D
      <4>1. w[1] \in Callbacks /\ w[2] \in Paths /\ w = <<w[1], w[2]>> /\ ToSet(<<>>) = {}
        BY DEF ToSet
      <4> QED
        BY <1>4, <4>1
    <3> QED
      BY <3>1 DEF Watched
  <2>3. IsFiniteSet(D) /\ Cardinality(D) = Len(callbacks[p])
    BY <1>1, AsLong
  <2> HIDE DEF D
  <2>4. Watched \cap D = D
    BY <2>1
  <2>5. IsFiniteSet(Watched \ D) /\ Cardinality(Watched \ D) = Cardinality(Watched) - Cardinality(D)
    BY <1>1, <2>4, FS_Difference
  <2> QED
    BY <1>1, <1>2, <2>2, <2>3, <2>5
<1>7. ASSUME NEW x, x # <<>> PROVE x \in nodes' <=> x \in Served'
  <2>1. x \in Served' <=> \E q \in Paths : callbacks'[q] # <<>> /\ Below(x, q)
    BY DEF Served, Below
  <2>2. ASSUME NEW q \in Paths, callbacks'[q] # <<>>, Below(x, q)
        PROVE  q # p /\ callbacks[q] # <<>> /\ q \in nodes /\ x \in nodes
    <3>1. q # p /\ callbacks[q] # <<>>
      BY <1>4, <2>2
    <3>2. Below(q, q)
      BY BelowItself
    <3>3. q \in Served /\ x \in Served
      BY <2>2, <3>1, <3>2, ServedIs
    <3>4. q # <<>>
      <4>1. ASSUME q = <<>> PROVE FALSE
        <5>1. x \in Paths /\ Len(x) <= Len(q)
          BY <2>2, BelowIs
        <5>2. x \in Seq(Keys) /\ Len(x) \in Nat
          BY <5>1, PathIs
        <5> QED
          BY <2>2, <1>7, <4>1, <5>1, <5>2
      <4> QED
        BY <4>1
    <3> QED
      BY <1>1, <1>7, <3>1, <3>3, <3>4
  <2>3. ASSUME NEW q \in Paths, callbacks'[q] # <<>>, Below(x, q)
        PROVE  x \in nodes'
    <3>1. q \in nodes /\ x \in nodes
      BY <2>2, <2>3
    <3>2. HasAnyWatches(x)
      BY <2>3, <3>1 DEF HasAnyWatches, Below
    <3>3. x \in Unneeded(p) => ~HasAnyWatches(x)
      <4>1. ASSUME x \in Unneeded(p) PROVE ~HasAnyWatches(x)
        <5>1. x \in PrefixesOf(p) /\ \A y \in PrefixesOf(p) : Len(y) >= Len(x) => ~HasAnyWatches(y)
          BY <4>1 DEF Unneeded
        <5>2. x \in Paths
          BY <5>1, BelowIs DEF Below
        <5>3. Len(x) \in Nat
          BY <5>2, PathIs
        <5>4. Len(x) >= Len(x)
          BY <5>3
        <5> QED
          BY <5>1, <5>4
      <4> QED
        BY <4>1
    <3> QED
      BY <1>2, <3>1, <3>2, <3>3
  <2>4. ASSUME x \in nodes'
        PROVE  \E q \in Paths : callbacks'[q] # <<>> /\ Below(x, q)
    <3>1. x \in nodes /\ x \notin Unneeded(p)
      BY <1>2, <2>4
    <3>2. PICK q \in Paths : callbacks[q] # <<>> /\ Below(x, q)
      <4>1. x \in Served
        BY <1>1, <1>7, <3>1
      <4> QED
        BY <4>1, ServedIs
    <3>3. CASE q # p
      BY <1>4, <3>2, <3>3
    <3>4. CASE q = p
      <4>1. PICK y \in PrefixesOf(p) : Len(y) >= Len(x) /\ HasAnyWatches(y)
        BY <1>7, <3>1, <3>2, <3>4 DEF Unneeded, Below
      <4>2. PICK r \in nodes : y \in PrefixesOf(r) /\ callbacks'[r] # <<>>
        BY <4>1 DEF HasAnyWatches
      <4>3. r \in Paths /\ Below(y, r) /\ Below(y, p) /\ Below(x, p)
        BY <1>1, <3>2, <3>4, <4>1, <4>2 DEF Below
      <4>4. x \in Paths /\ y \in Paths
        BY <4>3, BelowIs
      <4>5. Len(x) \in Nat /\ Len(y) \in Nat /\ Len(x) <= Len(y)
        BY <4>1, <4>4, PathIs
      <4>6. Below(x, y)
        BY <4>3, <4>5, BelowOther
      <4>7. Below(x, r)
        BY <4>3, <4>6, BelowBelow
      <4> QED
        BY <4>2, <4>3, <4>7
    <3> QED
      BY <3>3, <3>4
  <2> QED
    BY <2>1, <2>3, <2>4
<1> QED
  BY <1>3, <1>5, <1>6, <1>7 DEF TrieInv

(* After clear nothing is watched and there is no node. *)
LEMMA ClearTrie == TrieInv /\ Clear => TrieInv'
<1> SUFFICES ASSUME TrieInv, Clear PROVE TrieInv'
  OBVIOUS
<1>1. callbacks' = [p \in Paths |-> <<>>] /\ nodes' = {} /\ watchCount' = 0
  BY DEF Clear
<1>2. <<>> \in Seq(Callbacks) /\ DOMAIN <<>> = {} /\ ToSet(<<>>) = {}
  BY DEF ToSet
<1>3. Watched' = {}
  BY <1>1, <1>2 DEF Watched
<1>4. IsFiniteSet(Watched)' /\ (watchCount = Cardinality(Watched))'
  BY <1>1, <1>3, FS_EmptySet
<1>5. \A p \in Paths : Distinct(callbacks[p])'
  BY <1>1, <1>2 DEF Distinct
<1>6. Served' = {}
  BY <1>1 DEF Served
<1> QED
  BY <1>1, <1>2, <1>4, <1>5, <1>6 DEF TrieInv

LEMMA TrieStep == TrieInv /\ [WatcherNext]_watcherVars => TrieInv'
<1> SUFFICES ASSUME TrieInv, [WatcherNext]_watcherVars PROVE TrieInv'
  OBVIOUS
<1>1. CASE \E c \in Callbacks, p \in Paths : Watch(c, p)
  BY <1>1, WatchTrie
<1>2. CASE \E p \in Paths : Unwatch(p)
  BY <1>2, UnwatchTrie
<1>3. CASE Clear
  BY <1>3, ClearTrie
<1>4. CASE UNCHANGED trie
  BY <1>4, TrieStays
<1>5. (\E old, new \in States : Check(old, new)) => UNCHANGED trie
  BY DEF Check, trie
<1>6. Call \/ Return \/ Throw \/ ToChildren \/ NodeDone => UNCHANGED trie
  BY DEF Call, Return, Throw, ToChildren, NodeDone, trie
<1>7. (\E x \in Here.rest \cap nodes : Visit(x)) => UNCHANGED trie
  BY DEF Visit, trie
<1>8. UNCHANGED watcherVars => UNCHANGED trie
  BY DEF watcherVars, trie
<1> QED
  BY <1>1, <1>2, <1>3, <1>4, <1>5, <1>6, <1>7, <1>8 DEF WatcherNext

LEMMA TrieAlways == WatcherSpec => []TrieInv
BY TrieStarts, TrieStep, PTL DEF WatcherSpec

(* The trie has a node where something is watched at or below it and nowhere
   else, and counts its callbacks (path_watcher.cpp:138-213). *)
THEOREM TrieServes == WatcherSpec => []TrieServesWatches
<1>1. TrieServesWatches <=>
        (~lost => nodes \ {<<>>} = Served \ {<<>>} /\ watchCount = Cardinality(Watched))
  BY Zenon DEF TrieServesWatches, Served
<1>2. TrieInv => nodes \ {<<>>} = Served \ {<<>>} /\ watchCount = Cardinality(Watched)
  BY Zenon DEF TrieInv
<1> QED
  BY <1>1, <1>2, TrieAlways, PTL

------------------------------------------------------------------------------
(* What a value has at a path *)

(* What a value has at a key is a value. *)
LEMMA ChildIs ==
  ASSUME NEW v \in Values, NEW key
  PROVE  Child(v, key) \in Values
<1>1. Null \in Values
  BY ValueAssumption
<1>2. CASE IsMap(v) /\ key \in DOMAIN v
  <2>1. v \in Values \ (Leaves \cup {Null})
    BY <1>2 DEF IsMap
  <2>2. v[key] \in Values
    BY <1>2, <2>1, ValueAssumption
  <2> QED
    BY <1>2, <2>2 DEF Child
<1>3. CASE ~(IsMap(v) /\ key \in DOMAIN v)
  BY <1>1, <1>3 DEF Child
<1> QED
  BY <1>2, <1>3

(* The way to what v has at p, one key after the other *)
Way(g, v, p) ==
  /\ g \in [0 .. Len(p) -> Values] /\ g[0] = v
  /\ \A i \in 1 .. Len(p) : g[i] = Child(g[i - 1], p[i])

(* Reading a path goes through a value for each of its prefixes. *)
LEMMA WayTo ==
  ASSUME NEW v \in Values, NEW p \in Paths
  PROVE  \E g : Way(g, v, p) /\ Get(v, p) = g[Len(p)]
<1> DEFINE n == Len(p)
           S == DOMAIN p
           pick == [s \in (SUBSET S) \ {{}} |-> Max(s)]
           step == [i \in S |-> [x \in Values |-> Child(x, p[i])]]
           Solves(h) == h = [s \in SUBSET S |->
                               IF s = {} THEN v ELSE Child(h[s \ {Max(s)}], p[Max(s)])]
           fold == CHOOSE h : Solves(h)
<1>1. IsFiniteSet(S) /\ S \subseteq Nat /\ S = 1 .. n /\ n \in Nat
  <2>1. p \in Seq(Keys) /\ n \in Nat
    BY PathIs
  <2>2. S = 1 .. n
    BY <2>1
  <2>3. 1 \in Int /\ n \in Int
    BY <2>1
  <2>4. IsFiniteSet(1 .. n)
    BY <2>3, FS_Interval
  <2> QED
    BY <2>1, <2>2, <2>4
<1>2. \A s \in (SUBSET S) \ {{}} : Max(s) \in s
  <2>1. n \in Nat /\ S \subseteq 0 .. n
    BY <1>1
  <2> HIDE DEF n, S
  <2> QED
    BY <2>1, Greatest
<1>3. \A s \in (SUBSET S) \ {{}} : pick[s] \in s /\ pick[s] = Max(s) /\ Max(s) \in S
  BY <1>2
<1>4. pick \in [(SUBSET S) \ {{}} -> S]
  BY <1>3
<1>5. step \in [S -> [Values -> Values]]
  BY ChildIs
<1>6. \A i \in S, x \in Values : step[i][x] = Child(x, p[i])
  OBVIOUS
<1> HIDE DEF pick, step, S, n
<1>7. PICK h : IsFold(h, S, Values, v, step, pick)
  <2>1. IsFiniteSet(S) /\ Steps(step, S, Values) /\ Picks(pick, S)
    BY <1>1, <1>3, <1>4, <1>5 DEF Steps, Picks
  <2> QED
    BY <2>1, Recursion
<1>8. Solves(h)
  <2>1. h \in [SUBSET S -> Values] /\ h = [s \in SUBSET S |-> h[s]]
    BY <1>7 DEF IsFold
  <2>2. ASSUME NEW s \in SUBSET S, s # {}
        PROVE  step[pick[s]][h[s \ {pick[s]}]] = Child(h[s \ {Max(s)}], p[Max(s)])
    <3>1. pick[s] = Max(s) /\ Max(s) \in S /\ h[s \ {Max(s)}] \in Values
      BY <1>3, <2>1, <2>2
    <3> QED
      BY <1>6, <3>1
  <2>3. \A s \in SUBSET S : h[s] = IF s = {} THEN v ELSE Child(h[s \ {Max(s)}], p[Max(s)])
    BY <1>7, <2>2 DEF IsFold
  <2> QED
    BY <2>1, <2>3
<1>9. Solves(fold)
  BY <1>8
<1>10. Get(v, p) = fold[S]
  BY DEF Get, FoldLeft, MapThenFoldSet, S
<1> HIDE DEF fold
<1>11. \A s \in SUBSET S : fold[s] = IF s = {} THEN v ELSE Child(fold[s \ {Max(s)}], p[Max(s)])
  BY <1>9
<1>12. ASSUME NEW i \in 1 .. n
       PROVE  fold[1 .. i] = Child(fold[1 .. i - 1], p[i])
  <2>1. i \in Nat /\ i # 0 /\ 1 .. i \in SUBSET S
    BY <1>1
  <2>2. 1 .. i # {} /\ (1 .. i) \ {i} = 1 .. i - 1 /\ Max(1 .. i) = i
    BY <2>1, FromAbove
  <2> QED
    BY <1>11, <2>1, <2>2
<1> DEFINE T == {i \in 0 .. n : fold[1 .. i] \in Values}
<1>13. 0 \in T /\ fold[1 .. 0] = v
  <2>1. 1 .. 0 = {} /\ 0 \in 0 .. n /\ {} \in SUBSET S
    BY <1>1
  <2> QED
    BY <1>11, <2>1
<1>14. ASSUME NEW i \in 0 .. n - 1, i \in T PROVE i + 1 \in T
  <2>1. i + 1 \in 1 .. n /\ i + 1 \in 0 .. n /\ (i + 1) - 1 = i
    BY <1>1
  <2>2. fold[1 .. i + 1] = Child(fold[1 .. i], p[i + 1])
    BY <1>12, <2>1
  <2>3. fold[1 .. i + 1] \in Values
    BY <1>14, <2>2, ChildIs
  <2> QED
    BY <2>1, <2>3
<1>15. \A i \in 0 .. n : fold[1 .. i] \in Values
  <2> HIDE DEF T
  <2>1. \A i \in 0 .. n : i \in T
    BY <1>1, <1>13, <1>14, Upwards
  <2> QED
    BY <2>1 DEF T
<1> DEFINE g == [i \in 0 .. n |-> fold[1 .. i]]
<1>16. g \in [0 .. n -> Values] /\ g[0] = v /\ g[n] = fold[S]
  BY <1>1, <1>13, <1>15
<1>17. \A i \in 1 .. n : g[i] = Child(g[i - 1], p[i])
  <2>1. \A i \in 1 .. n : i \in 0 .. n /\ i - 1 \in 0 .. n
    BY <1>1
  <2> QED
    BY <1>12, <2>1
<1> QED
  BY <1>10, <1>16, <1>17 DEF Way, n

(* ... and each of these is what is read at that prefix. *)
LEMMA WayPast ==
  ASSUME NEW v \in Values, NEW p \in Paths, NEW g, Way(g, v, p), NEW x, Below(x, p)
  PROVE  Get(v, x) = g[Len(x)]
<1>1. x \in Paths /\ Len(x) <= Len(p) /\ \A i \in 1 .. Len(x) : x[i] = p[i]
  BY BelowIs
<1>2. Len(x) \in Nat /\ Len(p) \in Nat
  BY <1>1, PathIs
<1>3. PICK h : Way(h, v, x) /\ Get(v, x) = h[Len(x)]
  BY <1>1, WayTo
<1> DEFINE T == {i \in 0 .. Len(x) : g[i] = h[i]}
<1>4. 0 \in T
  BY <1>2, <1>3 DEF Way
<1>5. ASSUME NEW i \in 0 .. Len(x) - 1, i \in T PROVE i + 1 \in T
  <2>1. i + 1 \in 1 .. Len(x) /\ i + 1 \in 0 .. Len(x) /\ i + 1 \in 1 .. Len(p) /\ (i + 1) - 1 = i
    BY <1>1, <1>2
  <2>2. h[i + 1] = Child(h[i], x[i + 1]) /\ g[i + 1] = Child(g[i], p[i + 1])
    BY <1>3, <2>1 DEF Way
  <2>3. g[i] = h[i] /\ x[i + 1] = p[i + 1]
    BY <1>1, <1>5, <2>1
  <2> QED
    BY <2>1, <2>2, <2>3
<1> HIDE DEF T
<1>6. \A i \in 0 .. Len(x) : i \in T
  BY <1>2, <1>4, <1>5, Upwards
<1>7. Len(x) \in T
  BY <1>2, <1>6
<1> QED
  BY <1>3, <1>7 DEF T

(* It is a value, what is at the root is the value itself, one key further is the
   child of what is before it, and where two values agree they agree below. *)
LEMMA GetIs ==
  ASSUME NEW v \in Values
  PROVE  /\ \A p \in Paths : Get(v, p) \in Values /\ Get(v, <<>>) = v
         /\ \A p \in Paths, x \in Paths :
              Below(x, p) /\ Len(p) = Len(x) + 1 => Get(v, p) = Child(Get(v, x), Last(p))
<1>1. ASSUME NEW p \in Paths PROVE Get(v, <<>>) = v /\ Get(v, p) \in Values
  <2>1. PICK g : Way(g, v, p) /\ Get(v, p) = g[Len(p)]
    BY WayTo
  <2>2. Len(p) \in 0 .. Len(p) /\ Len(<<>>) = 0
    BY PathIs
  <2>3. Get(v, <<>>) = g[Len(<<>>)]
    BY <2>1, WayPast, BelowItself
  <2> QED
    BY <2>1, <2>2, <2>3 DEF Way
<1>2. ASSUME NEW p \in Paths, NEW x \in Paths, Below(x, p), Len(p) = Len(x) + 1
      PROVE  Get(v, p) = Child(Get(v, x), Last(p))
  <2>1. PICK g : Way(g, v, p) /\ Get(v, p) = g[Len(p)]
    BY WayTo
  <2>2. Get(v, x) = g[Len(x)]
    BY <1>2, <2>1, WayPast
  <2>3. Len(p) \in 1 .. Len(p) /\ Len(p) - 1 = Len(x) /\ Last(p) = p[Len(p)]
    BY <1>2, PathIs DEF Last
  <2> QED
    BY <2>1, <2>2, <2>3 DEF Way
<1> QED
  BY <1>1, <1>2

(* What is the same at a node is the same everywhere below it: what a check
   passes over has not changed. *)
LEMMA GetSame ==
  ASSUME NEW v \in Values, NEW w \in Values, NEW p \in Paths, NEW x, Below(x, p),
         Get(v, x) = Get(w, x)
  PROVE  Get(v, p) = Get(w, p)
<1>1. x \in Paths /\ Len(x) <= Len(p)
  BY BelowIs
<1>2. Len(x) \in Nat /\ Len(p) \in Nat /\ Len(p) - Len(x) \in Nat
  BY <1>1, PathIs
<1>3. PICK g : Way(g, v, p) /\ Get(v, p) = g[Len(p)]
  BY WayTo
<1>4. PICK h : Way(h, w, p) /\ Get(w, p) = h[Len(p)]
  BY WayTo
<1>5. Get(v, x) = g[Len(x)] /\ Get(w, x) = h[Len(x)]
  BY <1>3, <1>4, WayPast
<1> DEFINE d == Len(p) - Len(x)
           T == {i \in 0 .. d : g[Len(x) + i] = h[Len(x) + i]}
<1>6. 0 \in T
  <2>1. 0 \in 0 .. d /\ Len(x) + 0 = Len(x)
    BY <1>2
  <2> QED
    BY <1>5, <2>1
<1>7. ASSUME NEW i \in 0 .. d - 1, i \in T PROVE i + 1 \in T
  <2>1. /\ i + 1 \in 0 .. d /\ Len(x) + (i + 1) \in 1 .. Len(p)
        /\ (Len(x) + (i + 1)) - 1 = Len(x) + i
    BY <1>2
  <2>2. /\ g[Len(x) + (i + 1)] = Child(g[Len(x) + i], p[Len(x) + (i + 1)])
        /\ h[Len(x) + (i + 1)] = Child(h[Len(x) + i], p[Len(x) + (i + 1)])
    BY <1>3, <1>4, <2>1 DEF Way
  <2>3. g[Len(x) + i] = h[Len(x) + i]
    BY <1>7
  <2> QED
    BY <2>1, <2>2, <2>3
<1>8. d \in Nat /\ d \in 0 .. d
  BY <1>2
<1> HIDE DEF T, d
<1>9. d \in T
  BY <1>6, <1>7, <1>8, Upwards
<1>10. g[Len(x) + d] = h[Len(x) + d] /\ Len(x) + d = Len(p)
  BY <1>2, <1>9 DEF T, d
<1> QED
  BY <1>3, <1>4, <1>10

------------------------------------------------------------------------------
(* Checks under way *)

CheckIn(m) ==
  [first : 1 .. m, began : SUBSET (Callbacks \X Paths), touched : SUBSET (Callbacks \X Paths),
   called : Seq(Callbacks \X Paths)]

(* What the children still to be visited and the callbacks still to be called are *)
FrameOK(f) ==
  /\ f.stage = "children" => f.todo = <<>>
  /\ f.todo # <<>> => f.old # f.new
  /\ Distinct(f.todo)
  /\ \A x \in f.rest : Len(x) = Len(f.node) + 1 /\ Below(f.node, x)

(* A frame f and one above it, g, of the same check: f visits the child that leads
   to g, and will not visit it again. *)
Under(f, g) ==
  /\ f.stage = "children" /\ Len(f.node) < Len(g.node) /\ Below(f.node, g.node)
  /\ \A x \in f.rest : ~Below(x, g.node)

(* A frame will come to call w, if the values differ there. *)
Due(f, w) ==
  \/ /\ f.stage = "callbacks" /\ Below(f.node, w[2])
     /\ f.node = w[2] => w[1] \in ToSet(f.todo)
  \/ f.stage = "children" /\ \E x \in f.rest : Below(x, w[2])

(* The calls of check_node that check k has made *)
Segment(k) ==
  checks[k].first .. (IF k < Len(checks) THEN checks[k + 1].first - 1 ELSE Len(walk))

Root(k) == walk[checks[k].first]
Differs(k, p) == Get(Root(k).old, p) # Get(Root(k).new, p)
Owed(k, w) == \E i \in Segment(k) : Due(walk[i], w)
Occurrences(s, w) == Cardinality({i \in DOMAIN s : s[i] = w})
Times(k, w) == Occurrences(checks[k].called, w)

(* The watches that were there all the while *)
Kept(k) == checks[k].began \ checks[k].touched

(* The walk of check k: what each call compares, and how they stand on each other *)
Walked(k) ==
  /\ Root(k).node = <<>>
  /\ \A i \in Segment(k) : /\ walk[i].old = Get(Root(k).old, walk[i].node)
                           /\ walk[i].new = Get(Root(k).new, walk[i].node)
  /\ \A i, j \in Segment(k) : i < j => Under(walk[i], walk[j])

(* A watch that is kept is still to be called, or has been called if it had to be. *)
Informed(k) ==
  /\ Kept(k) \subseteq Watched
  /\ \A w \in ToSet(checks[k].called) : Differs(k, w[2])
  /\ \A w \in Kept(k) :
       IF Owed(k, w) THEN Times(k, w) = 0 ELSE Differs(k, w[2]) => Times(k, w) = 1

(* Checks inside one another *)
Nested ==
  /\ walk = <<>> <=> checks = <<>>
  /\ checks # <<>> => checks[1].first = 1
  /\ \A k, l \in DOMAIN checks : k < l => checks[k].first < checks[l].first

WalkInv ==
  /\ TrieInv
  /\ walk \in Seq(Frames) /\ checks \in Seq(CheckIn(Len(walk))) /\ lost \in BOOLEAN
  /\ Nested
  /\ \A i \in DOMAIN walk : FrameOK(walk[i])
  /\ \A k \in DOMAIN checks : Walked(k) /\ Informed(k)

(* The types and lengths of the walk and of its checks. *)
LEMMA WalkIs ==
  ASSUME WalkInv
  PROVE  /\ Len(walk) \in Nat /\ DOMAIN walk = 1 .. Len(walk)
         /\ \A i \in 1 .. Len(walk) : walk[i] \in Frames /\ FrameOK(walk[i])
         /\ Len(checks) \in Nat /\ DOMAIN checks = 1 .. Len(checks)
         /\ \A k \in 1 .. Len(checks) : checks[k] \in CheckIn(Len(walk))
         /\ walk # <<>> => Len(walk) # 0 /\ Len(checks) # 0
<1>1. walk \in Seq(Frames) /\ checks \in Seq(CheckIn(Len(walk)))
  BY DEF WalkInv
<1>2. PICK F, C : F = Frames /\ C = CheckIn(Len(walk))
  OBVIOUS
<1>3. walk \in Seq(F) /\ checks \in Seq(C)
  BY <1>1, <1>2
<1>4. /\ Len(walk) \in Nat /\ DOMAIN walk = 1 .. Len(walk)
      /\ \A i \in 1 .. Len(walk) : walk[i] \in F
      /\ Len(checks) \in Nat /\ DOMAIN checks = 1 .. Len(checks)
      /\ \A k \in 1 .. Len(checks) : checks[k] \in C
  BY <1>3
<1>5. walk # <<>> => Len(walk) # 0 /\ Len(checks) # 0
  <2>1. walk # <<>> => checks # <<>>
    BY DEF WalkInv, Nested
  <2> QED
    BY <1>3, <2>1, EmptySeq
<1>6. \A i \in DOMAIN walk : FrameOK(walk[i])
  BY DEF WalkInv
<1> QED
  BY <1>2, <1>4, <1>5, <1>6

(* A check's calls begin with its first; those of the innermost check are on top. *)
LEMMA SegmentIs ==
  ASSUME WalkInv, NEW k \in 1 .. Len(checks)
  PROVE  /\ checks[k].first \in Segment(k) /\ Segment(k) \subseteq 1 .. Len(walk)
         /\ k < Len(checks) => /\ checks[k].first < checks[Len(checks)].first
                               /\ \A i \in Segment(k) : i < checks[Len(checks)].first
         /\ k = Len(checks) => Segment(k) = checks[k].first .. Len(walk)
         /\ checks[k].first \in 1 .. Len(walk)
<1>1. PICK n, m : n = Len(checks) /\ m = Len(walk)
  OBVIOUS
<1>2. m \in Nat /\ n \in Nat /\ DOMAIN checks = 1 .. n
  BY <1>1, WalkIs
<1>3. \A l \in 1 .. n : checks[l].first \in 1 .. m
  BY <1>1, WalkIs DEF CheckIn
<1>4. \A l \in 1 .. n : \A h \in 1 .. n : l < h => checks[l].first < checks[h].first
  BY <1>2 DEF WalkInv, Nested
<1>5. CASE k = n
  <2>1. Segment(k) = checks[k].first .. m
    BY <1>1, <1>2, <1>5 DEF Segment
  <2>2. checks[k].first \in 1 .. m
    BY <1>1, <1>3
  <2>3. checks[k].first \in Segment(k) /\ Segment(k) \subseteq 1 .. m
    BY <1>2, <2>1, <2>2
  <2> QED
    BY <1>1, <1>2, <1>5, <2>1, <2>2, <2>3
<1>6. CASE k < n
  <2>1. k + 1 \in 1 .. n /\ n \in 1 .. n
    BY <1>1, <1>2, <1>6
  <2>2. checks[k].first < checks[k + 1].first /\ checks[k].first < checks[n].first
    BY <1>1, <1>2, <1>4, <1>6, <2>1
  <2>3. checks[k + 1].first <= checks[n].first
    BY <1>1, <1>2, <1>3, <1>4, <1>6, <2>1
  <2>4. Segment(k) = checks[k].first .. checks[k + 1].first - 1
    BY <1>1, <1>6 DEF Segment
  <2>5. checks[k].first \in 1 .. m /\ checks[k + 1].first \in 1 .. m /\ checks[n].first \in 1 .. m
    BY <1>1, <1>3, <2>1
  <2>6. checks[k].first \in Segment(k) /\ Segment(k) \subseteq 1 .. m
    BY <1>2, <2>2, <2>4, <2>5
  <2>7. \A i \in Segment(k) : i < checks[n].first
    BY <2>3, <2>4, <2>5
  <2> QED
    BY <1>1, <1>2, <1>6, <2>2, <2>5, <2>6, <2>7
<1>7. k = n \/ k < n
  BY <1>1, <1>2
<1> QED
  BY <1>5, <1>6, <1>7

(* What a check has done is not touched by what goes on above it. *)
LEMMA CheckStays ==
  ASSUME NEW k, Walked(k), Informed(k), checks[k].first \in Segment(k),
         Segment(k)' = Segment(k), \A i \in Segment(k) : walk'[i] = walk[i],
         checks'[k].first = checks[k].first, checks'[k].called = checks[k].called,
         Kept(k)' \subseteq Kept(k), Kept(k)' \subseteq Watched'
  PROVE  Walked(k)' /\ Informed(k)'
<1>1. Root(k)' = Root(k)
  BY DEF Root
<1>2. Walked(k)'
  BY <1>1 DEF Walked
<1>3. \A p : Differs(k, p)' <=> Differs(k, p)
  BY <1>1 DEF Differs
<1>4. \A w : (Owed(k, w)' <=> Owed(k, w)) /\ Times(k, w)' = Times(k, w)
  BY DEF Owed, Times
<1>5. Informed(k)'
  BY <1>3, <1>4 DEF Informed
<1> QED
  BY <1>2, <1>5

(* No check is under way. *)
LEMMA WalkStarts == WatcherInit => WalkInv
<1> SUFFICES ASSUME WatcherInit PROVE WalkInv
  OBVIOUS
<1>1. TrieInv
  BY TrieStarts
<1>2. walk = <<>> /\ checks = <<>> /\ lost = FALSE
  BY DEF WatcherInit
<1>3. \A S : <<>> \in Seq(S) /\ DOMAIN <<>> = {}
  OBVIOUS
<1>4. Nested
  BY <1>2, <1>3 DEF Nested
<1>5. walk \in Seq(Frames) /\ checks \in Seq(CheckIn(Len(walk)))
  BY <1>2, <1>3, Zenon
<1>6. DOMAIN walk = {} /\ DOMAIN checks = {}
  BY <1>2, <1>3
<1> QED
  BY <1>1, <1>2, <1>4, <1>5, <1>6 DEF WalkInv

(* What user code does to the trie goes on above every check. *)
LEMMA TouchInv ==
  ASSUME WalkInv, TrieInv', lost' \in BOOLEAN, NEW E \in SUBSET (Callbacks \X Paths),
         walk' = walk, checks' = Touch(E), Watched \subseteq Watched' \cup E
  PROVE  WalkInv'
<1>1. PICK n : n = Len(checks) /\ n \in Nat /\ DOMAIN checks = 1 .. n
  BY WalkIs
<1>2. \A k \in 1 .. n : checks[k] \in CheckIn(Len(walk))
  BY <1>1, WalkIs
<1>3. /\ Len(checks') = n /\ DOMAIN checks' = 1 .. n
      /\ \A k \in 1 .. n : checks'[k] = [checks[k] EXCEPT !.touched = @ \cup E]
      /\ checks' = <<>> <=> checks = <<>>
  <2>1. checks' = [k \in 1 .. n |-> [checks[k] EXCEPT !.touched = @ \cup E]]
    BY <1>1 DEF Touch
  <2>2. checks' = <<>> <=> n = 0
    BY <1>1, <2>1
  <2>3. checks = <<>> <=> n = 0
    <3>1. checks \in Seq(CheckIn(Len(walk)))
      BY DEF WalkInv
    <3> QED
      BY <1>1, <3>1, EmptySeq
  <2> QED
    BY <1>1, <2>1, <2>2, <2>3
<1>4. ASSUME NEW k \in 1 .. n
      PROVE  /\ checks'[k] \in CheckIn(Len(walk))
             /\ checks'[k].first = checks[k].first /\ checks'[k].called = checks[k].called
             /\ checks'[k].began = checks[k].began
             /\ checks'[k].touched = checks[k].touched \cup E
  BY <1>2, <1>3 DEF CheckIn
<1>5. checks' \in Seq(CheckIn(Len(walk))) /\ walk' \in Seq(Frames)
  <2>1. PICK C : C = CheckIn(Len(walk))
    OBVIOUS
  <2>2. \A k \in 1 .. n : checks'[k] \in C
    BY <1>4, <2>1
  <2>3. checks' = [k \in 1 .. n |-> checks'[k]]
    BY <1>1, <1>3 DEF Touch
  <2>4. checks' \in Seq(C)
    BY <1>1, <2>2, <2>3
  <2> QED
    BY <2>1, <2>4 DEF WalkInv
<1>6. Nested'
  <2>1. Nested
    BY DEF WalkInv
  <2>2. 1 \in 1 .. n \/ checks = <<>>
    BY <1>1, <1>3, <1>5
  <2> QED
    BY <1>1, <1>3, <1>4, <2>1, <2>2 DEF Nested
<1>7. ASSUME NEW k \in 1 .. n PROVE Walked(k)' /\ Informed(k)'
  <2>1. Walked(k) /\ Informed(k)
    BY <1>1, <1>7 DEF WalkInv
  <2>2. checks[k].first \in Segment(k)
    BY <1>1, SegmentIs
  <2>3. Segment(k)' = Segment(k)
    <3>1. k < n => k + 1 \in 1 .. n
      BY <1>1
    <3>2. CASE k < n
      BY <1>1, <1>3, <1>4, <3>1, <3>2 DEF Segment
    <3>3. CASE ~(k < n)
      BY <1>1, <1>3, <1>4, <3>3 DEF Segment
    <3> QED
      BY <3>2, <3>3
  <2>4. Kept(k)' \subseteq Kept(k) /\ Kept(k)' \cap E = {}
    BY <1>4 DEF Kept
  <2>5. Kept(k) \subseteq Watched
    BY <2>1 DEF Informed
  <2>6. Kept(k)' \subseteq Watched'
    BY <2>4, <2>5
  <2> QED
    BY <1>4, <2>1, <2>2, <2>3, <2>4, <2>6, CheckStays
<1>8. \A i \in DOMAIN walk' : FrameOK(walk'[i])
  BY DEF WalkInv
<1> QED
  BY <1>3, <1>5, <1>6, <1>7, <1>8 DEF WalkInv

(* A watch inside a callback is touched: no check is asked about it. *)
LEMMA WatchInv ==
  ASSUME WalkInv, NEW c \in Callbacks, NEW p \in Paths, Watch(c, p)
  PROVE  WalkInv'
<1>1. TrieInv /\ TrieInv'
  BY WatchTrie DEF WalkInv
<1>2. /\ callbacks' = [callbacks EXCEPT ![p] = Append(@, c)]
      /\ walk' = walk /\ checks' = Touch({<<c, p>>}) /\ lost' \in BOOLEAN
  BY DEF Watch
<1>3. callbacks \in [Paths -> Seq(Callbacks)]
  BY <1>1 DEF TrieInv
<1>4. Watched \subseteq Watched'
  <2>1. ASSUME NEW w \in Callbacks \X Paths, w[1] \in ToSet(callbacks[w[2]])
        PROVE  w[1] \in ToSet(callbacks'[w[2]])
    <3>1. w[2] \in Paths
      OBVIOUS
    <3>2. CASE w[2] = p
      <4>1. callbacks'[w[2]] = Append(callbacks[p], c)
        BY <1>2, <1>3, <3>2
      <4>2. ToSet(Append(callbacks[p], c)) = ToSet(callbacks[p]) \cup {c}
        BY <1>3, EndEntries
      <4> QED
        BY <2>1, <3>2, <4>1, <4>2
    <3>3. CASE w[2] # p
      BY <1>2, <1>3, <2>1, <3>1, <3>3
    <3> QED
      BY <3>2, <3>3
  <2> QED
    BY <2>1 DEF Watched
<1>5. {<<c, p>>} \in SUBSET (Callbacks \X Paths)
  OBVIOUS
<1>6. Watched \subseteq Watched' \cup {<<c, p>>}
  BY <1>4
<1> QED
  BY <1>1, <1>2, <1>5, <1>6, TouchInv

(* ... and so is what is unwatched there. *)
LEMMA UnwatchInv ==
  ASSUME WalkInv, NEW p \in Paths, Unwatch(p)
  PROVE  WalkInv'
<1> DEFINE E == {<<c, p>> : c \in ToSet(callbacks[p])}
<1>1. TrieInv /\ TrieInv'
  BY UnwatchTrie DEF WalkInv
<1>2. /\ callbacks' = [callbacks EXCEPT ![p] = <<>>]
      /\ walk' = walk /\ checks' = Touch(E) /\ lost' \in BOOLEAN
  BY DEF Unwatch
<1>3. callbacks \in [Paths -> Seq(Callbacks)]
  BY <1>1 DEF TrieInv
<1>4. E \in SUBSET (Callbacks \X Paths)
  BY <1>3 DEF ToSet
<1>5. Watched \subseteq Watched' \cup E
  <2>1. ASSUME NEW w \in Callbacks \X Paths, w[1] \in ToSet(callbacks[w[2]]), w \notin E
        PROVE  w[1] \in ToSet(callbacks'[w[2]])
    <3>1. w[2] \in Paths /\ w = <<w[1], w[2]>>
      OBVIOUS
    <3>2. w[2] # p
      BY <2>1, <3>1
    <3> QED
      BY <1>2, <1>3, <2>1, <3>1, <3>2
  <2> QED
    BY <2>1 DEF Watched
<1> HIDE DEF E
<1> QED
  BY <1>1, <1>2, <1>4, <1>5, TouchInv

(* ... and all that clear takes away. *)
LEMMA ClearInv ==
  ASSUME WalkInv, Clear
  PROVE  WalkInv'
<1>1. TrieInv'
  BY ClearTrie DEF WalkInv
<1>2. walk' = walk /\ checks' = Touch(Watched) /\ lost' \in BOOLEAN
  BY DEF Clear
<1>3. Watched \in SUBSET (Callbacks \X Paths) /\ Watched \subseteq Watched' \cup Watched
  BY DEF Watched
<1> QED
  BY <1>1, <1>2, <1>3, TouchInv

(* A call of check_node, when it begins, will come to all that is watched at its
   node or below, but to what is watched at a node where nothing differs. *)
LEMMA FrameOfIs ==
  ASSUME TrieInv, NEW x \in Paths, NEW old \in Values, NEW new \in Values
  PROVE  /\ FrameOf(x, old, new) \in Frames /\ FrameOK(FrameOf(x, old, new))
         /\ FrameOf(x, old, new).node = x
         /\ FrameOf(x, old, new).old = old /\ FrameOf(x, old, new).new = new
         /\ \A w \in Watched : Due(FrameOf(x, old, new), w) => Below(x, w[2])
         /\ \A w \in Watched :
              Below(x, w[2]) /\ ~Due(FrameOf(x, old, new), w) => w[2] = x /\ old = new
<1>1. PICK f : f = FrameOf(x, old, new)
  OBVIOUS
<1>2. /\ f.node = x /\ f.old = old /\ f.new = new /\ f.stage = "callbacks" /\ f.rest = {}
      /\ f.running = NoCallback
      /\ f.todo = IF old # new THEN callbacks[x] ELSE <<>>
      /\ f = [node |-> f.node, old |-> f.old, new |-> f.new, stage |-> f.stage, todo |-> f.todo,
              running |-> f.running, rest |-> f.rest]
  BY <1>1 DEF FrameOf
<1>3. callbacks[x] \in Seq(Callbacks) /\ Distinct(callbacks[x])
  BY DEF TrieInv
<1>4. <<>> \in Seq(Callbacks) /\ Distinct(<<>>)
  BY DEF Distinct
<1>5. f.todo \in Seq(Callbacks) /\ Distinct(f.todo)
  BY <1>2, <1>3, <1>4
<1>6. f \in Frames
  BY <1>2, <1>5 DEF Frames
<1>7. FrameOK(f)
  BY <1>2, <1>5 DEF FrameOK
<1>8. ASSUME NEW w \in Watched
      PROVE  Due(f, w) <=> Below(x, w[2]) /\ (x = w[2] => w[1] \in ToSet(f.todo))
  BY <1>2 DEF Due
<1>9. ASSUME NEW w \in Watched, Below(x, w[2]), ~Due(f, w) PROVE w[2] = x /\ old = new
  <2>1. x = w[2] /\ w[1] \notin ToSet(f.todo)
    BY <1>8, <1>9
  <2>2. w[1] \in ToSet(callbacks[x])
    BY <2>1 DEF Watched
  <2> QED
    BY <1>2, <2>1, <2>2
<1> QED
  BY <1>1, <1>2, <1>6, <1>7, <1>8, <1>9

(* A check begins at the root and owes every watch whose value differs. *)
LEMMA CheckInv ==
  ASSUME WalkInv, NEW old \in States, NEW new \in States, Check(old, new)
  PROVE  WalkInv'
<1> DEFINE c == [first |-> Len(walk) + 1, began |-> Watched, touched |-> {}, called |-> <<>>]
<1>1. PICK f : f = FrameOf(<<>>, old, new)
  OBVIOUS
<1>2. PICK m, n : /\ m = Len(walk) /\ m \in Nat /\ DOMAIN walk = 1 .. m
                  /\ n = Len(checks) /\ n \in Nat /\ DOMAIN checks = 1 .. n
  BY WalkIs
<1>3. /\ walk' = Append(walk, f) /\ checks' = Append(checks, c) /\ nodes # {}
      /\ UNCHANGED trie /\ lost' = lost
  BY <1>1 DEF Check
<1>4. TrieInv /\ TrieInv' /\ Watched' = Watched
  <2>1. TrieInv
    BY DEF WalkInv
  <2> QED
    BY <1>3, <2>1, TrieStays DEF trie, Watched
<1>5. <<>> \in Paths /\ old \in Values /\ new \in Values
  <2>1. PICK p \in Paths : TRUE
    BY <1>3, <1>4 DEF TrieInv
  <2> QED
    BY PathIs, ValueAssumption
<1>6. /\ f \in Frames /\ FrameOK(f) /\ f.node = <<>> /\ f.old = old /\ f.new = new
      /\ \A w \in Watched : Below(<<>>, w[2]) /\ ~Due(f, w) => w[2] = <<>> /\ old = new
  BY <1>1, <1>4, <1>5, FrameOfIs
<1>7. /\ walk' \in Seq(Frames) /\ Len(walk') = m + 1 /\ DOMAIN walk' = 1 .. m + 1
      /\ \A i \in 1 .. m : walk'[i] = walk[i]
      /\ walk'[m + 1] = f
  <2>1. PICK F : F = Frames
    OBVIOUS
  <2>2. walk \in Seq(F) /\ f \in F
    BY <1>6, <2>1 DEF WalkInv
  <2>3. Append(walk, f) \in Seq(F)
    BY <2>2
  <2> QED
    BY <1>2, <1>3, <2>1, <2>2, <2>3
<1>8. c \in CheckIn(m + 1)
  <2>1. Watched \in SUBSET (Callbacks \X Paths) /\ m + 1 \in 1 .. m + 1
    BY <1>2 DEF Watched
  <2>2. \A S : <<>> \in Seq(S)
    OBVIOUS
  <2> QED
    BY <1>2, <2>1, <2>2 DEF CheckIn
<1>9. \A k \in 1 .. n : checks[k] \in CheckIn(m) /\ checks[k] \in CheckIn(m + 1)
  <2>1. \A k \in 1 .. n : checks[k] \in CheckIn(m)
    BY <1>2, WalkIs
  <2>2. 1 .. m \subseteq 1 .. m + 1
    BY <1>2
  <2>3. CheckIn(m) \subseteq CheckIn(m + 1)
    BY <2>2 DEF CheckIn
  <2> QED
    BY <2>1, <2>3
<1>10. /\ checks' \in Seq(CheckIn(m + 1)) /\ Len(checks') = n + 1 /\ DOMAIN checks' = 1 .. n + 1
       /\ \A k \in 1 .. n : checks'[k] = checks[k]
       /\ checks'[n + 1] = c
  <2>1. PICK C, D : C = CheckIn(m + 1) /\ D = CheckIn(m)
    OBVIOUS
  <2>2. checks \in Seq(D)
    BY <1>2, <2>1 DEF WalkInv
  <2>3. checks = [k \in 1 .. n |-> checks[k]]
    BY <1>2, <2>2
  <2>4. checks \in Seq(C)
    <3>1. \A k \in 1 .. n : checks[k] \in C
      BY <1>9, <2>1
    <3>2. [k \in 1 .. n |-> checks[k]] \in Seq(C)
      BY <1>2, <3>1
    <3> QED
      BY <2>3, <3>2
  <2> HIDE DEF c
  <2>5. Append(checks, c) \in Seq(C)
    BY <1>8, <2>1, <2>4
  <2> QED
    BY <1>2, <1>3, <2>1, <2>4, <2>5
<1>11. c.first = m + 1 /\ c.began = Watched /\ c.touched = {} /\ c.called = <<>>
  BY <1>2
<1> HIDE DEF c
<1>12. Nested'
  <2>1. Nested /\ (checks = <<>> <=> n = 0) /\ (walk = <<>> <=> m = 0)
    <3>1. Nested /\ checks \in Seq(CheckIn(Len(walk))) /\ walk \in Seq(Frames)
      BY DEF WalkInv
    <3> QED
      BY <1>2, <3>1, EmptySeq
  <2>2. walk' # <<>> /\ checks' # <<>>
    BY <1>2, <1>7, <1>10, EmptySeq
  <2>3. checks'[1].first = 1
    <3>1. CASE n = 0
      <4>1. m = 0
        BY <2>1, <3>1 DEF Nested
      <4> QED
        BY <1>10, <1>11, <3>1, <4>1
    <3>2. CASE n # 0
      <4>1. 1 \in 1 .. n
        BY <1>2, <3>2
      <4> QED
        BY <1>10, <2>1, <3>2, <4>1 DEF Nested
    <3> QED
      BY <3>1, <3>2
  <2>4. ASSUME NEW k \in 1 .. n + 1, NEW l \in 1 .. n + 1, k < l
        PROVE  checks'[k].first < checks'[l].first
    <3>1. k \in 1 .. n /\ checks'[k].first = checks[k].first /\ checks[k].first \in 1 .. m
      BY <1>2, <1>9, <1>10, <2>4, SMTT(30) DEF CheckIn
    <3>2. CASE l = n + 1
      BY <1>2, <1>10, <1>11, <3>1, <3>2
    <3>3. CASE l \in 1 .. n
      BY <1>2, <1>10, <2>1, <2>4, <3>1, <3>3 DEF Nested
    <3> QED
      BY <1>2, <3>2, <3>3
  <2> QED
    BY <1>10, <2>2, <2>3, <2>4 DEF Nested
<1>13. ASSUME NEW k \in 1 .. n PROVE Walked(k)' /\ Informed(k)'
  <2>1. Walked(k) /\ Informed(k)
    BY <1>2 DEF WalkInv
  <2>2. checks[k].first \in Segment(k) /\ Segment(k) \subseteq 1 .. m
    BY <1>2, SegmentIs
  <2>3. checks'[k] = checks[k]
    BY <1>10
  <2>4. Segment(k)' = Segment(k)
    <3>1. CASE k < n
      <4>1. k + 1 \in 1 .. n /\ k < n + 1
        BY <1>2, <3>1
      <4> QED
        BY <1>2, <1>10, <3>1, <4>1 DEF Segment
    <3>2. CASE k = n
      <4>1. k < n + 1 /\ (m + 1) - 1 = m /\ ~(k < n)
        BY <1>2, <3>2
      <4> QED
        BY <1>2, <1>10, <1>11, <3>2, <4>1 DEF Segment
    <3> QED
      BY <1>2, <3>1, <3>2
  <2>5. \A i \in Segment(k) : walk'[i] = walk[i]
    BY <1>7, <2>2
  <2>6. Kept(k)' = Kept(k) /\ Kept(k) \subseteq Watched
    BY <2>1, <2>3 DEF Kept, Informed
  <2> QED
    BY <1>4, <2>1, <2>2, <2>3, <2>4, <2>5, <2>6, CheckStays
<1>14. Walked(n + 1)' /\ Informed(n + 1)'
  <2>1. Segment(n + 1)' = {m + 1}
    <3>1. ~(n + 1 < n + 1)
      BY <1>2
    <3>2. Segment(n + 1)' = m + 1 .. m + 1
      BY <1>7, <1>10, <1>11, <3>1 DEF Segment
    <3> QED
      BY <1>2, <3>2
  <2>2. Root(n + 1)' = f
    BY <1>7, <1>10, <1>11 DEF Root
  <2>3. Get(old, <<>>) = old /\ Get(new, <<>>) = new
    BY <1>5, GetIs
  <2>4. Walked(n + 1)'
    <3>1. \A i \in Segment(n + 1)' : walk'[i] = f
      BY <1>7, <2>1
    <3>2. \A i, j \in Segment(n + 1)' : ~(i < j)
      BY <1>2, <2>1
    <3> QED
      BY <1>6, <2>2, <2>3, <3>1, <3>2 DEF Walked
  <2>5. Kept(n + 1)' = Watched
    BY <1>10, <1>11 DEF Kept
  <2>6. ASSUME NEW w PROVE Times(n + 1, w)' = 0 /\ (Owed(n + 1, w)' <=> Due(f, w))
    <3>1. {i \in DOMAIN <<>> : <<>>[i] = w} = {}
      OBVIOUS
    <3>2. Times(n + 1, w)' = Cardinality({})
      BY <1>10, <1>11, <3>1 DEF Times, Occurrences
    <3>3. Times(n + 1, w)' = 0
      BY <3>2, FS_EmptySet
    <3>4. Owed(n + 1, w)' <=> Due(f, w)
      BY <1>7, <2>1 DEF Owed
    <3> QED
      BY <3>3, <3>4
  <2>7. ASSUME NEW w \in Watched, ~Due(f, w) PROVE ~Differs(n + 1, w[2])'
    <3>1. Below(<<>>, w[2])
      <4>1. w[2] \in Paths
        BY DEF Watched
      <4> QED
        BY <4>1, BelowItself
    <3>2. w[2] = <<>> /\ old = new
      BY <1>6, <2>7, <3>1
    <3>3. Differs(n + 1, w[2])' <=> Get(old, w[2]) # Get(new, w[2])
      BY <1>6, <2>2 DEF Differs
    <3> QED
      BY <3>2, <3>3
  <2>8. ToSet(checks'[n + 1].called) = {}
    <3>1. ToSet(<<>>) = {}
      BY DEF ToSet
    <3> QED
      BY <1>10, <1>11, <3>1
  <2> QED
    BY <1>4, <2>4, <2>5, <2>6, <2>7, <2>8 DEF Informed
<1>15. ASSUME NEW i \in 1 .. m + 1 PROVE FrameOK(walk'[i])
  <2>1. CASE i \in 1 .. m
    <3>1. FrameOK(walk[i])
      BY <1>2, <2>1 DEF WalkInv
    <3> QED
      BY <1>7, <2>1, <3>1
  <2>2. CASE i = m + 1
    BY <1>6, <1>7, <2>2
  <2> QED
    BY <1>2, <2>1, <2>2
<1>16. \A k \in 1 .. n + 1 : k \in 1 .. n \/ k = n + 1
  BY <1>2
<1>17. \A k \in DOMAIN checks' : Walked(k)' /\ Informed(k)'
  BY <1>10, <1>13, <1>14, <1>16
<1>18. lost' \in BOOLEAN
  BY <1>3 DEF WalkInv
<1> QED
  BY <1>4, <1>7, <1>10, <1>12, <1>15, <1>17, <1>18 DEF WalkInv

(* The frame the walk is at, and the check it belongs to. *)
LEMMA HereIs ==
  ASSUME WalkInv, walk # <<>>, NEW m, m = Len(walk), NEW n, n = Len(checks)
  PROVE  /\ m \in Nat /\ m # 0 /\ DOMAIN walk = 1 .. m /\ n \in Nat /\ n # 0 /\ DOMAIN checks = 1 .. n
         /\ Here = walk[m] /\ Here \in Frames /\ FrameOK(Here)
         /\ Segment(n) = checks[n].first .. m /\ checks[n].first \in 1 .. m
         /\ m \in Segment(n)
<1>1. /\ m \in Nat /\ m # 0 /\ DOMAIN walk = 1 .. m /\ n \in Nat /\ n # 0 /\ DOMAIN checks = 1 .. n
      /\ \A i \in 1 .. m : walk[i] \in Frames /\ FrameOK(walk[i])
  BY WalkIs
<1>2. Here = walk[m] /\ m \in 1 .. m /\ n \in 1 .. n
  BY <1>1 DEF Here, Last
<1>3. Segment(n) = checks[n].first .. m /\ checks[n].first \in 1 .. m
  BY <1>2, SegmentIs
<1> QED
  BY <1>1, <1>2, <1>3

(* Steps of the innermost check, at its last call of check_node: the others stay as
   they are. *)
LEMMA TopStep ==
  ASSUME WalkInv, walk # <<>>, UNCHANGED <<trie, lost>>,
         NEW m, m = Len(walk), NEW n, n = Len(checks), NEW h \in {m, m + 1},
         walk' \in Seq(Frames), Len(walk') = h, \A i \in 1 .. m - 1 : walk'[i] = walk[i],
         FrameOK(walk'[m]), h # m => FrameOK(walk'[h]),
         checks' \in Seq(CheckIn(m)), Len(checks') = n,
         \A k \in 1 .. n : checks'[k].first = checks[k].first /\ (k # n => checks'[k] = checks[k]),
         Walked(n)', Informed(n)'
  PROVE  WalkInv'
<1>1. /\ m \in Nat /\ m # 0 /\ DOMAIN walk = 1 .. m /\ n \in Nat /\ n # 0 /\ DOMAIN checks = 1 .. n
      /\ checks[n].first \in 1 .. m
  BY HereIs
<1>2. h \in Nat /\ h # 0 /\ DOMAIN walk' = 1 .. h /\ DOMAIN checks' = 1 .. n
  BY <1>1
<1>3. TrieInv' /\ Watched' = Watched
  <2>1. TrieInv
    BY DEF WalkInv
  <2> QED
    BY <2>1, TrieStays DEF trie, Watched
<1>4. checks' \in Seq(CheckIn(h))
  <2>1. CheckIn(m) \subseteq CheckIn(h)
    <3>1. 1 .. m \subseteq 1 .. h
      BY <1>1
    <3> QED
      BY <3>1 DEF CheckIn
  <2>2. PICK C, D : C = CheckIn(m) /\ D = CheckIn(h)
    OBVIOUS
  <2>3. checks' \in Seq(C) /\ C \subseteq D
    BY <2>1, <2>2
  <2>4. checks' \in Seq(D)
    BY <2>3
  <2> QED
    BY <2>2, <2>4
<1>5. Nested'
  <2>1. walk' # <<>> /\ checks' # <<>>
    BY <1>1, <1>2, EmptySeq
  <2>2. Nested /\ checks # <<>>
    BY DEF WalkInv, Nested
  <2>3. 1 \in 1 .. n
    BY <1>1
  <2> QED
    BY <1>1, <1>2, <2>1, <2>2, <2>3 DEF Nested
<1>6. ASSUME NEW k \in 1 .. n PROVE Walked(k)' /\ Informed(k)'
  <2>1. CASE k = n
    BY <2>1
  <2>2. CASE k # n
    <3>1. k < n /\ k < Len(checks') /\ k + 1 \in 1 .. n
      BY <1>1, <2>2
    <3>2. Walked(k) /\ Informed(k)
      BY <1>1 DEF WalkInv
    <3>3. /\ checks[k].first \in Segment(k) /\ Segment(k) \subseteq 1 .. m
          /\ \A i \in Segment(k) : i < checks[n].first
      BY <3>1, SegmentIs
    <3>4. Segment(k)' = Segment(k)
      BY <3>1 DEF Segment
    <3>5. \A i \in Segment(k) : walk'[i] = walk[i]
      <4>1. \A i \in Segment(k) : i \in 1 .. m - 1
        BY <1>1, <3>3
      <4> QED
        BY <4>1
    <3>6. checks'[k] = checks[k]
      BY <2>2
    <3>7. Kept(k)' = Kept(k) /\ Kept(k) \subseteq Watched
      BY <3>2, <3>6 DEF Kept, Informed
    <3> QED
      BY <1>3, <3>2, <3>3, <3>4, <3>5, <3>6, <3>7, CheckStays
  <2> QED
    BY <2>1, <2>2
<1>7. ASSUME NEW i \in 1 .. h PROVE FrameOK(walk'[i])
  <2>1. CASE i \in 1 .. m - 1
    <3>1. i \in DOMAIN walk
      BY <1>1, <2>1
    <3>2. FrameOK(walk[i])
      BY <3>1 DEF WalkInv
    <3> QED
      BY <2>1, <3>2
  <2>2. CASE i = m \/ i = h
    BY <2>2
  <2> QED
    BY <1>1, <2>1, <2>2
<1>8. lost' \in BOOLEAN
  BY DEF WalkInv
<1>9. \A k \in DOMAIN checks' : Walked(k)' /\ Informed(k)'
  BY <1>2, <1>6
<1> QED
  BY <1>2, <1>3, <1>4, <1>5, <1>7, <1>8, <1>9 DEF WalkInv

(* The last call takes a step, at the same node with the same values. *)
LEMMA MoveWalk ==
  ASSUME WalkInv, walk # <<>>, NEW m, m = Len(walk), NEW n, n = Len(checks), NEW g \in Frames,
         MoveTo(g), g.node = Here.node, g.old = Here.old, g.new = Here.new,
         Len(checks') = n, checks'[n].first = checks[n].first
  PROVE  /\ walk' \in Seq(Frames) /\ Len(walk') = m /\ walk'[m] = g
         /\ \A i \in 1 .. m - 1 : walk'[i] = walk[i]
         /\ Walked(n)'
         /\ \A p : Differs(n, p)' <=> Differs(n, p)
         /\ \A w : Owed(n, w) <=> Due(Here, w) \/ \E i \in Segment(n) \ {m} : Due(walk[i], w)
         /\ \A w : Owed(n, w)' <=> Due(g, w) \/ \E i \in Segment(n) \ {m} : Due(walk[i], w)
<1>1. /\ m \in Nat /\ m # 0 /\ DOMAIN walk = 1 .. m /\ n \in Nat /\ n # 0 /\ DOMAIN checks = 1 .. n
      /\ Here = walk[m]
      /\ Segment(n) = checks[n].first .. m /\ checks[n].first \in 1 .. m
      /\ m \in Segment(n)
  BY HereIs
<1>2. /\ walk' \in Seq(Frames) /\ Len(walk') = m /\ walk'[m] = g
      /\ \A i \in 1 .. m - 1 : walk'[i] = walk[i]
  <2>1. PICK F : F = Frames
    OBVIOUS
  <2>2. walk \in Seq(F) /\ g \in F /\ walk' = Append(Front(walk), g)
    BY <2>1 DEF WalkInv, MoveTo
  <2>3. Front(walk) = [i \in 1 .. m - 1 |-> walk[i]]
    BY <1>1, <2>2 DEF Front
  <2>4. /\ Front(walk) \in Seq(F) /\ Len(Front(walk)) = m - 1
        /\ \A i \in 1 .. m - 1 : Front(walk)[i] = walk[i]
    BY <1>1, <2>2, <2>3
  <2>5. PICK s : s = Front(walk)
    OBVIOUS
  <2>6. s \in Seq(F) /\ Len(s) = m - 1 /\ \A i \in 1 .. m - 1 : s[i] = walk[i]
    BY <2>4, <2>5
  <2>7. /\ Append(s, g) \in Seq(F) /\ Len(Append(s, g)) = m /\ Append(s, g)[m] = g
        /\ \A i \in 1 .. m - 1 : Append(s, g)[i] = s[i]
    BY <1>1, <2>2, <2>6
  <2> QED
    BY <2>1, <2>2, <2>5, <2>6, <2>7
<1>3. \A i \in 1 .. m : /\ walk'[i].node = walk[i].node /\ walk'[i].old = walk[i].old
                        /\ walk'[i].new = walk[i].new
                        /\ i # m => walk'[i] = walk[i]
  BY <1>1, <1>2
<1>4. Segment(n)' = Segment(n)
  BY <1>1, <1>2 DEF Segment
<1>5. /\ Root(n)'.old = Root(n).old /\ Root(n)'.new = Root(n).new
      /\ Root(n)'.node = Root(n).node
  BY <1>1, <1>3 DEF Root
<1>6. Segment(n) \subseteq 1 .. m
  BY <1>1
<1>7. Walked(n)'
  <2>1. Walked(n)
    BY <1>1 DEF WalkInv
  <2>2. ASSUME NEW i \in Segment(n)
        PROVE  walk'[i].old = Get(Root(n)'.old, walk'[i].node) /\ walk'[i].new = Get(Root(n)'.new, walk'[i].node)
    BY <1>3, <1>5, <1>6, <2>1 DEF Walked
  <2>3. ASSUME NEW i \in Segment(n), NEW j \in Segment(n), i < j
        PROVE  Under(walk'[i], walk'[j])
    <3>1. i # m /\ walk'[i] = walk[i] /\ walk'[j].node = walk[j].node
      BY <1>1, <1>3, <1>6, <2>3
    <3>2. Under(walk[i], walk[j])
      BY <2>1, <2>3 DEF Walked
    <3> QED
      BY <3>1, <3>2 DEF Under
  <2>4. Root(n)'.node = <<>>
    BY <1>5, <2>1 DEF Walked
  <2> QED
    BY <1>4, <2>2, <2>3, <2>4 DEF Walked
<1>8. \A p : Differs(n, p)' <=> Differs(n, p)
  BY <1>5 DEF Differs
<1>9. \A w : Owed(n, w) <=> Due(Here, w) \/ \E i \in Segment(n) \ {m} : Due(walk[i], w)
  BY <1>1 DEF Owed
<1>10. \A w : Owed(n, w)' <=> Due(g, w) \/ \E i \in Segment(n) \ {m} : Due(walk[i], w)
  <2>1. \A i \in Segment(n) \ {m} : walk'[i] = walk[i]
    BY <1>3, <1>6
  <2> QED
    BY <1>1, <1>2, <1>4, <2>1 DEF Owed
<1> QED
  BY <1>2, <1>7, <1>8, <1>9, <1>10

(* The innermost check has called nobody: what it still owes is the same, but for
   watches it passed over because nothing differs there. *)
LEMMA SameInformed ==
  ASSUME NEW n, Informed(n), checks'[n] = checks[n], Watched' = Watched,
         \A p : Differs(n, p)' <=> Differs(n, p),
         \A w \in Kept(n) : \/ Owed(n, w)' <=> Owed(n, w)
                            \/ Times(n, w) = 0 /\ ~Differs(n, w[2])
  PROVE  Informed(n)'
<1>1. Kept(n)' = Kept(n) /\ \A w : Times(n, w)' = Times(n, w)
  BY DEF Kept, Times
<1>2. ASSUME NEW w \in Kept(n)
      PROVE  IF Owed(n, w)' THEN Times(n, w)' = 0 ELSE Differs(n, w[2])' => Times(n, w)' = 1
  <2>1. IF Owed(n, w) THEN Times(n, w) = 0 ELSE Differs(n, w[2]) => Times(n, w) = 1
    BY DEF Informed
  <2>2. CASE Owed(n, w)' <=> Owed(n, w)
    BY <1>1, <2>1, <2>2
  <2>3. CASE Times(n, w) = 0 /\ ~Differs(n, w[2])
    BY <1>1, <2>3
  <2> QED
    BY <2>2, <2>3
<1>3. Kept(n) \subseteq Watched /\ \A w \in ToSet(checks[n].called) : Differs(n, w[2])
  BY DEF Informed
<1> QED
  BY <1>1, <1>2, <1>3 DEF Informed

(* Of the checks, only the record of the innermost may change. *)
LEMMA SameChecks ==
  ASSUME WalkInv, walk # <<>>, UNCHANGED checks
  PROVE  /\ checks' \in Seq(CheckIn(Len(walk))) /\ Len(checks') = Len(checks)
         /\ \A k \in 1 .. Len(checks) : checks'[k] = checks[k]
         /\ Informed(Len(checks)) /\ Walked(Len(checks))
<1>1. Len(checks) \in DOMAIN checks
  BY HereIs
<1> QED
  BY <1>1 DEF WalkInv

(* When a callback returns the walk is where it was. *)
LEMMA ReturnInv == WalkInv /\ Return => WalkInv'
<1> SUFFICES ASSUME WalkInv, Return PROVE WalkInv'
  OBVIOUS
<1>1. walk # <<>> /\ UNCHANGED <<trie, lost>> /\ UNCHANGED checks
  BY DEF Return
<1>2. PICK m, n : m = Len(walk) /\ n = Len(checks)
  OBVIOUS
<1>3. PICK g : g = [Here EXCEPT !.running = NoCallback]
  OBVIOUS
<1>4. MoveTo(g)
  BY <1>3 DEF Return
<1>5. m \in Nat /\ m # 0 /\ Here \in Frames /\ FrameOK(Here)
  BY <1>1, <1>2, HereIs
<1>6. /\ g \in Frames /\ g.node = Here.node /\ g.old = Here.old /\ g.new = Here.new
      /\ g.stage = Here.stage /\ g.todo = Here.todo /\ g.rest = Here.rest
  BY <1>3, <1>5 DEF Frames
<1>7. FrameOK(g) /\ \A w : Due(g, w) <=> Due(Here, w)
  BY <1>5, <1>6 DEF FrameOK, Due
<1>8. /\ checks' \in Seq(CheckIn(m)) /\ Len(checks') = n
      /\ \A k \in 1 .. n : checks'[k] = checks[k]
      /\ Informed(n) /\ checks' = checks
  BY <1>1, <1>2, SameChecks
<1>9. /\ walk' \in Seq(Frames) /\ Len(walk') = m /\ walk'[m] = g
      /\ \A i \in 1 .. m - 1 : walk'[i] = walk[i]
      /\ Walked(n)'
      /\ \A p : Differs(n, p)' <=> Differs(n, p)
      /\ \A w : Owed(n, w)' <=> Owed(n, w)
  BY <1>1, <1>2, <1>4, <1>6, <1>7, <1>8, MoveWalk
<1>10. Watched' = Watched
  BY <1>1 DEF trie, Watched
<1>11. Informed(n)'
  BY <1>8, <1>9, <1>10, SameInformed
<1>12. m \in {m, m + 1}
  OBVIOUS
<1> QED
  BY <1>1, <1>2, <1>7, <1>8, <1>9, <1>11, <1>12, TopStep

(* The next beginning of a path *)
LEMMA NextBelow ==
  ASSUME NEW p \in Paths, NEW x, Below(x, p), x # p
  PROVE  \E y : Below(y, p) /\ Len(y) = Len(x) + 1 /\ Below(x, y) /\ y # <<>>
<1>1. x \in Paths /\ Len(x) <= Len(p) /\ \A i \in 1 .. Len(x) : x[i] = p[i]
  BY BelowIs
<1>2. x \in Seq(Keys) /\ Len(x) \in Nat /\ p \in Seq(Keys) /\ Len(p) \in Nat
  BY <1>1, PathIs
<1>3. Len(x) + 1 \in 0 .. Len(p)
  <2>1. Len(x) # Len(p)
    BY <1>1, <1>2
  <2> QED
    BY <1>1, <1>2, <2>1
<1>4. PICK y : y = SubSeq(p, 1, Len(x) + 1)
  OBVIOUS
<1>5. Below(y, p)
  BY <1>3, <1>4 DEF Below, PrefixesOf
<1>6. Len(y) = Len(x) + 1
  BY <1>2, <1>3, <1>4
<1>7. Len(x) <= Len(y) /\ y # <<>>
  BY <1>2, <1>6
<1> QED
  BY <1>5, <1>6, <1>7, BelowOther

(* All beginnings of a path that is watched have a node. *)
LEMMA HasNodes ==
  ASSUME TrieInv, NEW w \in Watched, NEW x, Below(x, w[2]), x # <<>>
  PROVE  x \in nodes
<1>1. w[2] \in Paths /\ w[1] \in ToSet(callbacks[w[2]])
  BY DEF Watched
<1>2. callbacks[w[2]] # <<>>
  <2>1. ToSet(<<>>) = {}
    BY DEF ToSet
  <2> QED
    BY <1>1, <2>1
<1>3. x \in Served
  BY <1>1, <1>2, ServedIs
<1> QED
  BY <1>3 DEF TrieInv

(* With its callbacks done, what a node still owes is below its children. *)
LEMMA ToChildrenInv == WalkInv /\ ToChildren => WalkInv'
<1> SUFFICES ASSUME WalkInv, ToChildren PROVE WalkInv'
  OBVIOUS
<1>1. /\ walk # <<>> /\ UNCHANGED <<trie, lost>> /\ UNCHANGED checks
      /\ Here.stage = "callbacks" /\ Here.todo = <<>>
  BY DEF ToChildren, Walks
<1>2. PICK m, n : m = Len(walk) /\ n = Len(checks)
  OBVIOUS
<1>3. PICK g : g = [Here EXCEPT !.stage = "children", !.rest = Children(Here.node)]
  OBVIOUS
<1>4. MoveTo(g)
  BY <1>3 DEF ToChildren
<1>5. m \in Nat /\ m # 0 /\ Here \in Frames /\ FrameOK(Here)
  BY <1>1, <1>2, HereIs
<1>6. TrieInv /\ nodes \subseteq Paths
  BY DEF WalkInv, TrieInv
<1>7. /\ g.node = Here.node /\ g.old = Here.old /\ g.new = Here.new
      /\ g.stage = "children" /\ g.todo = <<>> /\ g.rest = Children(Here.node)
  BY <1>1, <1>3, <1>5 DEF Frames
<1>8. g \in Frames
  <2>1. Children(Here.node) \in SUBSET Paths
    BY <1>6 DEF Children
  <2> QED
    BY <1>3, <1>5, <2>1 DEF Frames
<1>9. FrameOK(g)
  BY <1>7 DEF FrameOK, Distinct, Children, Below
<1>10. ASSUME NEW w \in Watched PROVE Due(g, w) <=> Due(Here, w)
  <2>1. w[2] \in Paths /\ Here.node \in Paths
    BY <1>5 DEF Watched, Frames
  <2>2. Due(Here, w) <=> Below(Here.node, w[2]) /\ Here.node # w[2]
    <3>1. ToSet(<<>>) = {}
      BY DEF ToSet
    <3> QED
      BY <1>1, <3>1 DEF Due
  <2>3. Due(g, w) <=> \E x \in Children(Here.node) : Below(x, w[2])
    BY <1>7 DEF Due
  <2>4. ASSUME NEW x \in Children(Here.node), Below(x, w[2])
        PROVE  Below(Here.node, w[2]) /\ Here.node # w[2]
    <3>1. Below(Here.node, x) /\ Len(x) = Len(Here.node) + 1
      BY DEF Children, Below
    <3>2. Below(Here.node, w[2])
      BY <2>1, <2>4, <3>1, BelowBelow
    <3>3. Len(x) <= Len(w[2])
      BY <2>1, <2>4, BelowIs
    <3>4. Len(Here.node) \in Nat
      BY <2>1, PathIs
    <3> QED
      BY <3>1, <3>2, <3>3, <3>4
  <2>5. ASSUME Below(Here.node, w[2]), Here.node # w[2]
        PROVE  \E x \in Children(Here.node) : Below(x, w[2])
    <3>1. PICK y : Below(y, w[2]) /\ Len(y) = Len(Here.node) + 1 /\ Below(Here.node, y) /\ y # <<>>
      BY <2>1, <2>5, NextBelow
    <3>2. y \in nodes
      BY <1>6, <3>1, HasNodes
    <3>3. y \in Children(Here.node)
      BY <3>1, <3>2 DEF Children, Below
    <3> QED
      BY <3>1, <3>3
  <2> QED
    BY <2>2, <2>3, <2>4, <2>5
<1>11. /\ checks' \in Seq(CheckIn(m)) /\ Len(checks') = n
       /\ \A k \in 1 .. n : checks'[k] = checks[k]
       /\ Informed(n) /\ checks' = checks
  BY <1>1, <1>2, SameChecks
<1>12. /\ walk' \in Seq(Frames) /\ Len(walk') = m /\ walk'[m] = g
       /\ \A i \in 1 .. m - 1 : walk'[i] = walk[i]
       /\ Walked(n)'
       /\ \A p : Differs(n, p)' <=> Differs(n, p)
       /\ \A w : Owed(n, w) <=> Due(Here, w) \/ \E i \in Segment(n) \ {m} : Due(walk[i], w)
       /\ \A w : Owed(n, w)' <=> Due(g, w) \/ \E i \in Segment(n) \ {m} : Due(walk[i], w)
  BY <1>1, <1>2, <1>4, <1>7, <1>8, <1>11, MoveWalk
<1>13. Watched' = Watched /\ Kept(n) \subseteq Watched
  BY <1>1, <1>11 DEF trie, Watched, Informed
<1>14. \A w \in Kept(n) : Owed(n, w)' <=> Owed(n, w)
  BY <1>10, <1>12, <1>13
<1>15. Informed(n)'
  BY <1>11, <1>12, <1>13, <1>14, SameInformed
<1>16. m \in {m, m + 1}
  OBVIOUS
<1> QED
  BY <1>1, <1>2, <1>9, <1>11, <1>12, <1>15, <1>16, TopStep

(* The first of a list, and the others *)
LEMMA FirstAndOthers ==
  ASSUME NEW S, NEW list \in Seq(S), list # <<>>, Distinct(list)
  PROVE  /\ Head(list) \in S /\ Tail(list) \in Seq(S) /\ Distinct(Tail(list))
         /\ ToSet(list) = {Head(list)} \cup ToSet(Tail(list)) /\ Head(list) \notin ToSet(Tail(list))
<1>1. PICK n : n = Len(list) /\ n \in Nat /\ n # 0 /\ DOMAIN list = 1 .. n
  BY EmptySeq
<1>2. PICK t : t = Tail(list)
  OBVIOUS
<1>3. /\ t \in Seq(S) /\ DOMAIN t = 1 .. n - 1 /\ Head(list) = list[1] /\ list[1] \in S
      /\ \A i \in 1 .. n - 1 : t[i] = list[i + 1]
  BY <1>1, <1>2
<1>4. Distinct(t)
  <2>1. ASSUME NEW i \in 1 .. n - 1, NEW j \in 1 .. n - 1, t[i] = t[j] PROVE i = j
    <3>1. i + 1 \in DOMAIN list /\ j + 1 \in DOMAIN list /\ list[i + 1] = list[j + 1]
      BY <1>1, <1>3, <2>1
    <3>2. i + 1 = j + 1
      BY <3>1, Zenon DEF Distinct
    <3> QED
      BY <1>1, <3>2
  <2> QED
    BY <1>3, <2>1, Zenon DEF Distinct
<1>5. ASSUME NEW x PROVE x \in ToSet(list) <=> x = list[1] \/ x \in ToSet(t)
  <2>1. ASSUME NEW i \in 1 .. n PROVE list[i] = list[1] \/ \E j \in 1 .. n - 1 : t[j] = list[i]
    <3>1. CASE i = 1
      BY <3>1
    <3>2. CASE i # 1
      <4>1. i - 1 \in 1 .. n - 1 /\ (i - 1) + 1 = i
        BY <1>1, <3>2
      <4>2. t[i - 1] = list[i]
        BY <1>3, <4>1
      <4> QED
        BY <4>1, <4>2
    <3> QED
      BY <3>1, <3>2
  <2>2. 1 \in 1 .. n /\ \A j \in 1 .. n - 1 : j + 1 \in 1 .. n
    BY <1>1
  <2>3. ASSUME x \in ToSet(list) PROVE x = list[1] \/ x \in ToSet(t)
    <3>1. PICK i \in 1 .. n : x = list[i]
      BY <1>1, <2>3 DEF ToSet
    <3>2. CASE x = list[1]
      BY <3>2
    <3>3. CASE x # list[1]
      <4>1. PICK j \in 1 .. n - 1 : t[j] = x
        BY <2>1, <3>1, <3>3
      <4> QED
        BY <1>3, <4>1 DEF ToSet
    <3> QED
      BY <3>2, <3>3
  <2>4. ASSUME x = list[1] \/ x \in ToSet(t) PROVE x \in ToSet(list)
    BY <1>1, <1>3, <2>2, <2>4 DEF ToSet
  <2> QED
    BY <2>3, <2>4
<1>6. list[1] \notin ToSet(t)
  <2>1. ASSUME NEW j \in 1 .. n - 1, t[j] = list[1] PROVE FALSE
    <3>1. j + 1 \in 1 .. n /\ 1 \in 1 .. n /\ list[j + 1] = list[1] /\ j + 1 # 1
      BY <1>1, <1>3, <2>1
    <3> QED
      BY <1>1, <3>1 DEF Distinct
  <2> QED
    BY <1>3, <2>1 DEF ToSet
<1> QED
  BY <1>2, <1>3, <1>4, <1>5, <1>6

(* One call more *)
LEMMA OneMore ==
  ASSUME NEW S, NEW s \in Seq(S), NEW e \in S, NEW w
  PROVE  Occurrences(Append(s, e), w) = Occurrences(s, w) + (IF w = e THEN 1 ELSE 0)
<1>1. PICK n : n = Len(s) /\ n \in Nat /\ DOMAIN s = 1 .. n
  OBVIOUS
<1>2. PICK t : t = Append(s, e)
  OBVIOUS
<1>3. DOMAIN t = 1 .. n + 1 /\ t[n + 1] = e /\ \A i \in 1 .. n : t[i] = s[i]
  BY <1>1, <1>2
<1>4. PICK A, B : A = {i \in 1 .. n : s[i] = w} /\ B = {i \in 1 .. n + 1 : t[i] = w}
  OBVIOUS
<1>5. Occurrences(s, w) = Cardinality(A) /\ Occurrences(t, w) = Cardinality(B)
  BY <1>1, <1>3, <1>4 DEF Occurrences
<1>6. IsFiniteSet(A) /\ n + 1 \notin A
  <2>1. IsFiniteSet(1 .. n) /\ A \in SUBSET (1 .. n)
    BY <1>1, <1>4, FS_Interval
  <2> QED
    BY <1>1, <1>4, <2>1, FS_Subset
<1>7. \A i \in 1 .. n + 1 : i \in 1 .. n \/ i = n + 1
  BY <1>1
<1>8. CASE w = e
  <2>1. B = A \cup {n + 1}
    BY <1>1, <1>3, <1>4, <1>7, <1>8
  <2>2. Cardinality(B) = Cardinality(A) + 1
    BY <1>6, <2>1, FS_AddElement
  <2> QED
    BY <1>5, <1>2, <1>8, <2>2
<1>9. CASE w # e
  <2>1. B = A
    BY <1>1, <1>3, <1>4, <1>7, <1>9
  <2>2. Cardinality(A) \in Nat
    BY <1>6, FS_CardinalityType
  <2>3. Cardinality(B) = Cardinality(A) + 0
    BY <2>1, <2>2
  <2> QED
    BY <1>5, <1>2, <1>9, <2>3
<1> QED
  BY <1>8, <1>9

(* What is called is owed no more. *)
LEMMA CallInv == WalkInv /\ Call => WalkInv'
<1> SUFFICES ASSUME WalkInv, Call PROVE WalkInv'
  OBVIOUS
<1>1. /\ walk # <<>> /\ UNCHANGED <<trie, lost>>
      /\ Here.stage = "callbacks" /\ Here.todo # <<>>
  BY DEF Call, Walks
<1>2. PICK m, n : m = Len(walk) /\ n = Len(checks)
  OBVIOUS
<1>3. PICK g : g = [Here EXCEPT !.running = Head(Here.todo), !.todo = Tail(@)]
  OBVIOUS
<1>4. PICK c : c = <<Head(Here.todo), Here.node>>
  OBVIOUS
<1>5. MoveTo(g) /\ checks' = [checks EXCEPT ![n].called = Append(@, c)]
  BY <1>2, <1>3, <1>4 DEF Call
<1>6. /\ m \in Nat /\ m # 0 /\ Here \in Frames /\ FrameOK(Here) /\ Here = walk[m]
      /\ n \in Nat /\ n # 0 /\ DOMAIN checks = 1 .. n
      /\ Segment(n) = checks[n].first .. m /\ m \in Segment(n)
  BY <1>1, <1>2, HereIs
<1>7. Here.todo \in Seq(Callbacks) /\ Distinct(Here.todo) /\ Here.old # Here.new /\ Here.node \in Paths
  BY <1>1, <1>6 DEF Frames, FrameOK
<1>8. PICK t : t = Tail(Here.todo)
  OBVIOUS
<1>9. /\ Head(Here.todo) \in Callbacks /\ t \in Seq(Callbacks) /\ Distinct(t)
      /\ ToSet(Here.todo) = {Head(Here.todo)} \cup ToSet(t) /\ Head(Here.todo) \notin ToSet(t)
  BY <1>1, <1>7, <1>8, FirstAndOthers
<1>10. /\ g \in Frames /\ g.node = Here.node /\ g.old = Here.old /\ g.new = Here.new
       /\ g.stage = "callbacks" /\ g.todo = t /\ g.rest = Here.rest
  BY <1>1, <1>3, <1>6, <1>8, <1>9 DEF Frames
<1>11. FrameOK(g)
  BY <1>6, <1>7, <1>9, <1>10 DEF FrameOK
<1>12. c \in Callbacks \X Paths /\ c[1] = Head(Here.todo) /\ c[2] = Here.node
  BY <1>4, <1>7, <1>9
<1>13. /\ checks \in Seq(CheckIn(m)) /\ checks[n] \in CheckIn(m)
       /\ Walked(n) /\ Informed(n)
  <2>1. checks \in Seq(CheckIn(m)) /\ n \in DOMAIN checks
    BY <1>2, <1>6 DEF WalkInv
  <2> QED
    BY <1>2, <1>6, <2>1, WalkIs DEF WalkInv
<1>14. /\ checks'[n] \in CheckIn(m) /\ checks'[n].first = checks[n].first
       /\ checks'[n].began = checks[n].began /\ checks'[n].touched = checks[n].touched
       /\ checks'[n].called = Append(checks[n].called, c)
       /\ checks[n].called \in Seq(Callbacks \X Paths)
  <2>1. checks'[n] = [checks[n] EXCEPT !.called = Append(@, c)]
    BY <1>5, <1>6
  <2>2. PICK W : W = Callbacks \X Paths
    OBVIOUS
  <2>3. checks[n].called \in Seq(W)
    BY <1>13, <2>2 DEF CheckIn
  <2>4. Append(checks[n].called, c) \in Seq(W)
    BY <1>12, <2>2, <2>3
  <2> QED
    BY <1>13, <2>1, <2>2, <2>3, <2>4 DEF CheckIn
<1>15. /\ checks' \in Seq(CheckIn(m)) /\ Len(checks') = n
       /\ \A k \in 1 .. n : checks'[k].first = checks[k].first /\ (k # n => checks'[k] = checks[k])
  <2>1. PICK C : C = CheckIn(m)
    OBVIOUS
  <2>2. checks \in Seq(C) /\ checks'[n] \in C
    BY <1>13, <1>14, <2>1
  <2>3. DOMAIN checks' = 1 .. n /\ \A k \in 1 .. n : k # n => checks'[k] = checks[k]
    BY <1>5, <1>6
  <2>4. checks' = [k \in 1 .. n |-> checks'[k]]
    BY <1>5, <1>6
  <2>5. \A k \in 1 .. n : checks'[k] \in C
    BY <1>6, <2>2, <2>3
  <2>6. checks' \in Seq(C) /\ Len(checks') = n
    BY <1>6, <2>3, <2>4, <2>5
  <2> QED
    BY <1>14, <2>1, <2>3, <2>6
<1>16. /\ walk' \in Seq(Frames) /\ Len(walk') = m /\ walk'[m] = g
       /\ \A i \in 1 .. m - 1 : walk'[i] = walk[i]
       /\ Walked(n)'
       /\ \A p : Differs(n, p)' <=> Differs(n, p)
       /\ \A w : Owed(n, w) <=> Due(Here, w) \/ \E i \in Segment(n) \ {m} : Due(walk[i], w)
       /\ \A w : Owed(n, w)' <=> Due(g, w) \/ \E i \in Segment(n) \ {m} : Due(walk[i], w)
  BY <1>1, <1>2, <1>5, <1>10, <1>14, <1>15, MoveWalk
<1>17. \A w : Times(n, w)' = Times(n, w) + (IF w = c THEN 1 ELSE 0)
  <2>1. PICK W : W = Callbacks \X Paths
    OBVIOUS
  <2>2. checks[n].called \in Seq(W) /\ c \in W
    BY <1>12, <1>14, <2>1
  <2>3. ASSUME NEW w
        PROVE  Occurrences(checks'[n].called, w)
                 = Occurrences(checks[n].called, w) + (IF w = c THEN 1 ELSE 0)
    BY <1>14, <2>2, OneMore
  <2> QED
    BY <2>3 DEF Times
<1>18. Differs(n, c[2])
  BY <1>6, <1>7, <1>12, <1>13 DEF Walked, Differs
<1>19. Kept(n)' = Kept(n) /\ Kept(n) \subseteq Watched /\ Watched' = Watched
  BY <1>1, <1>13, <1>14 DEF Kept, trie, Watched, Informed
<1>20. Owed(n, c) /\ ~Owed(n, c)'
  <2>1. Due(Here, c)
    BY <1>1, <1>7, <1>9, <1>12, BelowItself DEF Due
  <2>2. ~Due(g, c)
    BY <1>9, <1>10, <1>12 DEF Due
  <2>3. ASSUME NEW i \in Segment(n) \ {m} PROVE ~Due(walk[i], c)
    <3>1. i < m
      <4>1. checks[n].first \in 1 .. m
        BY <1>13 DEF CheckIn
      <4> QED
        BY <1>6, <4>1
    <3>2. Under(walk[i], walk[m])
      BY <1>6, <1>13, <3>1 DEF Walked
    <3> QED
      BY <1>6, <1>12, <3>2 DEF Under, Due
  <2> QED
    BY <1>16, <2>1, <2>2, <2>3
<1>21. ASSUME NEW w \in Watched, w # c PROVE Owed(n, w)' <=> Owed(n, w)
  <2>1. w = <<w[1], w[2]>>
    BY DEF Watched
  <2>2. w[2] = Here.node => w[1] # Head(Here.todo)
    BY <1>4, <1>21, <2>1
  <2>3. Due(g, w) <=> Due(Here, w)
    BY <1>1, <1>9, <1>10, <2>2 DEF Due
  <2> QED
    BY <1>16, <2>3
<1>22. Informed(n)'
  <2>1. ASSUME NEW w \in Kept(n)
        PROVE  IF Owed(n, w)' THEN Times(n, w)' = 0 ELSE Differs(n, w[2])' => Times(n, w)' = 1
    <3>1. IF Owed(n, w) THEN Times(n, w) = 0 ELSE Differs(n, w[2]) => Times(n, w) = 1
      BY <1>13 DEF Informed
    <3>2. CASE w = c
      BY <1>17, <1>20, <3>1, <3>2
    <3>3. CASE w # c
      <4>1. Owed(n, w)' <=> Owed(n, w)
        BY <1>19, <1>21, <3>3
      <4>2. Times(n, w)' = Times(n, w) + 0
        BY <1>17, <3>3
      <4> QED
        BY <1>16, <3>1, <4>1, <4>2
    <3> QED
      BY <3>2, <3>3
  <2>2. ToSet(checks'[n].called) = ToSet(checks[n].called) \cup {c}
    BY <1>12, <1>14, EndEntries
  <2>3. \A w \in ToSet(checks'[n].called) : Differs(n, w[2])'
    BY <1>13, <1>16, <1>18, <2>2 DEF Informed
  <2> QED
    BY <1>19, <2>1, <2>3 DEF Informed
<1>23. m \in {m, m + 1}
  OBVIOUS
<1> QED
  BY <1>1, <1>2, <1>11, <1>15, <1>16, <1>22, <1>23, TopStep

(* A child is met: its values are those of the whole at its path, and what is owed
   below it was owed by the call at its parent. *)
LEMMA ChildMet ==
  ASSUME WalkInv, walk # <<>>, Here.stage = "children", NEW x \in Here.rest, NEW n, n = Len(checks),
         NEW g, g = [Here EXCEPT !.rest = Here.rest \ {x}]
  PROVE  /\ x \in Paths /\ Len(x) = Len(Here.node) + 1 /\ Below(Here.node, x) /\ Len(Here.node) \in Nat
         /\ Child(Here.old, Last(x)) = Get(Root(n).old, x)
         /\ Child(Here.new, Last(x)) = Get(Root(n).new, x)
         /\ Root(n).old \in Values /\ Root(n).new \in Values
         /\ g \in Frames /\ FrameOK(g) /\ g.node = Here.node /\ g.old = Here.old /\ g.new = Here.new
         /\ g.stage = "children" /\ g.rest = Here.rest \ {x}
         /\ \A w \in Watched : Below(x, w[2]) => Due(Here, w)
         /\ \A w \in Watched : ~Below(x, w[2]) => (Due(g, w) <=> Due(Here, w))
<1>1. PICK m : m = Len(walk)
  OBVIOUS
<1>2. /\ Here = walk[m] /\ Here \in Frames /\ FrameOK(Here)
      /\ checks[n].first \in 1 .. m /\ m \in Segment(n)
      /\ n \in Nat /\ n # 0 /\ DOMAIN checks = 1 .. n
  BY <1>1, HereIs
<1>3. x \in Paths /\ Len(x) = Len(Here.node) + 1 /\ Below(Here.node, x) /\ Here.node \in Paths
  BY <1>2 DEF FrameOK, Frames
<1>4. Len(Here.node) \in Nat
  BY <1>3, PathIs
<1>5. Root(n) \in Frames /\ Walked(n)
  BY <1>1, <1>2, WalkIs DEF Root, WalkInv
<1>6. Root(n).old \in Values /\ Root(n).new \in Values
  BY <1>5 DEF Frames
<1>7. Here.old = Get(Root(n).old, Here.node) /\ Here.new = Get(Root(n).new, Here.node)
  BY <1>2, <1>5 DEF Walked
<1>8. /\ Child(Here.old, Last(x)) = Get(Root(n).old, x)
      /\ Child(Here.new, Last(x)) = Get(Root(n).new, x)
  BY <1>3, <1>6, <1>7, GetIs
<1>9. /\ g \in Frames /\ g.node = Here.node /\ g.old = Here.old /\ g.new = Here.new
      /\ g.stage = "children" /\ g.rest = Here.rest \ {x} /\ g.todo = Here.todo
  BY <1>2 DEF Frames
<1>10. FrameOK(g)
  BY <1>2, <1>9 DEF FrameOK
<1>11. \A w : Due(Here, w) <=> \E y \in Here.rest : Below(y, w[2])
  BY DEF Due
<1>12. \A w : Due(g, w) <=> \E y \in Here.rest \ {x} : Below(y, w[2])
  BY <1>9 DEF Due
<1> QED
  BY <1>3, <1>4, <1>6, <1>8, <1>9, <1>10, <1>11, <1>12

(* A child whose values are the same owes nothing. *)
LEMMA PassedOver ==
  ASSUME WalkInv, walk # <<>>, Here.stage = "children", NEW x \in Here.rest,
         UNCHANGED <<trie, checks, lost>>, MoveTo([Here EXCEPT !.rest = Here.rest \ {x}]),
         Child(Here.old, Last(x)) = Child(Here.new, Last(x))
  PROVE  WalkInv'
<1>1. UNCHANGED <<trie, lost>> /\ UNCHANGED checks
  OBVIOUS
<1>2. PICK m, n : m = Len(walk) /\ n = Len(checks)
  OBVIOUS
<1>3. PICK g : g = [Here EXCEPT !.rest = Here.rest \ {x}]
  OBVIOUS
<1>4. /\ Get(Root(n).old, x) = Get(Root(n).new, x)
      /\ Root(n).old \in Values /\ Root(n).new \in Values
      /\ g \in Frames /\ FrameOK(g) /\ g.node = Here.node /\ g.old = Here.old /\ g.new = Here.new
      /\ \A w \in Watched : Below(x, w[2]) => Due(Here, w)
      /\ \A w \in Watched : ~Below(x, w[2]) => (Due(g, w) <=> Due(Here, w))
  <2>1. /\ Child(Here.old, Last(x)) = Get(Root(n).old, x)
        /\ Child(Here.new, Last(x)) = Get(Root(n).new, x)
    BY <1>2, <1>3, ChildMet
  <2> QED
    BY <1>2, <1>3, <2>1, ChildMet
<1>5. /\ checks' \in Seq(CheckIn(m)) /\ Len(checks') = n
      /\ \A k \in 1 .. n : checks'[k] = checks[k]
      /\ Informed(n) /\ checks' = checks
  BY <1>1, <1>2, SameChecks
<1>6. /\ walk' \in Seq(Frames) /\ Len(walk') = m /\ walk'[m] = g
      /\ \A i \in 1 .. m - 1 : walk'[i] = walk[i]
      /\ Walked(n)'
      /\ \A p : Differs(n, p)' <=> Differs(n, p)
      /\ \A w : Owed(n, w) <=> Due(Here, w) \/ \E i \in Segment(n) \ {m} : Due(walk[i], w)
      /\ \A w : Owed(n, w)' <=> Due(g, w) \/ \E i \in Segment(n) \ {m} : Due(walk[i], w)
  <2>1. MoveTo(g)
    BY <1>3
  <2> QED
    BY <1>1, <1>2, <1>4, <1>5, <2>1, MoveWalk
<1>7. Watched' = Watched /\ Kept(n) \subseteq Watched
  BY <1>1, <1>5 DEF trie, Watched, Informed
<1>8. ASSUME NEW w \in Kept(n)
      PROVE  (Owed(n, w)' <=> Owed(n, w)) \/ (Times(n, w) = 0 /\ ~Differs(n, w[2]))
  <2>1. w \in Watched /\ w[2] \in Paths
    BY <1>7 DEF Watched
  <2>2. CASE ~Below(x, w[2])
    BY <1>4, <1>6, <2>1, <2>2
  <2>3. CASE Below(x, w[2])
    <3>1. Owed(n, w)
      BY <1>4, <1>6, <2>1, <2>3
    <3>2. Times(n, w) = 0
      BY <1>5, <3>1 DEF Informed
    <3>3. Get(Root(n).old, w[2]) = Get(Root(n).new, w[2])
      BY <1>4, <2>1, <2>3, GetSame
    <3> QED
      BY <3>2, <3>3 DEF Differs
  <2> QED
    BY <2>2, <2>3
<1>9. Informed(n)'
  BY <1>5, <1>6, <1>7, <1>8, SameInformed
<1>10. m \in {m, m + 1}
  OBVIOUS
<1> QED
  BY <1>1, <1>2, <1>4, <1>5, <1>6, <1>9, <1>10, TopStep

(* Going down *)
LEMMA GoneDown ==
  ASSUME WalkInv, walk # <<>>, Here.stage = "children", NEW x \in Here.rest,
         UNCHANGED <<trie, checks, lost>>,
         walk' = Append(Append(Front(walk), [Here EXCEPT !.rest = Here.rest \ {x}]),
                        FrameOf(x, Child(Here.old, Last(x)), Child(Here.new, Last(x))))
  PROVE  WalkInv'
<1>1. UNCHANGED <<trie, lost>> /\ UNCHANGED checks
  OBVIOUS
<1>2. PICK m, n : m = Len(walk) /\ n = Len(checks)
  OBVIOUS
<1>3. PICK g : g = [Here EXCEPT !.rest = Here.rest \ {x}]
  OBVIOUS
<1>4. PICK f : f = FrameOf(x, Child(Here.old, Last(x)), Child(Here.new, Last(x)))
  OBVIOUS
<1>5. /\ x \in Paths /\ Len(x) = Len(Here.node) + 1 /\ Below(Here.node, x) /\ Len(Here.node) \in Nat
      /\ Child(Here.old, Last(x)) = Get(Root(n).old, x)
      /\ Child(Here.new, Last(x)) = Get(Root(n).new, x)
      /\ Root(n).old \in Values /\ Root(n).new \in Values
      /\ g \in Frames /\ FrameOK(g) /\ g.node = Here.node /\ g.old = Here.old /\ g.new = Here.new
      /\ g.stage = "children" /\ g.rest = Here.rest \ {x}
      /\ \A w \in Watched : Below(x, w[2]) => Due(Here, w)
      /\ \A w \in Watched : ~Below(x, w[2]) => (Due(g, w) <=> Due(Here, w))
  BY <1>2, <1>3, ChildMet
<1>6. /\ f \in Frames /\ FrameOK(f) /\ f.node = x
      /\ f.old = Get(Root(n).old, x) /\ f.new = Get(Root(n).new, x)
      /\ \A w \in Watched : Due(f, w) => Below(x, w[2])
      /\ \A w \in Watched :
           Below(x, w[2]) /\ ~Due(f, w) => w[2] = x /\ Get(Root(n).old, x) = Get(Root(n).new, x)
  <2>1. TrieInv
    BY DEF WalkInv
  <2>2. Get(Root(n).old, x) \in Values /\ Get(Root(n).new, x) \in Values
    BY <1>5, GetIs
  <2>3. f = FrameOf(x, Get(Root(n).old, x), Get(Root(n).new, x))
    BY <1>4, <1>5
  <2>4. PICK old, new : old = Get(Root(n).old, x) /\ new = Get(Root(n).new, x)
    OBVIOUS
  <2>5. old \in Values /\ new \in Values /\ f = FrameOf(x, old, new)
    BY <2>2, <2>3, <2>4
  <2> QED
    BY <1>5, <2>1, <2>4, <2>5, FrameOfIs
<1>7. /\ m \in Nat /\ m # 0 /\ DOMAIN walk = 1 .. m /\ n \in Nat /\ n # 0 /\ DOMAIN checks = 1 .. n
      /\ Here = walk[m]
      /\ Segment(n) = checks[n].first .. m /\ checks[n].first \in 1 .. m
      /\ m \in Segment(n)
  BY <1>1, <1>2, HereIs
<1>8. /\ walk' \in Seq(Frames) /\ Len(walk') = m + 1 /\ walk'[m] = g /\ walk'[m + 1] = f
      /\ \A i \in 1 .. m - 1 : walk'[i] = walk[i]
  <2>1. PICK F : F = Frames
    OBVIOUS
  <2>2. walk \in Seq(F) /\ g \in F /\ f \in F /\ walk' = Append(Append(Front(walk), g), f)
    BY <1>3, <1>4, <1>5, <1>6, <2>1 DEF WalkInv
  <2>3. Front(walk) = [i \in 1 .. m - 1 |-> walk[i]]
    BY <1>2, <1>7, <2>2 DEF Front
  <2>4. PICK s, t : s = Front(walk) /\ t = Append(s, g)
    OBVIOUS
  <2>5. s \in Seq(F) /\ Len(s) = m - 1 /\ \A i \in 1 .. m - 1 : s[i] = walk[i]
    BY <1>7, <2>2, <2>3, <2>4
  <2>6. t \in Seq(F) /\ Len(t) = m /\ t[m] = g /\ \A i \in 1 .. m - 1 : t[i] = s[i]
    BY <1>7, <2>2, <2>4, <2>5
  <2>7. /\ Append(t, f) \in Seq(F) /\ Len(Append(t, f)) = m + 1 /\ Append(t, f)[m + 1] = f
        /\ \A i \in 1 .. m : Append(t, f)[i] = t[i]
    BY <1>7, <2>2, <2>6
  <2>8. m \in 1 .. m /\ \A i \in 1 .. m - 1 : i \in 1 .. m
    BY <1>7
  <2>9. walk' = Append(t, f)
    BY <2>2, <2>4
  <2>10. \A i \in 1 .. m - 1 : Append(t, f)[i] = walk[i]
    BY <2>5, <2>6, <2>7, <2>8
  <2>11. Append(t, f)[m] = g
    BY <2>6, <2>7, <2>8
  <2> QED
    BY <2>1, <2>7, <2>9, <2>10, <2>11
<1>9. \A i \in 1 .. m : /\ walk'[i].node = walk[i].node /\ walk'[i].old = walk[i].old
                        /\ walk'[i].new = walk[i].new
                        /\ i # m => walk'[i] = walk[i]
  BY <1>5, <1>7, <1>8
<1>10. /\ checks' \in Seq(CheckIn(m)) /\ Len(checks') = n
       /\ \A k \in 1 .. n : checks'[k] = checks[k]
       /\ Informed(n) /\ checks' = checks /\ Walked(n)
  BY <1>1, <1>2, SameChecks
<1>11. Segment(n)' = Segment(n) \cup {m + 1} /\ Segment(n) \subseteq 1 .. m
  <2>1. Segment(n)' = checks[n].first .. m + 1
    BY <1>7, <1>8, <1>10 DEF Segment
  <2> QED
    BY <1>7, <2>1
<1>12. /\ Root(n)'.old = Root(n).old /\ Root(n)'.new = Root(n).new
       /\ Root(n)'.node = Root(n).node
  BY <1>7, <1>9, <1>10, ZenonT(40) DEF Root
<1>13. \A p : Differs(n, p)' <=> Differs(n, p)
  BY <1>12 DEF Differs
<1>14. ASSUME NEW i \in Segment(n) PROVE Under(walk'[i], f)
  <2>1. CASE i = m
    <3>1. Len(g.node) < Len(f.node) /\ Below(g.node, f.node)
      BY <1>5, <1>6
    <3>2. ASSUME NEW y \in g.rest, Below(y, f.node) PROVE FALSE
      <4>1. y \in Here.rest /\ y # x
        BY <1>5, <3>2
      <4>2. Len(y) = Len(x)
        <5>1. FrameOK(Here)
          BY <1>2, HereIs
        <5> QED
          BY <1>5, <4>1, <5>1 DEF FrameOK
      <4>3. Len(x) \in Nat /\ Below(x, x)
        BY <1>5, BelowItself
      <4>4. Len(y) <= Len(x)
        BY <4>2, <4>3
      <4>5. y = x
        BY <1>5, <1>6, <3>2, <4>2, <4>3, <4>4, BelowOther
      <4> QED
        BY <4>1, <4>5
    <3> QED
      BY <1>5, <1>8, <2>1, <3>1, <3>2 DEF Under
  <2>2. CASE i # m
    <3>1. i \in 1 .. m
      BY <1>11
    <3>2. i < m
      BY <1>7, <2>2, <3>1
    <3>3. i < m /\ walk'[i] = walk[i]
      BY <1>9, <2>2, <3>1, <3>2
    <3>4. Under(walk[i], Here)
      BY <1>7, <1>10, <3>3 DEF Walked
    <3>5. walk[i] \in Frames /\ FrameOK(walk[i]) /\ walk[i].node \in Paths /\ Here.node \in Paths
      <4>1. walk[i] \in Frames /\ FrameOK(walk[i]) /\ walk[m] \in Frames
        BY <1>2, <1>7, <1>11, WalkIs
      <4> QED
        BY <1>7, <4>1 DEF Frames
    <3>6. Len(walk[i].node) \in Nat /\ Len(walk[i].node) < Len(Here.node) /\ Below(walk[i].node, Here.node)
      BY <3>4, <3>5, PathIs DEF Under
    <3>7. Len(walk[i].node) < Len(x) /\ Below(walk[i].node, x)
      BY <1>5, <3>6, BelowBelow
    <3>8. ASSUME NEW y \in walk[i].rest, Below(y, x) PROVE FALSE
      <4>1. Len(y) = Len(walk[i].node) + 1
        BY <3>5 DEF FrameOK
      <4>2. Len(y) <= Len(Here.node)
        BY <1>5, <3>6, <4>1
      <4>3. Below(y, Here.node)
        BY <1>5, <3>8, <4>2, BelowOther
      <4> QED
        BY <3>4, <4>3 DEF Under
    <3> QED
      BY <1>6, <3>3, <3>4, <3>7, <3>8 DEF Under
  <2> QED
    BY <2>1, <2>2
<1>15. Walked(n)'
  <2>1. ASSUME NEW i \in Segment(n) \cup {m + 1}
        PROVE  walk'[i].old = Get(Root(n)'.old, walk'[i].node) /\ walk'[i].new = Get(Root(n)'.new, walk'[i].node)
    <3>1. CASE i = m + 1
      BY <1>6, <1>8, <1>12, <3>1
    <3>2. CASE i \in Segment(n)
      BY <1>9, <1>10, <1>11, <1>12, <3>2 DEF Walked
    <3> QED
      BY <3>1, <3>2
  <2>2. ASSUME NEW i \in Segment(n) \cup {m + 1}, NEW j \in Segment(n) \cup {m + 1}, i < j
        PROVE  Under(walk'[i], walk'[j])
    <3>1. i \in Segment(n)
      BY <1>7, <1>11, <2>2
    <3>2. CASE j = m + 1
      BY <1>8, <1>14, <3>1, <3>2
    <3>3. CASE j \in Segment(n)
      <4>1. i \in 1 .. m /\ j \in 1 .. m
        BY <1>11, <3>1, <3>3
      <4>2. i # m
        BY <1>7, <2>2, <4>1
      <4>3. walk'[i] = walk[i] /\ walk'[j].node = walk[j].node
        BY <1>9, <4>1, <4>2
      <4>4. Under(walk[i], walk[j])
        BY <1>10, <2>2, <3>1, <3>3 DEF Walked
      <4> QED
        BY <4>3, <4>4 DEF Under
    <3> QED
      BY <3>2, <3>3
  <2>3. Root(n)'.node = <<>>
    BY <1>10, <1>12 DEF Walked
  <2> QED
    BY <1>11, <2>1, <2>2, <2>3 DEF Walked
<1>16. \A w : Owed(n, w) <=> Due(Here, w) \/ \E i \in Segment(n) \ {m} : Due(walk[i], w)
  BY <1>7 DEF Owed
<1>17. \A w : Owed(n, w)' <=> Due(f, w) \/ Due(g, w) \/ \E i \in Segment(n) \ {m} : Due(walk[i], w)
  <2>1. \A i \in Segment(n) \ {m} : walk'[i] = walk[i]
    BY <1>9, <1>11
  <2> QED
    BY <1>7, <1>8, <1>11, <2>1 DEF Owed
<1>18. Watched' = Watched /\ Kept(n) \subseteq Watched
  BY <1>1, <1>10 DEF trie, Watched, Informed
<1>19. ASSUME NEW w \in Kept(n)
       PROVE  (Owed(n, w)' <=> Owed(n, w)) \/ (Times(n, w) = 0 /\ ~Differs(n, w[2]))
  <2>1. w \in Watched
    BY <1>18
  <2>2. CASE ~Below(x, w[2])
    BY <1>5, <1>6, <1>16, <1>17, <2>1, <2>2
  <2>3. CASE Below(x, w[2])
    <3>1. Owed(n, w)
      BY <1>5, <1>16, <2>1, <2>3
    <3>2. Times(n, w) = 0
      BY <1>10, <3>1 DEF Informed
    <3>3. CASE Due(f, w)
      BY <1>17, <3>1, <3>3
    <3>4. CASE ~Due(f, w)
      BY <1>6, <2>1, <2>3, <3>2, <3>4 DEF Differs
    <3> QED
      BY <3>3, <3>4
  <2> QED
    BY <2>2, <2>3
<1>20. Informed(n)'
  BY <1>10, <1>13, <1>18, <1>19, SameInformed
<1>21. m + 1 \in {m, m + 1}
  OBVIOUS
<1> QED
  BY <1>1, <1>2, <1>5, <1>6, <1>8, <1>10, <1>15, <1>20, <1>21, TopStep

(* The end of the walk, with one frame or with two. *)
LEMMA Joined ==
  ASSUME NEW S, NEW s \in Seq(S), NEW g \in S, NEW f \in S
  PROVE  s \o <<g>> \o <<>> = Append(s, g) /\ s \o <<g>> \o <<f>> = Append(Append(s, g), f)
<1>1. s \o <<g>> = Append(s, g) /\ Append(s, g) \in Seq(S)
  OBVIOUS
<1>2. PICK t : t = Append(s, g)
  OBVIOUS
<1>3. t \in Seq(S)
  BY <1>1, <1>2
<1>4. t \o <<f>> = Append(t, f) /\ t \o <<>> = t
  BY <1>3
<1> QED
  BY <1>1, <1>2, <1>4

(* What the node owed below a child, the child owes now. *)
LEMMA VisitInv ==
  ASSUME WalkInv, Walks, Here.stage = "children", NEW x \in Here.rest \cap nodes, Visit(x)
  PROVE  WalkInv'
<1>1. PICK old, new : old = Child(Here.old, Last(x)) /\ new = Child(Here.new, Last(x))
  OBVIOUS
<1>2. PICK g, f : g = [Here EXCEPT !.rest = Here.rest \ {x}] /\ f = FrameOf(x, old, new)
  OBVIOUS
<1>3. PICK shared \in Shares(old, new) :
        walk' = Front(walk) \o <<g>> \o (IF shared THEN <<>> ELSE <<f>>)
  BY <1>1, <1>2 DEF Visit
<1>4. walk # <<>> /\ UNCHANGED <<trie, checks, lost>>
  BY DEF Walks, Visit
<1>5. PICK m, n : m = Len(walk) /\ n = Len(checks)
  OBVIOUS
<1>6. Front(walk) \in Seq(Frames)
  <2>1. PICK F : F = Frames
    OBVIOUS
  <2>2. walk \in Seq(F) /\ Len(walk) \in Nat /\ Len(walk) # 0
    BY <1>4, <2>1, HereIs DEF WalkInv
  <2>3. Front(walk) \in Seq(F)
    BY <2>2 DEF Front
  <2> QED
    BY <2>1, <2>3
<1>7. g \in Frames /\ f \in Frames
  <2>1. TrieInv
    BY DEF WalkInv
  <2>2. /\ g \in Frames /\ x \in Paths
        /\ old = Get(Root(n).old, x) /\ new = Get(Root(n).new, x)
        /\ Root(n).old \in Values /\ Root(n).new \in Values
    BY <1>1, <1>2, <1>4, <1>5, ChildMet
  <2>3. old \in Values /\ new \in Values
    BY <2>2, GetIs
  <2> QED
    BY <1>2, <2>1, <2>2, <2>3, FrameOfIs
<1>8. CASE shared
  <2>1. old = new
    BY <1>3, <1>8 DEF Shares
  <2>2. walk' = Append(Front(walk), g)
    BY <1>3, <1>6, <1>7, <1>8, Joined
  <2> QED
    BY <1>1, <1>2, <1>4, <2>1, <2>2, PassedOver DEF MoveTo
<1>9. CASE ~shared
  <2>1. PICK s, F : s = Front(walk) /\ F = Frames
    OBVIOUS
  <2>2. walk' = Append(Append(Front(walk), g), f)
    <3>1. s \in Seq(F) /\ g \in F /\ f \in F
      BY <1>6, <1>7, <2>1
    <3>2. s \o <<g>> \o <<f>> = Append(Append(s, g), f)
      BY <3>1, Joined
    <3>3. walk' = s \o <<g>> \o <<f>>
      BY <1>3, <1>9, <2>1
    <3> QED
      BY <2>1, <3>2, <3>3
  <2> QED
    BY <1>1, <1>2, <1>4, <2>2, GoneDown
<1> QED
  BY <1>8, <1>9

------------------------------------------------------------------------------
(* Coming back *)

(* A call of check_node that is through owes nothing to what is kept. *)
LEMMA Through ==
  ASSUME WalkInv, AllVisited, NEW w \in Watched
  PROVE  ~Due(Here, w)
<1>1. walk # <<>> /\ Here.stage = "children" /\ Here.rest \cap nodes = {}
  BY DEF AllVisited, Walks
<1>2. TrieInv /\ FrameOK(Here) /\ Here \in Frames
  BY <1>1, HereIs DEF WalkInv
<1>3. ASSUME NEW x \in Here.rest, Below(x, w[2]) PROVE FALSE
  <2>1. Len(x) = Len(Here.node) + 1 /\ Here.node \in Paths
    BY <1>2 DEF FrameOK, Frames
  <2>2. Len(Here.node) \in Nat
    BY <2>1, PathIs
  <2>3. x # <<>>
    BY <2>1, <2>2
  <2>4. x \in nodes
    BY <1>2, <1>3, <2>3, HasNodes
  <2> QED
    BY <1>1, <2>4
<1> QED
  BY <1>1, <1>3 DEF Due

(* The innermost check goes, returning or by an exception. *)
LEMMA EndCheck ==
  ASSUME WalkInv, walk # <<>>, UNCHANGED <<trie, lost>>,
         walk' = SubSeq(walk, 1, checks[Len(checks)].first - 1), checks' = Front(checks)
  PROVE  WalkInv'
<1>1. PICK m, n : m = Len(walk) /\ n = Len(checks)
  OBVIOUS
<1>2. PICK h : h = checks[n].first - 1
  OBVIOUS
<1>3. /\ m \in Nat /\ m # 0 /\ DOMAIN walk = 1 .. m /\ n \in Nat /\ n # 0 /\ DOMAIN checks = 1 .. n
      /\ checks[n].first \in 1 .. m /\ h \in 0 .. m - 1
  BY <1>1, <1>2, HereIs
<1>4. /\ walk' \in Seq(Frames) /\ Len(walk') = h /\ DOMAIN walk' = 1 .. h
      /\ \A i \in 1 .. h : walk'[i] = walk[i]
  <2>1. PICK F : F = Frames
    OBVIOUS
  <2>2. walk \in Seq(F) /\ walk' = SubSeq(walk, 1, h)
    BY <1>1, <1>2, <2>1 DEF WalkInv
  <2>3. /\ SubSeq(walk, 1, h) \in Seq(F) /\ Len(SubSeq(walk, 1, h)) = h
        /\ \A i \in 1 .. h : SubSeq(walk, 1, h)[i] = walk[i]
    BY <1>1, <1>3, <2>2
  <2> QED
    BY <1>3, <2>1, <2>2, <2>3
<1>5. \A k \in 1 .. n - 1 : checks[k] \in CheckIn(h)
  <2>1. ASSUME NEW k \in 1 .. n - 1 PROVE checks[k] \in CheckIn(h)
    <3>1. k \in 1 .. n /\ k < n
      BY <1>3
    <3>2. checks[k] \in CheckIn(m)
      BY <1>1, <3>1, WalkIs
    <3>3. checks[k].first < checks[n].first
      BY <1>1, <3>1, SegmentIs
    <3>4. checks[k].first \in 1 .. h
      BY <1>2, <1>3, <3>2, <3>3 DEF CheckIn
    <3> QED
      BY <3>2, <3>4 DEF CheckIn
  <2> QED
    BY <2>1
<1>6. /\ checks' \in Seq(CheckIn(h)) /\ Len(checks') = n - 1 /\ DOMAIN checks' = 1 .. n - 1
      /\ \A k \in 1 .. n - 1 : checks'[k] = checks[k]
  <2>1. PICK C, D : C = CheckIn(h) /\ D = CheckIn(m)
    OBVIOUS
  <2>2. checks \in Seq(D) /\ Len(checks) = n
    BY <1>1, <2>1 DEF WalkInv
  <2>3. Front(checks) = [k \in 1 .. n - 1 |-> checks[k]]
    BY <1>3, <2>2 DEF Front
  <2>4. \A k \in 1 .. n - 1 : checks[k] \in C
    BY <1>5, <2>1
  <2>5. PICK s : s = [k \in 1 .. n - 1 |-> checks[k]]
    OBVIOUS
  <2>6. s \in Seq(C) /\ Len(s) = n - 1 /\ DOMAIN s = 1 .. n - 1 /\ \A k \in 1 .. n - 1 : s[k] = checks[k]
    BY <1>3, <2>4, <2>5
  <2>7. checks' = s
    BY <2>3, <2>5
  <2> QED
    BY <2>1, <2>6, <2>7
<1>7. Nested'
  <2>1. Nested /\ checks # <<>>
    BY DEF WalkInv, Nested
  <2>2. (walk' = <<>> <=> h = 0) /\ (checks' = <<>> <=> n = 1)
    BY <1>3, <1>4, <1>6, EmptySeq
  <2>3. h = 0 <=> n = 1
    <3>1. ASSUME n = 1 PROVE h = 0
      BY <1>2, <2>1, <3>1 DEF Nested
    <3>2. ASSUME n # 1 PROVE h # 0
      <4>1. n - 1 \in 1 .. n - 1
        BY <1>3, <3>2
      <4>2. checks[n - 1].first \in 1 .. h
        BY <1>5, <4>1 DEF CheckIn
      <4> QED
        BY <1>3, <4>2
    <3> QED
      BY <3>1, <3>2
  <2>4. checks' # <<>> => checks'[1].first = 1
    <3>1. checks' # <<>> => 1 \in 1 .. n - 1
      BY <1>3, <2>2
    <3> QED
      BY <1>6, <2>1, <3>1 DEF Nested
  <2>5. \A k, l \in 1 .. n - 1 : k < l => checks'[k].first < checks'[l].first
    <3>1. \A k \in 1 .. n - 1 : k \in 1 .. n
      BY <1>3
    <3> QED
      BY <1>3, <1>6, <2>1, <3>1 DEF Nested
  <2> QED
    BY <1>6, <2>2, <2>3, <2>4, <2>5 DEF Nested
<1>8. TrieInv' /\ Watched' = Watched
  <2>1. TrieInv
    BY DEF WalkInv
  <2> QED
    BY <2>1, TrieStays DEF trie, Watched
<1>9. ASSUME NEW k \in 1 .. n - 1 PROVE Walked(k)' /\ Informed(k)'
  <2>1. k \in 1 .. n /\ k < n /\ k + 1 \in 1 .. n
    BY <1>3
  <2>2. Walked(k) /\ Informed(k)
    BY <1>3, <2>1 DEF WalkInv
  <2>3. /\ checks[k].first \in Segment(k) /\ Segment(k) \subseteq 1 .. m
        /\ \A i \in Segment(k) : i < checks[n].first
    BY <1>1, <2>1, SegmentIs
  <2>4. checks'[k] = checks[k]
    BY <1>6
  <2>5. Segment(k) = checks[k].first .. checks[k + 1].first - 1
    BY <1>1, <2>1 DEF Segment
  <2>6. Segment(k)' = Segment(k)
    <3>1. CASE k < n - 1
      <4>1. k + 1 \in 1 .. n - 1
        BY <1>3, <3>1
      <4> QED
        BY <1>6, <2>4, <2>5, <3>1, <4>1 DEF Segment
    <3>2. CASE k = n - 1
      <4>1. ~(k < n - 1) /\ k + 1 = n
        BY <1>3, <3>2
      <4> QED
        BY <1>2, <1>4, <1>6, <2>4, <2>5, <4>1 DEF Segment
    <3> QED
      BY <1>3, <3>1, <3>2
  <2>7. \A i \in Segment(k) : walk'[i] = walk[i]
    <3>1. \A i \in Segment(k) : i \in 1 .. h
      BY <1>2, <1>3, <2>3
    <3> QED
      BY <1>4, <3>1
  <2>8. Kept(k)' = Kept(k) /\ Kept(k) \subseteq Watched
    BY <2>2, <2>4 DEF Kept, Informed
  <2> QED
    BY <1>8, <2>2, <2>3, <2>4, <2>6, <2>7, <2>8, CheckStays
<1>10. \A i \in DOMAIN walk' : FrameOK(walk'[i])
  <2>1. ASSUME NEW i \in 1 .. h PROVE FrameOK(walk'[i])
    <3>1. i \in 1 .. m /\ walk'[i] = walk[i]
      BY <1>3, <1>4
    <3>2. FrameOK(walk[i])
      BY <1>1, <3>1, WalkIs
    <3> QED
      BY <3>1, <3>2
  <2> QED
    BY <1>4, <2>1
<1>11. \A k \in DOMAIN checks' : Walked(k)' /\ Informed(k)'
  BY <1>6, <1>9
<1>12. lost' \in BOOLEAN
  BY DEF WalkInv
<1> QED
  BY <1>4, <1>6, <1>7, <1>8, <1>10, <1>11, <1>12 DEF WalkInv

(* A throw takes one check away and leaves those outside it. *)
LEMMA ThrowInv == WalkInv /\ Throw => WalkInv'
<1> SUFFICES ASSUME WalkInv, Throw PROVE WalkInv'
  OBVIOUS
<1>1. /\ walk # <<>> /\ UNCHANGED <<trie, lost>> /\ checks' = Front(checks)
      /\ walk' = SubSeq(walk, 1, Last(checks).first - 1)
  BY DEF Throw
<1>2. Last(checks) = checks[Len(checks)]
  BY DEF Last
<1> QED
  BY <1>1, <1>2, EndCheck

(* Only the first call of a check is at the root. *)
LEMMA RootFirst ==
  ASSUME WalkInv, walk # <<>>
  PROVE  Here.node = <<>> <=> checks[Len(checks)].first = Len(walk)
<1>1. PICK m, n : m = Len(walk) /\ n = Len(checks)
  OBVIOUS
<1>2. /\ m \in Nat /\ Here = walk[m] /\ n \in Nat /\ n # 0 /\ DOMAIN checks = 1 .. n
      /\ Segment(n) = checks[n].first .. m /\ checks[n].first \in 1 .. m /\ m \in Segment(n)
  BY <1>1, HereIs
<1>3. Walked(n)
  BY <1>2 DEF WalkInv
<1>4. CASE checks[n].first = m
  BY <1>1, <1>2, <1>3, <1>4 DEF Walked, Root
<1>5. CASE checks[n].first # m
  <2>1. checks[n].first < m /\ checks[n].first \in Segment(n)
    BY <1>2, <1>5
  <2>2. Under(walk[checks[n].first], walk[m])
    BY <1>2, <1>3, <2>1 DEF Walked
  <2>3. walk[checks[n].first].node = <<>>
    BY <1>3 DEF Walked, Root
  <2>4. Len(walk[m].node) # 0
    BY <2>2, <2>3 DEF Under
  <2> QED
    BY <1>1, <1>2, <1>5, <2>4
<1> QED
  BY <1>4, <1>5

(* A node with no children left to visit owes nothing. *)
LEMMA NodeDoneInv == WalkInv /\ NodeDone => WalkInv'
<1> SUFFICES ASSUME WalkInv, NodeDone PROVE WalkInv'
  OBVIOUS
<1>1. /\ AllVisited /\ walk # <<>> /\ UNCHANGED <<trie, lost>> /\ walk' = Front(walk)
      /\ checks' = IF Here.node = <<>> THEN Front(checks) ELSE checks
  BY DEF NodeDone, AllVisited, Walks
<1>2. PICK m, n : m = Len(walk) /\ n = Len(checks)
  OBVIOUS
<1>3. /\ m \in Nat /\ m # 0 /\ DOMAIN walk = 1 .. m /\ n \in Nat /\ n # 0 /\ DOMAIN checks = 1 .. n
      /\ checks[n].first \in 1 .. m /\ Here = walk[m]
      /\ Segment(n) = checks[n].first .. m /\ m \in Segment(n)
  BY <1>1, <1>2, HereIs
<1>4. PICK F : F = Frames
  OBVIOUS
<1>5. /\ walk' \in Seq(F) /\ Len(walk') = m - 1 /\ DOMAIN walk' = 1 .. m - 1
      /\ walk' = SubSeq(walk, 1, m - 1)
      /\ \A i \in 1 .. m - 1 : walk'[i] = walk[i]
  <2>1. walk \in Seq(F)
    BY <1>4 DEF WalkInv
  <2>2. Front(walk) = [i \in 1 .. m - 1 |-> walk[i]]
    BY <1>2, <1>3, <2>1 DEF Front
  <2>3. SubSeq(walk, 1, m - 1) = [i \in 1 .. m - 1 |-> walk[i]]
    BY <1>2, <1>3, <2>1
  <2>4. PICK s : s = [i \in 1 .. m - 1 |-> walk[i]]
    OBVIOUS
  <2>5. \A i \in 1 .. m - 1 : walk[i] \in F
    BY <1>2, <1>3, <2>1
  <2>6. s \in Seq(F) /\ Len(s) = m - 1 /\ DOMAIN s = 1 .. m - 1 /\ \A i \in 1 .. m - 1 : s[i] = walk[i]
    BY <1>3, <2>4, <2>5
  <2> QED
    BY <1>1, <2>2, <2>3, <2>4, <2>6
<1>6. CASE Here.node = <<>>
  <2>1. checks[n].first = m
    BY <1>1, <1>2, <1>6, RootFirst
  <2>2. walk' = SubSeq(walk, 1, checks[Len(checks)].first - 1) /\ checks' = Front(checks)
    BY <1>1, <1>2, <1>5, <1>6, <2>1
  <2> QED
    BY <1>1, <2>2, EndCheck
<1>7. CASE Here.node # <<>>
  <2>1. checks[n].first # m /\ checks' = checks
    BY <1>1, <1>2, <1>7, RootFirst
  <2>2. checks[n].first \in 1 .. m - 1
    BY <1>3, <2>1
  <2>3. TrieInv' /\ Watched' = Watched
    <3>1. TrieInv
      BY DEF WalkInv
    <3> QED
      BY <1>1, <3>1, TrieStays DEF trie, Watched
  <2>4. ASSUME NEW k \in 1 .. n PROVE checks[k] \in CheckIn(m - 1)
    <3>1. checks[k] \in CheckIn(m)
      BY <1>2, WalkIs
    <3>2. checks[k].first <= checks[n].first
      <4>1. k < n => checks[k].first < checks[n].first
        BY <1>2, SegmentIs
      <4>2. checks[k].first \in 1 .. m
        BY <3>1 DEF CheckIn
      <4> QED
        BY <1>3, <4>1, <4>2
    <3>3. checks[k].first \in 1 .. m - 1
      BY <1>3, <2>2, <3>1, <3>2 DEF CheckIn
    <3> QED
      BY <3>1, <3>3 DEF CheckIn
  <2>5. checks' \in Seq(CheckIn(m - 1))
    <3>1. PICK C, D : C = CheckIn(m - 1) /\ D = CheckIn(m)
      OBVIOUS
    <3>2. checks \in Seq(D) /\ \A k \in 1 .. n : checks[k] \in C
      BY <1>2, <2>4, <3>1 DEF WalkInv
    <3>3. checks = [k \in 1 .. n |-> checks[k]]
      BY <1>3, <3>2
    <3>4. [k \in 1 .. n |-> checks[k]] \in Seq(C)
      BY <1>3, <3>2
    <3>5. checks \in Seq(C)
      BY <3>3, <3>4
    <3> QED
      BY <2>1, <3>1, <3>5
  <2>6. Nested'
    <3>1. Nested /\ checks # <<>>
      BY <1>1 DEF WalkInv, Nested
    <3>2. walk' # <<>>
      BY <1>3, <1>5, <2>2, EmptySeq
    <3> QED
      BY <2>1, <3>1, <3>2 DEF Nested
  <2>7. ASSUME NEW k \in 1 .. n, k # n PROVE Walked(k)' /\ Informed(k)'
    <3>1. k < n
      BY <1>3, <2>7
    <3>2. Walked(k) /\ Informed(k)
      BY <1>3 DEF WalkInv
    <3>3. /\ checks[k].first \in Segment(k) /\ Segment(k) \subseteq 1 .. m
          /\ \A i \in Segment(k) : i < checks[n].first
      BY <1>2, <3>1, SegmentIs
    <3>4. Segment(k)' = Segment(k)
      BY <1>2, <2>1, <3>1 DEF Segment
    <3>5. \A i \in Segment(k) : walk'[i] = walk[i]
      <4>1. \A i \in Segment(k) : i \in 1 .. m - 1
        BY <1>3, <3>3
      <4> QED
        BY <1>5, <4>1
    <3>6. Kept(k)' = Kept(k) /\ Kept(k) \subseteq Watched
      BY <2>1, <3>2 DEF Kept, Informed
    <3> QED
      BY <2>1, <2>3, <3>2, <3>3, <3>4, <3>5, <3>6, CheckStays
  <2>8. Walked(n) /\ Informed(n)
    BY <1>3 DEF WalkInv
  <2>9. Segment(n)' = Segment(n) \ {m} /\ \A i \in Segment(n) \ {m} : walk'[i] = walk[i]
    <3>1. Segment(n)' = checks[n].first .. m - 1
      BY <1>2, <1>3, <1>5, <2>1 DEF Segment
    <3>2. Segment(n)' = Segment(n) \ {m}
      BY <1>3, <3>1
    <3>3. \A i \in Segment(n) \ {m} : i \in 1 .. m - 1
      BY <1>3
    <3> QED
      BY <1>5, <3>2, <3>3
  <2>10. Root(n)' = Root(n)
    BY <1>5, <2>1, <2>2 DEF Root
  <2>11. Walked(n)'
    BY <2>8, <2>9, <2>10 DEF Walked
  <2>12. \A p : Differs(n, p)' <=> Differs(n, p)
    BY <2>10 DEF Differs
  <2>13. ASSUME NEW w \in Kept(n) PROVE Owed(n, w)' <=> Owed(n, w)
    <3>1. w \in Watched
      BY <2>8 DEF Informed
    <3>2. ~Due(walk[m], w)
      BY <1>1, <1>3, <3>1, Through
    <3> QED
      BY <1>3, <2>9, <3>2 DEF Owed
  <2>14. Informed(n)'
    BY <2>1, <2>3, <2>8, <2>12, <2>13, SameInformed
  <2>15. \A k \in DOMAIN checks' : Walked(k)' /\ Informed(k)'
    BY <1>3, <2>1, <2>7, <2>11, <2>14
  <2>16. \A i \in DOMAIN walk' : FrameOK(walk'[i])
    <3>1. ASSUME NEW i \in 1 .. m - 1 PROVE FrameOK(walk'[i])
      <4>1. i \in 1 .. m /\ walk'[i] = walk[i]
        BY <1>3, <1>5
      <4>2. FrameOK(walk[i])
        BY <1>2, <4>1, WalkIs
      <4> QED
        BY <4>1, <4>2
    <3> QED
      BY <1>5, <3>1
  <2>17. lost' \in BOOLEAN
    BY <1>1 DEF WalkInv
  <2> QED
    BY <1>4, <1>5, <2>3, <2>5, <2>6, <2>15, <2>16, <2>17 DEF WalkInv
<1> QED
  BY <1>6, <1>7

------------------------------------------------------------------------------
LEMMA WalkStays == WalkInv /\ UNCHANGED watcherVars => WalkInv'
<1> SUFFICES ASSUME WalkInv, UNCHANGED watcherVars PROVE WalkInv'
  OBVIOUS
<1>1. /\ UNCHANGED trie /\ walk' = walk /\ checks' = checks /\ lost' = lost
      /\ callbacks' = callbacks
  BY DEF watcherVars, trie
<1>2. TrieInv' /\ Watched' = Watched
  <2>1. TrieInv
    BY DEF WalkInv
  <2> QED
    BY <1>1, <2>1, TrieStays DEF Watched
<1>3. ASSUME NEW k \in DOMAIN checks PROVE Walked(k)' /\ Informed(k)'
  <2>1. Walked(k) /\ Informed(k)
    BY Zenon DEF WalkInv
  <2>2. checks[k].first \in Segment(k)
    BY WalkIs, SegmentIs
  <2>3. Segment(k)' = Segment(k) /\ Kept(k)' = Kept(k) /\ Kept(k) \subseteq Watched
    BY <1>1, <2>1 DEF Segment, Kept, Informed
  <2> QED
    BY <1>1, <1>2, <2>1, <2>2, <2>3, CheckStays
<1>4. Nested'
  BY <1>1 DEF WalkInv, Nested
<1> QED
  BY <1>1, <1>2, <1>3, <1>4 DEF WalkInv

LEMMA WalkStep == WalkInv /\ [WatcherNext]_watcherVars => WalkInv'
<1> SUFFICES ASSUME WalkInv, [WatcherNext]_watcherVars PROVE WalkInv'
  OBVIOUS
<1>1. CASE \E c \in Callbacks, p \in Paths : Watch(c, p)
  BY <1>1, WatchInv
<1>2. CASE \E p \in Paths : Unwatch(p)
  BY <1>2, UnwatchInv
<1>3. CASE Clear
  BY <1>3, ClearInv
<1>4. CASE \E old, new \in States : Check(old, new)
  BY <1>4, CheckInv
<1>5. CASE Call \/ Return \/ Throw
  BY <1>5, CallInv, ReturnInv, ThrowInv
<1>6. CASE ToChildren \/ NodeDone
  BY <1>6, ToChildrenInv, NodeDoneInv
<1>7. CASE Walks /\ Here.stage = "children" /\ \E x \in Here.rest \cap nodes : Visit(x)
  BY <1>7, VisitInv
<1>8. CASE UNCHANGED watcherVars
  BY <1>8, WalkStays
<1> QED
  BY <1>1, <1>2, <1>3, <1>4, <1>5, <1>6, <1>7, <1>8 DEF WatcherNext

LEMMA WalkAlways == WatcherSpec => []WalkInv
BY WalkStarts, WalkStep, PTL DEF WatcherSpec

(* The trie, the walk and its checks have the types that are declared. *)
THEOREM WatcherTyped == WatcherSpec => []WatcherTypeOK
<1>1. WalkInv => WatcherTypeOK
  <2> SUFFICES ASSUME WalkInv PROVE WatcherTypeOK
    OBVIOUS
  <2>1. /\ TrieInv /\ walk \in Seq(Frames) /\ checks \in Seq(CheckIn(Len(walk))) /\ lost \in BOOLEAN
        /\ DOMAIN walk = 1 .. Len(walk)
    BY WalkIs DEF WalkInv
  <2>2. watchCount \in Nat
    BY <2>1, FS_CardinalityType DEF TrieInv
  <2>3. CheckIn(Len(walk)) = [first : DOMAIN walk, began : SUBSET (Callbacks \X Paths),
                              touched : SUBSET (Callbacks \X Paths), called : Seq(Callbacks \X Paths)]
    BY <2>1 DEF CheckIn
  <2>4. callbacks \in [Paths -> Seq(Callbacks)] /\ nodes \subseteq Paths
    BY <2>1 DEF TrieInv
  <2> QED
    BY <2>1, <2>2, <2>3, <2>4, Zenon DEF WatcherTypeOK
<1> QED
  BY <1>1, WalkAlways, PTL

(* A check that is over has called every callback that was registered all the
   while and whose value changed, once, and none whose value is the same
   (path_watcher.cpp:219-285). *)
THEOREM WatchersCalled == WatcherSpec => []CalledIfChanged
<1>1. WalkInv => CalledIfChanged
  <2> SUFFICES ASSUME WalkInv, AllVisited, Here.node = <<>> PROVE CalledIfChanged
    BY DEF CalledIfChanged
  <2>1. PICK m, n : m = Len(walk) /\ n = Len(checks)
    OBVIOUS
  <2>2. walk # <<>>
    BY DEF AllVisited, Walks
  <2>3. /\ m \in Nat /\ n \in Nat /\ n # 0 /\ DOMAIN checks = 1 .. n /\ Here = walk[m]
        /\ Segment(n) = checks[n].first .. m
    BY <2>1, <2>2, HereIs
  <2>4. checks[n].first = m
    BY <2>1, <2>2, RootFirst
  <2>5. Segment(n) = {m} /\ Root(n) = Here
    BY <2>3, <2>4 DEF Root
  <2>6. Informed(n) /\ Last(checks) = checks[n]
    BY <2>1, <2>3 DEF WalkInv, Last
  <2>7. \A p : Differs(n, p) <=> Get(Here.old, p) # Get(Here.new, p)
    BY <2>5 DEF Differs
  <2>8. ASSUME NEW w \in checks[n].began \ checks[n].touched, Get(Here.old, w[2]) # Get(Here.new, w[2])
        PROVE  Cardinality({i \in DOMAIN checks[n].called : checks[n].called[i] = w}) = 1
    <3>1. w \in Kept(n) /\ w \in Watched
      BY <2>6 DEF Kept, Informed
    <3>2. ~Due(walk[m], w)
      BY <2>3, <3>1, Through
    <3>3. ~Owed(n, w)
      BY <2>5, <3>2 DEF Owed
    <3>4. Times(n, w) = 1
      BY <2>6, <2>7, <2>8, <3>1, <3>3 DEF Informed
    <3> QED
      BY <3>4 DEF Times, Occurrences
  <2>9. ASSUME NEW w \in ToSet(checks[n].called) PROVE Get(Here.old, w[2]) # Get(Here.new, w[2])
    BY <2>6, <2>7 DEF Informed
  <2>10. PICK c : c = Last(checks)
    OBVIOUS
  <2>11. /\ \A w \in c.began \ c.touched :
             Get(Here.old, w[2]) # Get(Here.new, w[2])
               => Cardinality({i \in DOMAIN c.called : c.called[i] = w}) = 1
         /\ \A w \in ToSet(c.called) : Get(Here.old, w[2]) # Get(Here.new, w[2])
    BY <2>6, <2>8, <2>9, <2>10
  <2> QED
    BY <2>10, <2>11, Zenon DEF CalledIfChanged
<1> QED
  BY <1>1, WalkAlways, PTL
=============================================================================
