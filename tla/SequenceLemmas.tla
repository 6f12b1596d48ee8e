--------------------------- MODULE SequenceLemmas ---------------------------
(* What the proofs about histories and lists use of sequences: stacks as
   sequences of whatever they hold, the removal of one entry, and folds. *)
EXTENDS Integers, FiniteSets, SequencesExt, SequenceTheorems, FiniteSetTheorems,
        WellFoundedInduction, TLAPS

(* A sequence over any set is one over the set of its entries. *)
LEMMA OwnEntries == ASSUME NEW T, NEW s \in Seq(T) PROVE s \in Seq(ToSet(s)) /\ Len(s) \in Nat
<1>1. \A i \in 1 .. Len(s) : s[i] \in ToSet(s)
  BY DEF ToSet
<1> QED
  BY <1>1

(* Pushing on a sequence gives one that is longer by one. *)
LEMMA Grow ==
  ASSUME NEW s, NEW e, s \in Seq(ToSet(s))
  PROVE  /\ Append(s, e) \in Seq(ToSet(Append(s, e)))
         /\ Len(Append(s, e)) = Len(s) + 1
         /\ Len(s) \in Nat
<1> DEFINE S == ToSet(s) \cup {e}
<1>1. s \in Seq(S)
  BY DEF ToSet
<1>2. Append(s, e) \in Seq(S) /\ Len(Append(s, e)) = Len(s) + 1 /\ Len(s) \in Nat
  BY <1>1
<1> QED
  BY <1>2, OwnEntries

(* Without its first or without its last entry a sequence is shorter by one. *)
LEMMA Drop ==
  ASSUME NEW s, s \in Seq(ToSet(s)), s # <<>>
  PROVE  /\ Tail(s) \in Seq(ToSet(Tail(s))) /\ Len(Tail(s)) = Len(s) - 1
         /\ Front(s) \in Seq(ToSet(Front(s))) /\ Len(Front(s)) = Len(s) - 1
         /\ Len(s) \in Nat \ {0}
<1> DEFINE S == ToSet(s)
<1> HIDE DEF S
<1>0. s \in Seq(S)
  BY DEF S
<1>1. Tail(s) \in Seq(S) /\ Len(Tail(s)) = Len(s) - 1 /\ Len(s) \in Nat \ {0}
  BY <1>0, EmptySeq
<1>2. Front(s) \in Seq(S) /\ Len(Front(s)) = Len(s) - 1
  <2>1. Len(s) - 1 \in 0 .. Len(s)
    BY <1>1
  <2>2. \A i \in 1 .. Len(s) - 1 : s[i] \in S
    BY <1>0, <1>1
  <2>3. Front(s) = [i \in 1 .. Len(s) - 1 |-> s[i]]
    BY <1>0, <1>1, <2>1 DEF Front
  <2> QED
    BY <1>1, <2>2, <2>3
<1> QED
  BY <1>1, <1>2, OwnEntries

(* Kept or emptied *)
LEMMA Shrink ==
  ASSUME NEW s, NEW t, s \in Seq(ToSet(s)), t = <<>> \/ t = s
  PROVE  t \in Seq(ToSet(t)) /\ Len(t) \in Nat /\ Len(t) <= Len(s)
<1>1. Len(s) \in Nat
  OBVIOUS
<1>2. CASE t = <<>>
  <2>1. t \in Seq(ToSet(s)) /\ Len(t) = 0
    BY <1>2, EmptySeq
  <2> QED
    BY <1>1, <2>1, OwnEntries
<1>3. CASE t = s
  BY <1>1, <1>3
<1> QED
  BY <1>2, <1>3

(* The empty stack *)
LEMMA Nothing == <<>> \in Seq(ToSet(<<>>)) /\ Len(<<>>) = 0
BY EmptySeq

(* What a stack holds after a push, and what is left when an end is taken off *)
LEMMA EndEntries ==
  ASSUME NEW S, NEW s \in Seq(S), NEW e \in S
  PROVE  /\ Append(s, e) \in Seq(S)
         /\ ToSet(Append(s, e)) = ToSet(s) \cup {e}
         /\ s # <<>> => /\ Tail(s) \in Seq(S) /\ Front(s) \in Seq(S)
                        /\ ToSet(Tail(s)) \subseteq ToSet(s)
                        /\ ToSet(Front(s)) \subseteq ToSet(s)
                        /\ Last(s) \in S /\ Last(s) \in ToSet(s)
<1>1. Append(s, e) \in Seq(S) /\ ToSet(Append(s, e)) = ToSet(s) \cup {e}
  <2>1. /\ Append(s, e) \in Seq(S) /\ Len(Append(s, e)) = Len(s) + 1 /\ Len(s) \in Nat
        /\ \A i \in 1 .. Len(s) + 1 : Append(s, e)[i] = IF i <= Len(s) THEN s[i] ELSE e
    OBVIOUS
  <2>2. ToSet(Append(s, e)) \subseteq ToSet(s) \cup {e}
    BY <2>1 DEF ToSet
  <2>3. ASSUME NEW x \in ToSet(s) PROVE x \in ToSet(Append(s, e))
    <3>1. PICK i \in 1 .. Len(s) : s[i] = x
      BY DEF ToSet
    <3>2. i \in 1 .. Len(s) + 1 /\ Append(s, e)[i] = x
      BY <2>1, <3>1
    <3> QED
      BY <2>1, <3>2 DEF ToSet
  <2>4. e \in ToSet(Append(s, e))
    <3>1. Len(s) + 1 \in 1 .. Len(s) + 1 /\ Append(s, e)[Len(s) + 1] = e
      BY <2>1
    <3> QED
      BY <2>1, <3>1 DEF ToSet
  <2> QED
    BY <2>1, <2>2, <2>3, <2>4
<1>2. ASSUME s # <<>>
      PROVE  /\ Tail(s) \in Seq(S) /\ Front(s) \in Seq(S)
             /\ ToSet(Tail(s)) \subseteq ToSet(s) /\ ToSet(Front(s)) \subseteq ToSet(s)
             /\ Last(s) \in S /\ Last(s) \in ToSet(s)
  <2>1. Len(s) \in Nat \ {0}
    BY <1>2, EmptySeq
  <2>2. /\ Tail(s) \in Seq(S) /\ Len(Tail(s)) = Len(s) - 1
        /\ \A i \in 1 .. Len(s) - 1 : Tail(s)[i] = s[i + 1]
    BY <1>2, HeadTailProperties
  <2>3. /\ Front(s) \in Seq(S) /\ Len(Front(s)) = Len(s) - 1
        /\ \A i \in 1 .. Len(s) - 1 : Front(s)[i] = s[i]
    <3>1. \A i \in 1 .. Len(s) - 1 : s[i] \in S
      BY <2>1
    <3>2. Front(s) = [i \in 1 .. Len(s) - 1 |-> s[i]]
      BY <2>1 DEF Front
    <3> QED
      BY <2>1, <3>1, <3>2
  <2>4. Last(s) = s[Len(s)] /\ Len(s) \in 1 .. Len(s)
    BY <2>1 DEF Last
  <2> QED
    BY <2>1, <2>2, <2>3, <2>4 DEF ToSet
<1> QED
  BY <1>1, <1>2

(* A set of naturals that is not empty has a least element, Min of it. *)
LEMMA Least ==
  ASSUME NEW I, I \subseteq Nat, I # {}
  PROVE  Min(I) \in I /\ \A y \in I : Min(I) <= y
<1> DEFINE less == {ss \in Nat \X Nat : ss[1] < ss[2]}
<1>1. IsWellFoundedOn(less, Nat)
  <2>1. OpToRel(<, Nat) = less
    BY DEF OpToRel
  <2> QED
    BY <2>1, NatLessThanWellFounded
<1>2. PICK x \in I : \A y \in I : <<y, x>> \notin less
  BY <1>1, WFMin
<1>3. ASSUME NEW y \in I PROVE x <= y
  <2>1. <<y, x>> \in Nat \X Nat /\ <<y, x>>[1] = y /\ <<y, x>>[2] = x
    OBVIOUS
  <2>2. ~(y < x)
    BY <1>2, <2>1
  <2> QED
    BY <2>2
<1> QED
  BY <1>3 DEF Min

(* RemoveAt takes one entry out, and the others close up. *)
LEMMA CutOut ==
  ASSUME NEW S, NEW s \in Seq(S), NEW k \in 1 .. Len(s)
  PROVE  /\ RemoveAt(s, k) \in Seq(S)
         /\ Len(RemoveAt(s, k)) = Len(s) - 1
         /\ \A i \in 1 .. Len(s) - 1 : RemoveAt(s, k)[i] = IF i < k THEN s[i] ELSE s[i + 1]
<1>0. Len(s) \in Nat /\ k \in 1 .. Len(s)
  OBVIOUS
<1>5. /\ SubSeq(s, 1, k - 1) \in Seq(S) /\ Len(SubSeq(s, 1, k - 1)) = k - 1
      /\ \A i \in 1 .. k - 1 : SubSeq(s, 1, k - 1)[i] = s[i]
  <2>1. \A i \in 1 .. k - 1 : s[i] \in S
    BY <1>0
  <2>2. /\ SubSeq(s, 1, k - 1) \in Seq(S)
        /\ Len(SubSeq(s, 1, k - 1)) = IF 1 <= k - 1 THEN (k - 1) - 1 + 1 ELSE 0
        /\ \A i \in 1 .. (k - 1) - 1 + 1 : SubSeq(s, 1, k - 1)[i] = s[1 + i - 1]
    BY <1>0, <2>1, SubSeqProperties
  <2> QED
    BY <1>0, <2>2
<1>6. /\ SubSeq(s, k + 1, Len(s)) \in Seq(S) /\ Len(SubSeq(s, k + 1, Len(s))) = Len(s) - k
      /\ \A i \in 1 .. Len(s) - k : SubSeq(s, k + 1, Len(s))[i] = s[k + i]
  <2>1. \A i \in k + 1 .. Len(s) : s[i] \in S
    BY <1>0
  <2>2. /\ SubSeq(s, k + 1, Len(s)) \in Seq(S)
        /\ Len(SubSeq(s, k + 1, Len(s))) = IF k + 1 <= Len(s) THEN Len(s) - (k + 1) + 1 ELSE 0
        /\ \A i \in 1 .. Len(s) - (k + 1) + 1 :
             SubSeq(s, k + 1, Len(s))[i] = s[(k + 1) + i - 1]
    BY <1>0, <2>1, SubSeqProperties
  <2> QED
    BY <1>0, <2>2
<1> DEFINE head == SubSeq(s, 1, k - 1)
           rest == SubSeq(s, k + 1, Len(s))
<1> HIDE DEF head, rest
<1>7. /\ head \o rest \in Seq(S) /\ Len(head \o rest) = Len(s) - 1
      /\ \A i \in 1 .. Len(s) - 1 : (head \o rest)[i] = IF i < k THEN s[i] ELSE s[i + 1]
  <2>1. /\ head \o rest \in Seq(S)
        /\ Len(head \o rest) = Len(head) + Len(rest)
        /\ \A i \in 1 .. Len(head) + Len(rest) :
             (head \o rest)[i] = IF i <= Len(head) THEN head[i] ELSE rest[i - Len(head)]
    BY <1>5, <1>6, ConcatProperties DEF head, rest
  <2>2. Len(head) = k - 1 /\ Len(rest) = Len(s) - k
    BY <1>5, <1>6 DEF head, rest
  <2>3. ASSUME NEW i \in 1 .. Len(s) - 1
        PROVE  (head \o rest)[i] = IF i < k THEN s[i] ELSE s[i + 1]
    <3>1. CASE i < k
      BY <1>0, <1>5, <2>1, <2>2, <2>3, <3>1 DEF head
    <3>2. CASE ~(i < k)
      <4>1. i - (k - 1) \in 1 .. Len(s) - k /\ k + (i - (k - 1)) = i + 1 /\ ~(i <= k - 1)
        BY <1>0, <2>3, <3>2
      <4>2. rest[i - (k - 1)] = s[i + 1]
        BY <1>6, <4>1 DEF rest
      <4>3. i \in 1 .. (k - 1) + (Len(s) - k)
        BY <1>0, <2>3
      <4> QED
        BY <2>1, <2>2, <3>2, <4>1, <4>2, <4>3
    <3> QED
      BY <3>1, <3>2
  <2> QED
    BY <1>0, <2>1, <2>2, <2>3
<1> QED
  BY <1>7 DEF head, rest, RemoveAt

(* RemoveFirst takes the first such entry out. *)
LEMMA OneRemoved ==
  ASSUME NEW S, NEW s \in Seq(S), NEW e, e \in ToSet(s)
  PROVE  \E k \in 1 .. Len(s) :
           /\ s[k] = e
           /\ RemoveFirst(s, e) \in Seq(S)
           /\ Len(RemoveFirst(s, e)) = Len(s) - 1
           /\ \A i \in 1 .. Len(s) - 1 :
                RemoveFirst(s, e)[i] = IF i < k THEN s[i] ELSE s[i + 1]
<1> DEFINE I == {i \in 1 .. Len(s) : s[i] = e}
           k == Min(I)
<1>0. Len(s) \in Nat
  OBVIOUS
<1>1. I \subseteq Nat /\ I # {}
  BY <1>0 DEF ToSet
<1>2. k \in I
  BY <1>1, Least
<1>3. RemoveFirst(s, e) = RemoveAt(s, k)
  BY <1>1 DEF RemoveFirst, SelectInSeq
<1> HIDE DEF k
<1>4. k \in 1 .. Len(s) /\ s[k] = e
  BY <1>2
<1> QED
  BY <1>3, <1>4, CutOut

------------------------------------------------------------------------------
(* Induction over finite sets, stated with a set in the place of a predicate,
   and what it takes to reason about folds. *)

(* What holds of the empty set, and of a set whenever it holds of the set
   without one of its elements, holds of every subset of a finite set. *)
LEMMA FiniteInduction ==
  ASSUME NEW S, IsFiniteSet(S), NEW T, {} \in T,
         \A s \in SUBSET S : s # {} => \E x \in s : s \ {x} \in T => s \in T
  PROVE  \A s \in SUBSET S : s \in T
<1> SUFFICES ASSUME NEW bad \in SUBSET S, bad \notin T PROVE FALSE
  OBVIOUS
<1> DEFINE I == {Cardinality(s) : s \in {u \in SUBSET S : u \notin T}}
<1>1. \A s \in SUBSET S : IsFiniteSet(s) /\ Cardinality(s) \in Nat
  BY FS_Subset, FS_CardinalityType
<1>2. I \subseteq Nat /\ I # {}
  BY <1>1
<1>3. Min(I) \in I /\ \A y \in I : Min(I) <= y
  BY <1>2, Least
<1>4. PICK s \in SUBSET S : s \notin T /\ Cardinality(s) = Min(I)
  BY <1>3
<1>5. PICK x \in s : s \ {x} \in T => s \in T
  <2>1. s # {}
    <3> HIDE DEF I
    <3>1. s \notin T
      BY <1>4
    <3>2. ASSUME s = {} PROVE s \in T
      BY <3>2
    <3> QED
      BY <3>1, <3>2
  <2> QED
    BY <1>4, <2>1, Zenon
<1>6. s \ {x} \in SUBSET S /\ s \ {x} \notin T
  BY <1>4, <1>5
<1>7. Cardinality(s \ {x}) = Cardinality(s) - 1
  BY <1>1, FS_RemoveElement
<1>8. Cardinality(s \ {x}) \in I
  BY <1>6
<1> HIDE DEF I
<1>9. Min(I) <= Cardinality(s) - 1 /\ Min(I) = Cardinality(s) /\ Cardinality(s) \in Nat
  BY <1>1, <1>3, <1>4, <1>7, <1>8
<1> QED
  BY <1>9

(* One function of the world for each element, and which element of a set is next *)
Steps(step, S, W) == step \in [S -> [W -> W]]
Picks(pick, S) ==
  pick \in [(SUBSET S) \ {{}} -> S] /\ \A s \in (SUBSET S) \ {{}} : pick[s] \in s

(* What h gives for a set is one step on what it gives for the rest of it. *)
IsFold(h, S, W, w, step, pick) ==
  /\ h \in [SUBSET S -> W]
  /\ h[{}] = w
  /\ \A s \in (SUBSET S) \ {{}} : h[s] = step[pick[s]][h[s \ {pick[s]}]]

(* A fold has a value: a function over the subsets of a finite set may be defined
   from its values on smaller ones. *)
LEMMA Recursion ==
  ASSUME NEW S, NEW W, NEW w, NEW step, NEW pick,
         IsFiniteSet(S), w \in W, Steps(step, S, W), Picks(pick, S)
  PROVE  \E h : IsFold(h, S, W, w, step, pick)
<1> USE DEF Steps, Picks
<1> DEFINE F(n) == {s \in SUBSET S : Cardinality(s) <= n}
           Value(h, s) == IF s = {} THEN w ELSE step[pick[s]][h[s \ {pick[s]}]]
           Folds(n) == {h \in [F(n) -> W] : \A s \in F(n) : h[s] = Value(h, s)}
           I == {n \in Nat : Folds(n) = {}}
<1>1. \A s \in SUBSET S : IsFiniteSet(s) /\ Cardinality(s) \in Nat
  BY FS_Subset, FS_CardinalityType
<1>2. Folds(0) # {}
  <2>1. \A s \in F(0) : s = {}
    BY <1>1, FS_EmptySet
  <2>2. [s \in F(0) |-> w] \in Folds(0)
    BY <2>1
  <2> QED
    BY <2>2
<1>3. ASSUME NEW m \in Nat, m # 0, NEW h \in Folds(m - 1) PROVE Folds(m) # {}
  <2> DEFINE next == [s \in F(m) |-> Value(h, s)]
  <2>1. ASSUME NEW s \in F(m), s # {}
        PROVE  pick[s] \in s /\ pick[s] \in S /\ s \ {pick[s]} \in F(m - 1)
    <3>1. s \in SUBSET S /\ IsFiniteSet(s) /\ Cardinality(s) \in Nat /\ Cardinality(s) <= m
      BY <1>1
    <3>2. pick[s] \in s /\ pick[s] \in S
      BY <2>1, <3>1
    <3> DEFINE c == Cardinality(s)
               d == Cardinality(s \ {pick[s]})
    <3>3. d = c - 1
      <4>1. PICK x \in s : x = pick[s]
        BY <3>2
      <4>2. Cardinality(s \ {x}) = Cardinality(s) - 1
        BY <3>1, <4>1, FS_RemoveElement, ZenonT(40)
      <4>3. s \ {x} = s \ {pick[s]}
        BY <4>1, Zenon
      <4> QED
        BY <4>2, <4>3, Zenon
    <3>4. c \in Nat /\ c <= m
      BY <3>1
    <3>5. s \ {pick[s]} \in SUBSET S
      BY <3>1
    <3> HIDE DEF c, d
    <3>6. d <= m - 1
      BY <3>3, <3>4
    <3> QED
      BY <3>2, <3>5, <3>6 DEF d
  <2>2. h \in [F(m - 1) -> W] /\ \A s \in F(m - 1) : h[s] = Value(h, s)
    BY <1>3
  <2>3. \A s \in F(m - 1) : s \in F(m)
    BY <1>1, <1>3
  <2> HIDE DEF F
  <2>4. \A s \in F(m) : Value(h, s) \in W
    <3> SUFFICES ASSUME NEW s \in F(m), s # {} PROVE step[pick[s]][h[s \ {pick[s]}]] \in W
      OBVIOUS
    <3>1. pick[s] \in S /\ h[s \ {pick[s]}] \in W
      BY <2>1, <2>2
    <3>2. \A i \in S, x \in W : step[i][x] \in W
      OBVIOUS
    <3> QED
      BY <3>1, <3>2
  <2>5. \A s \in F(m - 1) : next[s] = h[s]
    BY <2>2, <2>3
  <2>6. next \in [F(m) -> W]
    BY <2>4
  <2>7. \A s \in F(m) : next[s] = Value(h, s)
    OBVIOUS
  <2>8. ASSUME NEW s \in F(m) PROVE Value(h, s) = Value(next, s)
    <3> HIDE DEF next
    <3>1. CASE s = {}
      BY <3>1
    <3>2. CASE s # {}
      <4>1. next[s \ {pick[s]}] = h[s \ {pick[s]}]
        BY <2>1, <2>5, <3>2
      <4> QED
        BY <3>2, <4>1
    <3> QED
      BY <3>1, <3>2
  <2>9. next \in Folds(m)
    <3> HIDE DEF next
    <3> QED
      BY <2>6, <2>7, <2>8
  <2> QED
    BY <2>9
<1> HIDE DEF Folds
<1>4. I = {}
  <2> SUFFICES ASSUME I # {} PROVE FALSE
    OBVIOUS
  <2>1. I \subseteq Nat
    OBVIOUS
  <2>2. Min(I) \in I /\ \A y \in I : Min(I) <= y
    BY <2>1, Least
  <2>3. PICK m \in Nat : m = Min(I)
    BY <2>1, <2>2
  <2>4. Folds(m) = {} /\ m # 0
    BY <1>2, <2>2, <2>3
  <2>5. m - 1 \in Nat /\ m - 1 \notin I
    <3> HIDE DEF I
    <3>1. m - 1 \in Nat /\ ~(m <= m - 1)
      BY <2>4
    <3> QED
      BY <2>2, <2>3, <3>1
  <2>6. PICK h : h \in Folds(m - 1)
    BY <2>5
  <2> QED
    BY <1>3, <2>4, <2>6
<1>5. PICK h : h \in Folds(Cardinality(S))
  <2>1. Cardinality(S) \in Nat
    BY <1>1
  <2> QED
    BY <1>4, <2>1
<1>6. F(Cardinality(S)) = SUBSET S
  BY FS_Subset
<1>7. h \in [SUBSET S -> W] /\ \A s \in SUBSET S : h[s] = Value(h, s)
  BY <1>5, <1>6 DEF Folds
<1> QED
  BY <1>7 DEF IsFold

(* The greatest element of a set of naturals that has a bound *)
LEMMA Greatest ==
  ASSUME NEW n \in Nat, NEW I, I \subseteq 0 .. n, I # {}
  PROVE  Max(I) \in I /\ \A y \in I : Max(I) >= y
<1> DEFINE J == {n - y : y \in I}
<1>1. J \subseteq Nat /\ J # {}
  <2>1. \A y \in I : y \in 0 .. n
    OBVIOUS
  <2>2. \A y \in 0 .. n : n - y \in Nat
    OBVIOUS
  <2> QED
    BY <2>1, <2>2
<1>2. PICK z : z \in J /\ \A y \in J : z <= y
  BY <1>1, Least
<1>3. PICK x \in I : z = n - x
  BY <1>2
<1>4. \A y \in I : x >= y
  <2> SUFFICES ASSUME NEW y \in I PROVE x >= y
    OBVIOUS
  <2>1. n - x <= n - y /\ x \in 0 .. n /\ y \in 0 .. n
    BY <1>2, <1>3
  <2> QED
    BY <2>1
<1> QED
  BY <1>4 DEF Max

(* Induction from 0 up to n, and from n down *)
LEMMA Upwards ==
  ASSUME NEW n \in Nat, NEW T, 0 \in T, \A i \in 0 .. n - 1 : i \in T => i + 1 \in T
  PROVE  \A i \in 0 .. n : i \in T
<1> SUFFICES ASSUME NEW bad \in 0 .. n, bad \notin T PROVE FALSE
  OBVIOUS
<1> DEFINE I == {i \in 0 .. n : i \notin T}
<1>1. I \subseteq Nat /\ I # {}
  OBVIOUS
<1>2. PICK m \in I : \A y \in I : m <= y
  BY <1>1, Least
<1>3. m \in 0 .. n /\ m \notin T /\ m # 0
  BY <1>2
<1>4. m - 1 \in 0 .. n - 1 /\ m - 1 \in 0 .. n /\ ~(m <= m - 1) /\ (m - 1) + 1 = m
  BY <1>3
<1>5. m - 1 \in T
  BY <1>2, <1>4
<1> QED
  BY <1>3, <1>4, <1>5

LEMMA Downwards ==
  ASSUME NEW n \in Nat, NEW T, n \in T, \A i \in 0 .. n - 1 : i + 1 \in T => i \in T
  PROVE  \A i \in 0 .. n : i \in T
<1> DEFINE U == {i \in 0 .. n : n - i \in T}
<1>1. 0 \in U
  OBVIOUS
<1>2. ASSUME NEW i \in 0 .. n - 1, i \in U PROVE i + 1 \in U
  <2>1. n - (i + 1) \in 0 .. n - 1 /\ (n - (i + 1)) + 1 = n - i /\ i + 1 \in 0 .. n
    OBVIOUS
  <2>2. n - i \in T
    BY <1>2
  <2> QED
    BY <2>1, <2>2
<1> HIDE DEF U
<1>3. \A i \in 0 .. n : i \in U
  BY <1>1, <1>2, Upwards
<1>4. ASSUME NEW i \in 0 .. n PROVE i \in T
  <2>1. n - i \in 0 .. n /\ n - (n - i) = i
    OBVIOUS
  <2>2. n - i \in U
    BY <1>3, <2>1
  <2> QED
    BY <2>1, <2>2 DEF U
<1> QED
  BY <1>4

(* An interval without one of its ends *)
LEMMA FromBelow ==
  ASSUME NEW n \in Nat, NEW i \in 1 .. n
  PROVE  i .. n # {} /\ (i .. n) \ {i} = i + 1 .. n /\ Min(i .. n) = i
<1>1. i .. n \subseteq Nat /\ i \in i .. n
  OBVIOUS
<1>2. Min(i .. n) \in i .. n /\ Min(i .. n) <= i
  BY <1>1, Least
<1>3. \A j : j \in (i .. n) \ {i} <=> j \in i + 1 .. n
  OBVIOUS
<1>4. (i .. n) \ {i} = i + 1 .. n
  BY <1>3, Zenon
<1> QED
  BY <1>1, <1>2, <1>4

LEMMA FromAbove ==
  ASSUME NEW i \in Nat, i # 0
  PROVE  1 .. i # {} /\ (1 .. i) \ {i} = 1 .. i - 1 /\ Max(1 .. i) = i
<1>1. 1 .. i \subseteq 0 .. i /\ i \in 1 .. i
  OBVIOUS
<1>2. Max(1 .. i) \in 1 .. i /\ Max(1 .. i) >= i
  BY <1>1, Greatest
<1>3. \A j : j \in (1 .. i) \ {i} <=> j \in 1 .. i - 1
  OBVIOUS
<1>4. (1 .. i) \ {i} = 1 .. i - 1
  BY <1>3, Zenon
<1> QED
  BY <1>1, <1>2, <1>4

(* Parts of an interval *)
LEMMA Interval ==
  ASSUME NEW n \in Nat
  PROVE  /\ n + 1 .. n = {} /\ 1 .. 0 = {}
         /\ \A i \in 1 .. n + 1 : i .. n \in SUBSET (1 .. n)
         /\ \A i \in 0 .. n : 1 .. i \in SUBSET (1 .. n)
OBVIOUS

(* From the last step back to the first *)
Descends(g, n, W, w, step) ==
  g \in [1 .. n + 1 -> W] /\ g[n + 1] = w /\ \A i \in 1 .. n : g[i] = step[i][g[i + 1]]

LEMMA Ladder ==
  ASSUME NEW n, NEW W, NEW w, NEW step, n \in Nat, w \in W, Steps(step, 1 .. n, W)
  PROVE  \E g : Descends(g, n, W, w, step)
<1> DEFINE S == 1 .. n
           pick == [s \in (SUBSET S) \ {{}} |-> Min(s)]
<1>1. IsFiniteSet(S) /\ S \subseteq Nat
  BY FS_Interval
<1>2. \A s \in (SUBSET S) \ {{}} : Min(s) \in s
  BY <1>1, Least
<1>3. Picks(pick, S)
  BY <1>2 DEF Picks
<1>4. \A s \in (SUBSET S) \ {{}} : pick[s] = Min(s)
  OBVIOUS
<1> HIDE DEF pick
<1>5. PICK h : IsFold(h, S, W, w, step, pick)
  <2> HIDE DEF S
  <2>1. Steps(step, S, W)
    BY DEF S
  <2> QED
    BY <1>1, <1>3, <2>1, Recursion
<1> DEFINE g == [i \in 1 .. n + 1 |-> h[i .. n]]
<1>6. g \in [1 .. n + 1 -> W]
  BY <1>5, Interval DEF IsFold
<1>7. g[n + 1] = w
  BY <1>5, Interval DEF IsFold
<1>8. ASSUME NEW i \in 1 .. n PROVE g[i] = step[i][g[i + 1]]
  <2>1. i .. n \in SUBSET S /\ i .. n # {} /\ (i .. n) \ {i} = i + 1 .. n /\ Min(i .. n) = i
    <3>1. i \in 1 .. n + 1
      OBVIOUS
    <3> QED
      BY <3>1, Interval, FromBelow
  <2>4. pick[i .. n] = i
    BY <1>4, <2>1
  <2>2. h[i .. n] = step[i][h[i + 1 .. n]]
    <3> HIDE DEF S
    <3> QED
      BY <1>5, <2>1, <2>4 DEF IsFold
  <2>3. i \in 1 .. n + 1 /\ i + 1 \in 1 .. n + 1
    OBVIOUS
  <2> QED
    BY <2>2, <2>3
<1> QED
  BY <1>6, <1>7, <1>8 DEF Descends

(* From the first step to the last *)
Climbs(g, n, W, w, step) ==
  g \in [0 .. n -> W] /\ g[0] = w /\ \A i \in 1 .. n : g[i] = step[i][g[i - 1]]

LEMMA Climb ==
  ASSUME NEW n, NEW W, NEW w, NEW step, n \in Nat, w \in W, Steps(step, 1 .. n, W)
  PROVE  \E g : Climbs(g, n, W, w, step)
<1> DEFINE back == [i \in 1 .. n |-> step[n + 1 - i]]
<1>1. \A i \in 1 .. n : n + 1 - i \in 1 .. n
  OBVIOUS
<1>2. Steps(back, 1 .. n, W)
  BY <1>1 DEF Steps
<1>3. \A i \in 1 .. n : back[n + 1 - i] = step[i]
  <2>1. \A i \in 1 .. n : n + 1 - (n + 1 - i) = i
    OBVIOUS
  <2> QED
    BY <1>1, <2>1
<1>8. PICK b : b = back
  OBVIOUS
<1>9. Steps(b, 1 .. n, W) /\ \A i \in 1 .. n : b[n + 1 - i] = step[i]
  BY <1>2, <1>3, <1>8
<1> HIDE DEF back
<1>4. PICK h \in [1 .. n + 1 -> W] : h[n + 1] = w /\ \A i \in 1 .. n : h[i] = b[i][h[i + 1]]
  <2>1. \E h : Descends(h, n, W, w, b)
    BY <1>9, Ladder
  <2> QED
    BY <2>1 DEF Descends
<1> DEFINE g == [i \in 0 .. n |-> h[n + 1 - i]]
<1>5. g \in [0 .. n -> W]
  <2>1. \A i \in 0 .. n : n + 1 - i \in 1 .. n + 1
    OBVIOUS
  <2> QED
    BY <2>1
<1>6. g[0] = w
  <2>1. 0 \in 0 .. n /\ n + 1 - 0 = n + 1
    OBVIOUS
  <2> QED
    BY <1>4, <2>1
<1>7. ASSUME NEW i \in 1 .. n PROVE g[i] = step[i][g[i - 1]]
  <2>1. i \in 0 .. n /\ i - 1 \in 0 .. n /\ n + 1 - (i - 1) = (n + 1 - i) + 1
    OBVIOUS
  <2>2. g[i] = h[n + 1 - i] /\ g[i - 1] = h[(n + 1 - i) + 1]
    BY <2>1
  <2> HIDE DEF g
  <2>3. h[n + 1 - i] = b[n + 1 - i][h[(n + 1 - i) + 1]]
    BY <1>1, <1>4
  <2> QED
    BY <1>9, <2>2, <2>3
<1> QED
  BY <1>5, <1>6, <1>7 DEF Climbs

(* A finite set in sequence: each of its elements once *)
LEMMA InSequence ==
  ASSUME NEW S, IsFiniteSet(S)
  PROVE  /\ SetToSeq(S) \in Seq(S) /\ ToSet(SetToSeq(S)) = S
         /\ \A i, j \in DOMAIN SetToSeq(S) : SetToSeq(S)[i] = SetToSeq(S)[j] => i = j
<1> DEFINE n == Cardinality(S)
<1>1. n \in Nat /\ ExistsBijection(1 .. n, S)
  BY FS_CardinalityType
<1> HIDE DEF n
<1>2. \E f \in [1 .. n -> S] : IsInjective(f)
  BY <1>1 DEF ExistsBijection, Bijection, Injection, IsInjective
<1>3. PICK f : f = SetToSeq(S)
  OBVIOUS
<1>4. f \in [1 .. n -> S] /\ IsInjective(f)
  BY <1>2, <1>3 DEF SetToSeq, n
<1>5. f \in Seq(S) /\ DOMAIN f = 1 .. n
  BY <1>1, <1>4
<1>6. \A i, j \in 1 .. n : f[i] = f[j] => i = j
  BY <1>4 DEF IsInjective
<1>7. ToSet(f) \subseteq S /\ f \in [1 .. n -> ToSet(f)]
  BY <1>4, <1>5 DEF ToSet
<1>8. ExistsBijection(1 .. n, ToSet(f))
  <2>1. f \in Bijection(1 .. n, ToSet(f))
    BY <1>4, <1>5, <1>7 DEF Bijection, Injection, Surjection, IsInjective, ToSet
  <2> QED
    BY <2>1 DEF ExistsBijection
<1>9. Cardinality(ToSet(f)) = n
  BY <1>1, <1>8, FS_CountingElements
<1>10. ToSet(f) = S
  <2>1. PICK T : T = ToSet(f)
    OBVIOUS
  <2>2. T \in SUBSET S /\ Cardinality(T) = Cardinality(S)
    BY <1>7, <1>9, <2>1 DEF n
  <2>3. T = S
    BY <2>2, FS_Subset
  <2> QED
    BY <2>1, <2>3
<1> QED
  BY <1>3, <1>5, <1>6, <1>10

------------------------------------------------------------------------------
(* Lines of scenes: what any undo that keeps commands on two stacks has in common
   with EditHistory. A triple <<x, c, y>> of L says that the command c stands
   between the scenes x and y. *)

LatestOf(line, max) == IF Len(line) > max THEN Tail(line) ELSE line

SceneAt(line, present, i) == IF i <= Len(line) THEN line[i] ELSE present

IsLine(S, L, past, present, future, undo, redo) ==
  /\ past \in Seq(S) /\ present \in S /\ future \in Seq(S)
  /\ Len(past) = Len(undo) /\ Len(future) = Len(redo)
  /\ \A i \in 1 .. Len(undo) : <<SceneAt(past, present, i), undo[i], SceneAt(past, present, i + 1)>> \in L
  /\ \A i \in 1 .. Len(redo) : <<SceneAt(future, present, i + 1), redo[i], SceneAt(future, present, i)>> \in L

(* What is left when the first entry is dropped *)
Dropped(line, max, d) ==
  /\ d \in {0, 1} /\ d <= Len(line) /\ (d = 1 <=> Len(line) > max)
  /\ Len(LatestOf(line, max)) = Len(line) - d
  /\ \A i \in 1 .. Len(line) - d : LatestOf(line, max)[i] = line[i + d]

(* What a trim that drops the first entry keeps of a line. *)
LEMMA LatestEntries ==
  ASSUME NEW S, NEW line, line \in Seq(S), NEW max \in Nat
  PROVE  LatestOf(line, max) \in Seq(S) /\ \E d : Dropped(line, max, d)
<1> USE DEF Dropped
<1>1. Len(line) \in Nat
  OBVIOUS
<1>2. CASE Len(line) > max
  <2>1. line # <<>> /\ LatestOf(line, max) = Tail(line) /\ 1 <= Len(line)
    BY <1>1, <1>2 DEF LatestOf
  <2>2. /\ Tail(line) \in Seq(S) /\ Len(Tail(line)) = Len(line) - 1
        /\ \A i \in 1 .. Len(line) - 1 : Tail(line)[i] = line[i + 1]
    BY <1>1, <2>1
  <2>3. Dropped(line, max, 1)
    BY <1>1, <1>2, <2>1, <2>2
  <2> QED
    BY <2>1, <2>2, <2>3
<1>3. CASE ~(Len(line) > max)
  <2>1. LatestOf(line, max) = line
    BY <1>3 DEF LatestOf
  <2>2. Dropped(line, max, 0)
    BY <1>1, <1>3, <2>1
  <2> QED
    BY <2>1, <2>2
<1> QED
  BY <1>2, <1>3

(* An edit prolongs the line of scenes as it prolongs the stacks. *)
LEMMA LineEdit ==
  ASSUME NEW S, NEW L, NEW C, NEW undo \in Seq(C), NEW redo \in Seq(C),
         NEW past, NEW present, NEW future, IsLine(S, L, past, present, future, undo, redo),
         NEW c \in C, NEW next \in S, <<present, c, next>> \in L, NEW max \in Nat
  PROVE  IsLine(S, L, LatestOf(Append(past, present), max), next, <<>>, LatestOf(Append(undo, c), max), <<>>)
<1> DEFINE n == Len(undo)
<1>1. /\ past \in Seq(S) /\ present \in S /\ Len(past) = n /\ n \in Nat
      /\ \A i \in 1 .. n : <<SceneAt(past, present, i), undo[i], SceneAt(past, present, i + 1)>> \in L
  BY DEF IsLine
<1>2. PICK p : p = Append(past, present)
  OBVIOUS
<1>3. PICK u : u = Append(undo, c)
  OBVIOUS
<1>4. /\ p \in Seq(S) /\ Len(p) = n + 1 /\ p[n + 1] = present /\ \A i \in 1 .. n : p[i] = past[i]
      /\ u \in Seq(C) /\ Len(u) = n + 1 /\ u[n + 1] = c /\ \A i \in 1 .. n : u[i] = undo[i]
  BY <1>1, <1>2, <1>3
<1> HIDE DEF n
<1>5. ASSUME NEW i \in 1 .. n + 1 PROVE <<SceneAt(p, next, i), u[i], SceneAt(p, next, i + 1)>> \in L
  <2>1. CASE i = n + 1
    <3>1. SceneAt(p, next, i) = present /\ SceneAt(p, next, i + 1) = next
      BY <1>1, <1>4, <2>1 DEF SceneAt
    <3> QED
      BY <1>4, <2>1, <3>1
  <2>2. CASE i # n + 1
    <3>1. i \in 1 .. n
      BY <1>1, <2>2
    <3>2. SceneAt(p, next, i) = SceneAt(past, present, i) /\ SceneAt(p, next, i + 1) = SceneAt(past, present, i + 1)
      BY <1>1, <1>4, <3>1 DEF SceneAt
    <3> QED
      BY <1>1, <1>4, <3>1, <3>2
  <2> QED
    BY <2>1, <2>2
<1>6. PICK d : Dropped(p, max, d)
  BY <1>4, LatestEntries
<1>7. PICK e : Dropped(u, max, e)
  BY <1>4, LatestEntries
<1>8. d = e
  BY <1>4, <1>6, <1>7 DEF Dropped
<1>12. /\ d \in {0, 1} /\ d <= n + 1 /\ Len(LatestOf(p, max)) = n + 1 - d /\ Len(LatestOf(u, max)) = n + 1 - d
       /\ \A i \in 1 .. n + 1 - d : LatestOf(p, max)[i] = p[i + d] /\ LatestOf(u, max)[i] = u[i + d]
  <2>1. Len(p) = n + 1 /\ Len(u) = n + 1 /\ n \in Nat /\ d \in {0, 1}
    BY <1>1, <1>4, <1>6 DEF Dropped
  <2>2. /\ d \in {0, 1} /\ d <= n + 1 /\ Len(LatestOf(p, max)) = n + 1 - d
        /\ \A i \in 1 .. n + 1 - d : LatestOf(p, max)[i] = p[i + d]
    BY <1>6, <2>1 DEF Dropped
  <2>3. Len(LatestOf(u, max)) = n + 1 - d /\ \A i \in 1 .. n + 1 - d : LatestOf(u, max)[i] = u[i + d]
    BY <1>7, <1>8, <2>1 DEF Dropped
  <2> QED
    BY <2>2, <2>3
<1>9. LatestOf(p, max) \in Seq(S)
  BY <1>4, LatestEntries
<1>10. ASSUME NEW i \in 1 .. n + 1 - d
       PROVE  <<SceneAt(LatestOf(p, max), next, i), LatestOf(u, max)[i], SceneAt(LatestOf(p, max), next, i + 1)>> \in L
  <2>1. i + d \in 1 .. n + 1
    BY <1>1, <1>12
  <2>2. LatestOf(u, max)[i] = u[i + d]
    BY <1>12
  <2>3. SceneAt(LatestOf(p, max), next, i) = SceneAt(p, next, i + d)
    BY <1>1, <1>4, <1>12 DEF SceneAt
  <2>4. SceneAt(LatestOf(p, max), next, i + 1) = SceneAt(p, next, i + d + 1)
    BY <1>1, <1>4, <1>12 DEF SceneAt
  <2> QED
    BY <1>5, <2>1, <2>2, <2>3, <2>4
<1>11. <<>> \in Seq(S) /\ Len(<<>>) = 0 /\ 1 .. 0 = {}
  BY EmptySeq
<1> QED
  BY <1>2, <1>3, <1>9, <1>10, <1>11, <1>12 DEF IsLine

(* The last step moves from one stack to the other. *)
LEMMA LineUndo ==
  ASSUME NEW S, NEW L, NEW C, NEW undo \in Seq(C), NEW redo \in Seq(C),
         NEW past, NEW present, NEW future, IsLine(S, L, past, present, future, undo, redo),
         undo # <<>>
  PROVE  /\ past # <<>> /\ <<Last(past), Last(undo), present>> \in L
         /\ IsLine(S, L, Front(past), Last(past), Append(future, present),
                   Front(undo), Append(redo, Last(undo)))
<1> DEFINE n == Len(undo)
           m == Len(redo)
<1>1. /\ past \in Seq(S) /\ present \in S /\ Len(past) = n /\ n \in Nat /\ n # 0
      /\ \A i \in 1 .. n : <<SceneAt(past, present, i), undo[i], SceneAt(past, present, i + 1)>> \in L
  BY DEF IsLine
<1>2. /\ future \in Seq(S) /\ Len(future) = m /\ m \in Nat
      /\ \A i \in 1 .. m : <<SceneAt(future, present, i + 1), redo[i], SceneAt(future, present, i)>> \in L
  BY DEF IsLine
<1>3. PICK p : p = Front(past)
  OBVIOUS
<1>4. PICK u : u = Front(undo)
  OBVIOUS
<1>5. /\ p \in Seq(S) /\ Len(p) = n - 1 /\ Last(past) = past[n] /\ \A i \in 1 .. n - 1 : p[i] = past[i]
      /\ u \in Seq(C) /\ Len(u) = n - 1 /\ Last(undo) = undo[n] /\ \A i \in 1 .. n - 1 : u[i] = undo[i]
  BY <1>1, <1>3, <1>4 DEF Front, Last
<1>6. PICK f : f = Append(future, present)
  OBVIOUS
<1>7. PICK r : r = Append(redo, Last(undo))
  OBVIOUS
<1>8. Last(past) \in S /\ Last(undo) \in C
  BY <1>1, <1>5
<1>9. /\ f \in Seq(S) /\ Len(f) = m + 1 /\ f[m + 1] = present /\ \A i \in 1 .. m : f[i] = future[i]
      /\ Len(r) = m + 1 /\ r[m + 1] = undo[n] /\ \A i \in 1 .. m : r[i] = redo[i]
  BY <1>1, <1>2, <1>5, <1>6, <1>7, <1>8
<1> HIDE DEF n, m
<1>10. <<past[n], undo[n], present>> \in L
  <2>1. SceneAt(past, present, n) = past[n] /\ SceneAt(past, present, n + 1) = present /\ n \in 1 .. n
    BY <1>1 DEF SceneAt
  <2> QED
    BY <1>1, <2>1
<1>11. ASSUME NEW i \in 1 .. n - 1 PROVE <<SceneAt(p, past[n], i), u[i], SceneAt(p, past[n], i + 1)>> \in L
  <2>1. i \in 1 .. n /\ SceneAt(p, past[n], i) = SceneAt(past, present, i)
    BY <1>1, <1>5 DEF SceneAt
  <2>2. SceneAt(p, past[n], i + 1) = SceneAt(past, present, i + 1)
    <3>1. CASE i = n - 1
      BY <1>1, <1>5, <3>1 DEF SceneAt
    <3>2. CASE i # n - 1
      BY <1>1, <1>5, <3>2 DEF SceneAt
    <3> QED
      BY <3>1, <3>2
  <2> QED
    BY <1>1, <1>5, <2>1, <2>2
<1>12. ASSUME NEW i \in 1 .. m + 1 PROVE <<SceneAt(f, past[n], i + 1), r[i], SceneAt(f, past[n], i)>> \in L
  <2>1. CASE i = m + 1
    <3>1. SceneAt(f, past[n], i + 1) = past[n] /\ SceneAt(f, past[n], i) = present /\ r[i] = undo[n]
      BY <1>2, <1>9, <2>1 DEF SceneAt
    <3> QED
      BY <1>10, <3>1
  <2>2. CASE i # m + 1
    <3>1. i \in 1 .. m /\ r[i] = redo[i]
      BY <1>2, <1>9, <2>2
    <3>2. SceneAt(f, past[n], i) = SceneAt(future, present, i)
      BY <1>2, <1>9, <3>1 DEF SceneAt
    <3>3. SceneAt(f, past[n], i + 1) = SceneAt(future, present, i + 1)
      BY <1>2, <1>9, <3>1 DEF SceneAt
    <3> QED
      BY <1>2, <3>1, <3>2, <3>3
  <2> QED
    BY <2>1, <2>2
<1>13. past # <<>>
  BY <1>1
<1> QED
  BY <1>3, <1>4, <1>5, <1>6, <1>7, <1>8, <1>9, <1>10, <1>11, <1>12, <1>13 DEF IsLine

(* Back again *)
LEMMA LineRedo ==
  ASSUME NEW S, NEW L, NEW C, NEW undo \in Seq(C), NEW redo \in Seq(C),
         NEW past, NEW present, NEW future, IsLine(S, L, past, present, future, undo, redo),
         redo # <<>>, L \subseteq S \X C \X S
  PROVE  /\ future # <<>> /\ <<present, Last(redo), Last(future)>> \in L
         /\ IsLine(S, L, Append(past, present), Last(future), Front(future),
                   Append(undo, Last(redo)), Front(redo))
<1> DEFINE M == {<<z[3], z[2], z[1]>> : z \in L}
<1>1. ASSUME NEW x, NEW c, NEW y PROVE <<y, c, x>> \in M <=> <<x, c, y>> \in L
  <2>1. ASSUME <<y, c, x>> \in M PROVE <<x, c, y>> \in L
    <3>1. PICK z \in L : <<z[3], z[2], z[1]>> = <<y, c, x>>
      BY <2>1
    <3>2. z = <<z[1], z[2], z[3]>>
      OBVIOUS
    <3> QED
      BY <3>1, <3>2
  <2>2. ASSUME <<x, c, y>> \in L PROVE <<y, c, x>> \in M
    <3>1. PICK z \in L : z = <<x, c, y>>
      BY <2>2
    <3>2. <<z[3], z[2], z[1]>> = <<y, c, x>>
      BY <3>1
    <3> QED
      BY <3>2
  <2> QED
    BY <2>1, <2>2
<1> HIDE DEF M
<1>2. IsLine(S, M, future, present, past, redo, undo)
  BY <1>1 DEF IsLine
<1>3. /\ future # <<>> /\ <<Last(future), Last(redo), present>> \in M
      /\ IsLine(S, M, Front(future), Last(future), Append(past, present), Front(redo), Append(undo, Last(redo)))
  BY <1>2, LineUndo
<1>4. IsLine(S, L, Append(past, present), Last(future), Front(future), Append(undo, Last(redo)), Front(redo))
  BY <1>1, <1>3 DEF IsLine
<1> QED
  BY <1>1, <1>3, <1>4

(* Every scene of the line changed in a way that no command minds *)
LEMMA LineLoad ==
  ASSUME NEW S, NEW L, NEW C, NEW undo \in Seq(C), NEW redo \in Seq(C),
         NEW past, NEW present, NEW future, IsLine(S, L, past, present, future, undo, redo),
         NEW With \in [S -> S],
         \A x, y \in S, c \in ToSet(undo) \cup ToSet(redo) :
           <<x, c, y>> \in L => <<With[x], c, With[y]>> \in L
  PROVE  IsLine(S, L, [i \in DOMAIN past |-> With[past[i]]], With[present],
                [i \in DOMAIN future |-> With[future[i]]], undo, redo)
<1> DEFINE n == Len(undo)
           m == Len(redo)
<1>1. /\ past \in Seq(S) /\ present \in S /\ Len(past) = n /\ n \in Nat
      /\ \A i \in 1 .. n : <<SceneAt(past, present, i), undo[i], SceneAt(past, present, i + 1)>> \in L
  BY DEF IsLine
<1>2. /\ future \in Seq(S) /\ Len(future) = m /\ m \in Nat
      /\ \A i \in 1 .. m : <<SceneAt(future, present, i + 1), redo[i], SceneAt(future, present, i)>> \in L
  BY DEF IsLine
<1>3. PICK p : p = [i \in DOMAIN past |-> With[past[i]]]
  OBVIOUS
<1>4. PICK f : f = [i \in DOMAIN future |-> With[future[i]]]
  OBVIOUS
<1>13. ASSUME NEW s \in Seq(S), NEW t, t = [i \in DOMAIN s |-> With[s[i]]]
       PROVE  t \in Seq(S) /\ Len(t) = Len(s) /\ \A i \in 1 .. Len(s) : t[i] = With[s[i]]
  <2>1. Len(s) \in Nat /\ DOMAIN s = 1 .. Len(s) /\ \A i \in 1 .. Len(s) : s[i] \in S
    OBVIOUS
  <2>2. t \in [1 .. Len(s) -> S]
    BY <1>13, <2>1
  <2> QED
    BY <1>13, <2>1, <2>2
<1>5. p \in Seq(S) /\ Len(p) = n /\ \A i \in 1 .. n : p[i] = With[past[i]]
  BY <1>1, <1>3, <1>13
<1>6. f \in Seq(S) /\ Len(f) = m /\ \A i \in 1 .. m : f[i] = With[future[i]]
  BY <1>2, <1>4, <1>13
<1>7. (\A i \in 1 .. n : undo[i] \in ToSet(undo)) /\ (\A i \in 1 .. m : redo[i] \in ToSet(redo))
  BY DEF ToSet
<1> HIDE DEF n, m
<1>14. ASSUME NEW s \in Seq(S), NEW t, Len(t) = Len(s), \A i \in 1 .. Len(s) : t[i] = With[s[i]],
              NEW i \in 1 .. Len(s) + 1
       PROVE  SceneAt(s, present, i) \in S /\ SceneAt(t, With[present], i) = With[SceneAt(s, present, i)]
  <2>1. CASE i <= Len(s)
    BY <1>14, <2>1 DEF SceneAt
  <2>2. CASE ~(i <= Len(s))
    BY <1>1, <1>14, <2>2 DEF SceneAt
  <2> QED
    BY <2>1, <2>2
<1>15. past \in Seq(S) /\ Len(past) = n /\ Len(p) = n /\ \A i \in 1 .. Len(past) : p[i] = With[past[i]]
  BY <1>1, <1>5
<1>8. ASSUME NEW i \in 1 .. n + 1
      PROVE  SceneAt(past, present, i) \in S /\ SceneAt(p, With[present], i) = With[SceneAt(past, present, i)]
  <2>1. past \in Seq(S) /\ Len(p) = Len(past) /\ i \in 1 .. Len(past) + 1
    BY <1>15
  <2>2. \A k \in 1 .. Len(past) : p[k] = With[past[k]]
    BY <1>15
  <2> QED
    BY <1>14, <2>1, <2>2
<1>9. ASSUME NEW i \in 1 .. m + 1
      PROVE  SceneAt(future, present, i) \in S /\ SceneAt(f, With[present], i) = With[SceneAt(future, present, i)]
  <2>1. future \in Seq(S) /\ Len(f) = Len(future) /\ i \in 1 .. Len(future) + 1
    BY <1>2, <1>6
  <2>2. \A k \in 1 .. Len(future) : f[k] = With[future[k]]
    BY <1>2, <1>6
  <2> QED
    BY <1>14, <2>1, <2>2
<1>10. ASSUME NEW i \in 1 .. n
       PROVE  <<SceneAt(p, With[present], i), undo[i], SceneAt(p, With[present], i + 1)>> \in L
  <2>1. i \in 1 .. n + 1 /\ i + 1 \in 1 .. n + 1
    BY <1>1
  <2>2. PICK x, y, c : x = SceneAt(past, present, i) /\ y = SceneAt(past, present, i + 1) /\ c = undo[i]
    OBVIOUS
  <2>3. x \in S /\ y \in S /\ c \in ToSet(undo) /\ <<x, c, y>> \in L
    BY <1>1, <1>7, <1>8, <2>1, <2>2
  <2>4. <<With[x], c, With[y]>> \in L
    BY <2>3
  <2>5. SceneAt(p, With[present], i) = With[x] /\ SceneAt(p, With[present], i + 1) = With[y]
    BY <1>8, <2>1, <2>2
  <2> QED
    BY <2>2, <2>4, <2>5
<1>11. ASSUME NEW i \in 1 .. m
       PROVE  <<SceneAt(f, With[present], i + 1), redo[i], SceneAt(f, With[present], i)>> \in L
  <2>1. i \in 1 .. m + 1 /\ i + 1 \in 1 .. m + 1
    BY <1>2
  <2>2. PICK x, y, c : x = SceneAt(future, present, i + 1) /\ y = SceneAt(future, present, i) /\ c = redo[i]
    OBVIOUS
  <2>3. x \in S /\ y \in S /\ c \in ToSet(redo) /\ <<x, c, y>> \in L
    BY <1>2, <1>7, <1>9, <2>1, <2>2
  <2>4. <<With[x], c, With[y]>> \in L
    BY <2>3
  <2>5. SceneAt(f, With[present], i + 1) = With[x] /\ SceneAt(f, With[present], i) = With[y]
    BY <1>9, <2>1, <2>2
  <2> QED
    BY <2>2, <2>4, <2>5
<1>12. With[present] \in S
  BY <1>1
<1> QED
  BY <1>3, <1>4, <1>5, <1>6, <1>10, <1>11, <1>12 DEF IsLine, n, m

=============================================================================
