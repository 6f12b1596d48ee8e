-------------------------- MODULE MemoryPool_proofs --------------------------
(***************************************************************************)
(* For every pool, block, request and cache size: the blocks tile the      *)
(* pool, each is in one place, the records agree, nothing fits when the    *)
(* pool says so, and the pool implements the allocator.  The pool finds    *)
(* its free blocks by following pointers; the proofs rest on a sequence    *)
(* that lists them, which each step changes in one place.                  *)
(***************************************************************************)
EXTENDS MemoryPool, FiniteSetTheorems, SequenceLemmas, TLAPS


\* The rounding of allocate() never cuts a request short.
LEMMA Rounding ==
  ASSUME NEW n \in Nat
  PROVE  Abstract!Needed(n) \in Nat /\ Abstract!Needed(n) >= HeaderSize + n
<1> DEFINE a == HeaderSize + n + MinBlock - 1
           q == a \div MinBlock
<1>1. /\ n \in Nat /\ HeaderSize \in Nat /\ MinBlock \in Nat /\ MinBlock > 0
      /\ a \in Nat /\ a = HeaderSize + n + MinBlock - 1
  BY SizesAssumption
<1>2. Abstract!Needed(n) = q * MinBlock
  BY DEF Abstract!Needed
<1> HIDE DEF a
<1>3. q \in Nat /\ a % MinBlock \in 0..(MinBlock - 1)
  BY <1>1
<1>4. a = MinBlock * q + (a % MinBlock)
  BY <1>1
<1> HIDE DEF q
<1>5. MinBlock * q = q * MinBlock /\ q * MinBlock \in Nat
  BY <1>1, <1>3
<1> QED
  BY <1>1, <1>2, <1>3, <1>4, <1>5

LEMMA AbstractInit == Abstract!Init => Abstract!PoolInv
BY SizesAssumption DEF Abstract!Init, Abstract!PoolInv, Abstract!TypeOK, Abstract!Disjoint, Abstract!Covered, Abstract!LargeEnough

-----------------------------------------------------------------------------
LEMMA WholeInv ==
  ASSUME Abstract!PoolInv, NEW o \in DOMAIN blockSize, NEW n \in Requests, Abstract!TakeWhole(o, n)
  PROVE  Abstract!PoolInv'
<1> USE DEF Abstract!PoolInv, Abstract!TakeWhole, Abstract!Hold
<1>1. Abstract!TypeOK'
  BY DEF Abstract!TypeOK
<1>2. Abstract!Disjoint' /\ Abstract!Covered'
  BY DEF Abstract!Disjoint, Abstract!Covered
<1>3. Abstract!LargeEnough'
  <2>1. n \in Nat /\ Abstract!Needed(n) \in Nat /\ Abstract!Needed(n) >= HeaderSize + n
    BY Rounding, SizesAssumption
  <2>2. blockSize[o] - HeaderSize >= n
    BY <2>1, SizesAssumption DEF Abstract!TypeOK
  <2> QED
    BY <2>2 DEF Abstract!LargeEnough
<1> QED
  BY <1>1, <1>2, <1>3

\* A cut lies strictly inside the old block, where no other begins.
LEMMA CutInside ==
  ASSUME Abstract!PoolInv, NEW o \in DOMAIN blockSize, NEW n \in Requests, Abstract!TakeFront(o, n)
  PROVE  /\ Abstract!Needed(n) \in Nat /\ Abstract!Needed(n) >= HeaderSize + n
         /\ o \in Nat /\ blockSize[o] \in Nat /\ o + blockSize[o] <= PoolSize
         /\ 0 < Abstract!Needed(n) /\ Abstract!Needed(n) < blockSize[o]
         /\ o + Abstract!Needed(n) \in 0..(PoolSize - 1) /\ o + Abstract!Needed(n) \notin DOMAIN blockSize
<1> DEFINE b == Abstract!Needed(n)
           p == o + b
<1>1. /\ n \in Nat /\ HeaderSize \in Nat /\ HeaderSize > 0 /\ PoolSize \in Nat 
      /\ b \in Nat /\ b >= HeaderSize + n
      /\ o \in Nat /\ blockSize[o] \in Nat /\ blockSize[o] > b /\ o + blockSize[o] <= PoolSize
  BY Rounding, SizesAssumption DEF Abstract!Splittable, Abstract!PoolInv, Abstract!TypeOK, Abstract!Disjoint, Abstract!TakeFront
<1>2. b > 0 /\ b < blockSize[o] /\ o < p /\ p < o + blockSize[o] /\ p \in 0..(PoolSize - 1)
  BY <1>1
<1>3. p \notin DOMAIN blockSize
  BY <1>1, <1>2 DEF Abstract!PoolInv, Abstract!TypeOK, Abstract!Disjoint
<1> QED
  BY <1>1, <1>2, <1>3

LEMMA FrontInv ==
  ASSUME Abstract!PoolInv, NEW o \in DOMAIN blockSize, NEW n \in Requests, Abstract!TakeFront(o, n)
  PROVE  Abstract!PoolInv'
<1> DEFINE b == Abstract!Needed(n)
           p == o + b
<1>1. /\ n \in Nat /\ HeaderSize \in Nat /\ HeaderSize > 0 /\ PoolSize \in Nat
      /\ b \in Nat /\ b >= HeaderSize + n
      /\ o \in Nat /\ blockSize[o] \in Nat /\ blockSize[o] > b /\ o + blockSize[o] <= PoolSize
  BY CutInside, SizesAssumption
<1>2. b > 0 /\ b < blockSize[o] /\ o < p /\ p < o + blockSize[o] /\ p \in 0..(PoolSize - 1)
  BY <1>1
<1>3. p \notin DOMAIN blockSize
  BY CutInside
<1>4. /\ DOMAIN blockSize' = DOMAIN blockSize \cup {p}
      /\ blockSize'[o] = b
      /\ blockSize'[p] = blockSize[o] - b
      /\ \A x \in DOMAIN blockSize \ {o} : blockSize'[x] = blockSize[x]
      /\ blockSize' = [x \in DOMAIN blockSize' |-> blockSize'[x]]
  BY <1>2, <1>3 DEF Abstract!TakeFront
<1>5. /\ DOMAIN held' = DOMAIN held \cup {o}
      /\ \A x \in DOMAIN held' : held'[x] = IF x = o THEN n ELSE held[x]
      /\ o \notin DOMAIN held
      /\ held' = [x \in DOMAIN held' |-> held'[x]]
  BY DEF Abstract!TakeFront, Abstract!Hold
<1> HIDE DEF b, p
<1> USE DEF Abstract!PoolInv
<1>6. Abstract!TypeOK'
  <2>1. DOMAIN blockSize' \subseteq 0..(PoolSize - 1)
    BY <1>2, <1>4 DEF Abstract!TypeOK
  <2>2. \A x \in DOMAIN blockSize' : blockSize'[x] \in 1..PoolSize
    BY <1>1, <1>2, <1>4 DEF Abstract!TypeOK
  <2>3. held' \in [DOMAIN held' -> Requests]
    BY <1>5 DEF Abstract!TypeOK
  <2> QED
    BY <1>4, <1>5, <2>1, <2>2, <2>3 DEF Abstract!TypeOK
<1>7. Abstract!Disjoint'
  <2>1. \A x \in DOMAIN blockSize' : x + blockSize'[x] <= PoolSize
    BY <1>1, <1>2, <1>4 DEF Abstract!TypeOK, Abstract!Disjoint, p
  <2>2. \A x, y \in DOMAIN blockSize' : x < y => x + blockSize'[x] <= y
    BY <1>1, <1>2, <1>4 DEF Abstract!TypeOK, Abstract!Disjoint, p
  <2> QED
    BY <2>1, <2>2 DEF Abstract!Disjoint
<1>8. Abstract!Covered'
  <2>1. SUFFICES ASSUME NEW x \in 0..(PoolSize - 1)
                 PROVE  \E y \in DOMAIN blockSize' : y <= x /\ x < y + blockSize'[y]
    BY DEF Abstract!Covered
  <2>2. PICK y \in DOMAIN blockSize : y <= x /\ x < y + blockSize[y]
    BY DEF Abstract!Covered
  <2>3. CASE y # o
    BY <1>4, <2>2, <2>3
  <2>4. CASE y = o /\ x < p
    BY <1>1, <1>4, <2>2, <2>4 DEF p
  <2>5. CASE y = o /\ ~(x < p)
    BY <1>1, <1>2, <1>4, <2>2, <2>5 DEF p
  <2> QED
    BY <2>3, <2>4, <2>5
<1>9. Abstract!LargeEnough'
  <2>1. blockSize'[o] - HeaderSize >= held'[o]
    BY <1>1, <1>4, <1>5
  <2>2. \A x \in DOMAIN held : x # o => blockSize'[x] - HeaderSize >= held'[x]
    BY <1>4, <1>5 DEF Abstract!TypeOK, Abstract!LargeEnough
  <2> QED
    BY <1>5, <2>1, <2>2 DEF Abstract!LargeEnough
<1> QED
  BY <1>6, <1>7, <1>8, <1>9

LEMMA GiveBackInv ==
  ASSUME Abstract!PoolInv, NEW o \in DOMAIN held, Abstract!GiveBack(o)
  PROVE  Abstract!PoolInv'
BY DEF Abstract!PoolInv, Abstract!GiveBack, Abstract!TypeOK, Abstract!Disjoint, Abstract!Covered, Abstract!LargeEnough

-----------------------------------------------------------------------------
\* The blocks tile the pool without overlap, and whoever holds one has room
\* for what it asked (allocate(), lines 330-443).
THEOREM Tiling == Abstract!Spec => []Abstract!PoolInv
<1>1. Abstract!PoolInv /\ [Abstract!Next]_(Abstract!vars) => Abstract!PoolInv'
  <2>1. ASSUME Abstract!PoolInv, Abstract!Next PROVE Abstract!PoolInv'
    BY <2>1, WholeInv, FrontInv, GiveBackInv DEF Abstract!Next
  <2>2. ASSUME Abstract!PoolInv, UNCHANGED Abstract!vars PROVE Abstract!PoolInv'
    BY <2>2 DEF Abstract!vars, Abstract!PoolInv, Abstract!TypeOK, Abstract!Disjoint, Abstract!Covered, Abstract!LargeEnough
  <2> QED
    BY <2>1, <2>2
<1> QED
  BY <1>1, AbstractInit, PTL DEF Abstract!Spec
-----------------------------------------------------------------------------
(* The free list *)

\* s lists the n free blocks in the order of the list.
Listed(n, s) ==
  /\ n \in 0 .. MaxBlocks /\ s \in [1 .. n -> Blocks]
  /\ \A i, j \in 1 .. n : s[i] = s[j] => i = j
  /\ freeHead = IF n = 0 THEN Null ELSE s[1]
  /\ \A i \in 1 .. n : nextFree[s[i]] = IF i = n THEN Null ELSE s[i + 1]

\* Every block is listed, cached or held, and no two of these.
Placed(n, s) ==
  /\ \A o \in Blocks : o \in DOMAIN held \/ o \in CachedBlocks \/ \E i \in 1 .. n : s[i] = o
  /\ \A i \in 1 .. n : s[i] \notin DOMAIN held /\ s[i] \notin CachedBlocks
  /\ \A o \in CachedBlocks : o \notin DOMAIN held

\* The cache holds a block once, with its size.
Cached ==
  /\ cache \in Seq([offset : Blocks, blockSize : 1 .. PoolSize]) /\ Len(cache) <= CacheSize
  /\ \A i \in DOMAIN cache : cache[i].blockSize = blockSize[cache[i].offset]
  /\ \A i, j \in DOMAIN cache : cache[i].offset = cache[j].offset => i = j

\* Blocks begin at multiples of the minimum block.
Aligned == \A o \in Blocks : \E q \in Nat : o = q * MinBlock

Linked == nextFree \in [Blocks -> Blocks \cup {Null}]

Books ==
  /\ IsFiniteSet(DOMAIN held) /\ allocatedCount = Cardinality(DOMAIN held)
  /\ bitmap = {i \in 0 .. (BitmapBlocks - 1) : i * MinBlock \in DOMAIN held}

Lists == \E n, s : Listed(n, s) /\ Placed(n, s)

IInv == Abstract!PoolInv /\ Aligned /\ Linked /\ Cached /\ Books /\ Lists

-----------------------------------------------------------------------------
(* Arithmetic *)

\* A multiple of the minimum block is told from the others by its bit.
LEMMA Multiples ==
  ASSUME NEW q \in Nat
  PROVE  /\ q * MinBlock \in Nat /\ (q * MinBlock) \div MinBlock = q /\ (q * MinBlock) % MinBlock = 0
         /\ \A r \in Nat : q * MinBlock = r * MinBlock => q = r
<1>1. MinBlock \in Nat /\ MinBlock > 0
  BY SizesAssumption
<1>2. \A a \in Nat : a = MinBlock * (a \div MinBlock) + (a % MinBlock)
                     /\ a % MinBlock \in 0 .. (MinBlock - 1) /\ a \div MinBlock \in Nat
  BY <1>1
<1> DEFINE a == q * MinBlock  d == a \div MinBlock  m == a % MinBlock
<1>3. a \in Nat /\ a = MinBlock * q
  BY <1>1
<1>4. a = MinBlock * d + m /\ m \in 0 .. (MinBlock - 1) /\ d \in Nat
  BY <1>2, <1>3
<1> HIDE DEF d, m
<1>5. d = q /\ m = 0
  <2>1. ASSUME d < q PROVE FALSE
    <3>1. MinBlock * (q - d) >= MinBlock
      BY <1>1, <1>4, <2>1
    <3>2. MinBlock * (q - d) = MinBlock * q - MinBlock * d
      BY <1>1, <1>4
    <3> QED
      BY <1>1, <1>3, <1>4, <3>1, <3>2
  <2>2. ASSUME d > q PROVE FALSE
    <3>1. MinBlock * (d - q) >= MinBlock
      BY <1>1, <1>4, <2>2
    <3>2. MinBlock * (d - q) = MinBlock * d - MinBlock * q
      BY <1>1, <1>4
    <3> QED
      BY <1>1, <1>3, <1>4, <3>1, <3>2
  <2>3. d = q
    BY <1>4, <2>1, <2>2
  <2> QED
    BY <1>3, <1>4, <2>3
<1>6. ASSUME NEW r \in Nat, q * MinBlock = r * MinBlock PROVE q = r
  <2>1. ASSUME NEW x \in Nat, NEW y \in Nat, x < y PROVE x * MinBlock # y * MinBlock
    <3>1. (y - x) * MinBlock >= MinBlock
      BY <1>1, <2>1
    <3>2. (y - x) * MinBlock = y * MinBlock - x * MinBlock
      BY <1>1
    <3> QED
      BY <1>1, <3>1, <3>2
  <2> QED
    BY <1>6, <2>1
<1> QED
  BY <1>3, <1>5, <1>6 DEF d, m

\* A cut begins at a multiple, too.
LEMMA CutAligned ==
  ASSUME NEW q \in Nat, NEW k \in Nat
  PROVE  \E r \in Nat : q * MinBlock + Needed(k) = r * MinBlock
<1>1. MinBlock \in Nat /\ MinBlock > 0 /\ HeaderSize \in Nat
  BY SizesAssumption
<1> DEFINE p == (HeaderSize + k + MinBlock - 1) \div MinBlock
<1>2. p \in Nat /\ Needed(k) = p * MinBlock
  BY <1>1 DEF Needed
<1> HIDE DEF p
<1>3. q * MinBlock + p * MinBlock = (q + p) * MinBlock
  BY <1>1, <1>2
<1> QED
  BY <1>2, <1>3

LEMMA BoundsNat == MaxBlocks \in Nat
BY SizesAssumption DEF MaxBlocks

\* There are at most MaxBlocks blocks: no list is longer.
LEMMA FewBlocks ==
  ASSUME Abstract!TypeOK, Aligned
  PROVE  IsFiniteSet(Blocks) /\ Cardinality(Blocks) <= MaxBlocks
<1> DEFINE index == [o \in Blocks |-> o \div MinBlock]
           R == 0 .. (MaxBlocks - 1)
<1>1. ASSUME NEW o \in Blocks PROVE o \div MinBlock \in R
  <2>1. PICK q \in Nat : o = q * MinBlock
    BY DEF Aligned
  <2>2. o \div MinBlock = q /\ o < PoolSize /\ MinBlock \in Nat /\ MinBlock > 0 /\ PoolSize \in Nat /\ o \in Nat
    BY <2>1, Multiples, SizesAssumption DEF Abstract!TypeOK, Blocks
  <2>3. q <= PoolSize \div MinBlock
    BY <2>1, <2>2
  <2> QED
    BY <2>2, <2>3 DEF MaxBlocks
<1>2. ASSUME NEW o \in Blocks, NEW p \in Blocks, o \div MinBlock = p \div MinBlock PROVE o = p
  <2>1. PICK q \in Nat : o = q * MinBlock
    BY DEF Aligned
  <2>2. PICK r \in Nat : p = r * MinBlock
    BY DEF Aligned
  <2> QED
    BY <1>2, <2>1, <2>2, Multiples
<1>3. index \in Injection(Blocks, R)
  BY <1>1, <1>2 DEF Injection, IsInjective
<1>4. IsFiniteSet(R) /\ Cardinality(R) = MaxBlocks
  BY BoundsNat, FS_Interval
<1> HIDE DEF index, R
<1> QED
  BY <1>3, <1>4, FS_Injection

LEMMA ShortList ==
  ASSUME Abstract!TypeOK, Aligned, NEW n \in Nat, NEW s \in [1 .. n -> Blocks],
         \A i, j \in 1 .. n : s[i] = s[j] => i = j
  PROVE  n \in 0 .. MaxBlocks
<1>1. IsFiniteSet(Blocks) /\ Cardinality(Blocks) <= MaxBlocks
  BY FewBlocks
<1>2. s \in Injection(1 .. n, Blocks)
  BY DEF Injection, IsInjective
<1>3. IsFiniteSet(1 .. n) /\ Cardinality(1 .. n) = n
  BY FS_Interval
<1>4. n <= Cardinality(Blocks) /\ Cardinality(Blocks) \in Nat
  BY <1>1, <1>2, <1>3, FS_Injection, FS_CardinalityType
<1> QED
  BY <1>1, <1>4, BoundsNat
-----------------------------------------------------------------------------
(* The walk down the list *)

\* Hop is defined: the function it stands for exists.
LEMMA HopLaw ==
  ASSUME NEW n, NEW s, Listed(n, s), Blocks \subseteq Nat, MaxBlocks \in Nat
  PROVE  Hop = [k \in 0 .. MaxBlocks |->
           IF k = 0 THEN freeHead ELSE IF Hop[k - 1] = Null THEN Null ELSE nextFree[Hop[k - 1]]]
<1> DEFINE h == [k \in 0 .. MaxBlocks |-> IF k < n THEN s[k + 1] ELSE Null]
           Law(f) == f = [k \in 0 .. MaxBlocks |->
             IF k = 0 THEN freeHead ELSE IF f[k - 1] = Null THEN Null ELSE nextFree[f[k - 1]]]
<1>0. /\ \A k \in 0 .. MaxBlocks : h[k] = IF k < n THEN s[k + 1] ELSE Null
      /\ DOMAIN h = 0 .. MaxBlocks /\ h = [k \in DOMAIN h |-> h[k]]
  OBVIOUS
<1> HIDE DEF h
<1>1. Law(h)
  <2>1. ASSUME NEW k \in 0 .. MaxBlocks
        PROVE  h[k] = IF k = 0 THEN freeHead ELSE IF h[k - 1] = Null THEN Null ELSE nextFree[h[k - 1]]
    <3>0. n \in Nat /\ k \in Nat /\ (k > 0 => k - 1 \in 0 .. MaxBlocks)
          /\ h[k] = (IF k < n THEN s[k + 1] ELSE Null)
          /\ (k > 0 => h[k - 1] = IF k - 1 < n THEN s[(k - 1) + 1] ELSE Null)
      <4>1. n \in Nat /\ k \in Nat /\ (k > 0 => k - 1 \in 0 .. MaxBlocks)
        BY DEF Listed
      <4> QED
        BY <1>0, <4>1
    <3>1. CASE k = 0
      BY <3>0, <3>1 DEF Listed
    <3>2. CASE k > 0 /\ k - 1 < n
      <4>1. h[k - 1] = s[k] /\ k \in 1 .. n /\ s[k] # Null
        BY <3>0, <3>2 DEF Listed, Null
      <4>2. nextFree[s[k]] = IF k = n THEN Null ELSE s[k + 1]
        BY <4>1 DEF Listed
      <4>3. h[k] = nextFree[s[k]]
        BY <3>0, <4>1, <4>2
      <4> QED
        BY <3>2, <4>1, <4>3
    <3>3. CASE k > 0 /\ ~(k - 1 < n)
      BY <3>0, <3>3
    <3> QED
      BY <3>0, <3>1, <3>2, <3>3
  <2> QED
    BY <1>0, <2>1
<1>2. Law(CHOOSE f : Law(f))
  BY <1>1, Zenon
<1>3. Hop = CHOOSE f : Law(f)
  BY DEF Hop
<1> HIDE DEF Law
<1>4. Law(Hop)
  BY <1>2, <1>3
<1> QED
  BY <1>4 DEF Law

\* The walk meets the listed blocks in their order, and then the end.
LEMMA Walk ==
  ASSUME NEW n, NEW s, Listed(n, s), Blocks \subseteq Nat
  PROVE  \A k \in 0 .. MaxBlocks : Hop[k] = IF k < n THEN s[k + 1] ELSE Null
<1> DEFINE Right(k) == Hop[k] = IF k < n THEN s[k + 1] ELSE Null
           Wrong == {k \in 0 .. MaxBlocks : ~Right(k)}
           m == Min(Wrong)
<1>0. MaxBlocks \in Nat
  BY BoundsNat
<1>1. SUFFICES ASSUME Wrong # {} PROVE FALSE
  OBVIOUS
<1>2. m \in Wrong /\ \A k \in Wrong : m <= k
  BY <1>0, <1>1, Least
<1> HIDE DEF m
<1>3. m \in 0 .. MaxBlocks /\ ~Right(m) /\ \A k \in 0 .. MaxBlocks : k < m => Right(k)
  <2>1. ASSUME NEW k \in 0 .. MaxBlocks, k < m PROVE Right(k)
    BY <1>0, <1>2, <2>1
  <2> QED
    BY <1>2, <2>1
<1>4. Hop[m] = IF m = 0 THEN freeHead ELSE IF Hop[m - 1] = Null THEN Null ELSE nextFree[Hop[m - 1]]
  BY <1>0, <1>3, HopLaw
<1>5. n \in Nat /\ m \in Nat
  BY <1>0, <1>3 DEF Listed
<1>6. CASE m = 0
  BY <1>3, <1>4, <1>5, <1>6 DEF Listed
<1>7. CASE m > 0
  <2>1. m - 1 \in 0 .. MaxBlocks /\ m - 1 < m /\ (m - 1) + 1 = m
    BY <1>0, <1>3, <1>7
  <2>2. Hop[m - 1] = IF m - 1 < n THEN s[m] ELSE Null
    BY <1>3, <2>1
  <2>3. CASE m - 1 < n
    <3>1. m \in 1 .. n /\ s[m] # Null
      BY <1>5, <1>7, <2>3 DEF Listed, Null
    <3>2. nextFree[s[m]] = IF m = n THEN Null ELSE s[m + 1]
      BY <3>1 DEF Listed
    <3>3. Hop[m] = nextFree[s[m]]
      BY <1>4, <1>7, <2>2, <2>3, <3>1
    <3> QED
      BY <1>3, <1>5, <2>3, <3>1, <3>2, <3>3
  <2>4. CASE ~(m - 1 < n)
    BY <1>3, <1>4, <1>5, <1>7, <2>2, <2>4
  <2> QED
    BY <2>3, <2>4
<1> QED
  BY <1>5, <1>6, <1>7

\* The first block that fits is a listed one, and its predecessor is the one
\* listed before it.
LEMMA Found ==
  ASSUME NEW n, NEW s, Listed(n, s), Blocks \subseteq Nat,
         NEW need, NEW k \in 0 .. MaxBlocks, FirstFit(need, k)
  PROVE  /\ k + 1 \in 1 .. n /\ Hop[k] = s[k + 1] /\ blockSize[s[k + 1]] >= need
         /\ k > 0 => Hop[k - 1] = s[k]
<1>1. MaxBlocks \in Nat /\ n \in 0 .. MaxBlocks
  BY BoundsNat DEF Listed
<1>2. \A j \in 0 .. MaxBlocks : Hop[j] = IF j < n THEN s[j + 1] ELSE Null
  BY Walk
<1>3. k < n /\ Hop[k] = s[k + 1]
  BY <1>2 DEF FirstFit
<1>4. k > 0 => Hop[k - 1] = s[k]
  <2>1. k > 0 => k - 1 \in 0 .. MaxBlocks /\ k - 1 < n /\ (k - 1) + 1 = k
    BY <1>1, <1>3
  <2> QED
    BY <1>2, <2>1
<1> QED
  BY <1>1, <1>3, <1>4 DEF FirstFit

\* A listed block gives its place to a new one.
LEMMA Replaced ==
  ASSUME NEW n, NEW s, Listed(n, s), NEW i \in 1 .. n, NEW new, new \notin Blocks,
         Blocks' = Blocks \cup {new},
         freeHead' = IF i = 1 THEN new ELSE freeHead,
         nextFree'[new] = nextFree[s[i]],
         \A x \in Blocks : x # s[i] =>
           nextFree'[x] = IF i > 1 /\ x = s[i - 1] THEN new ELSE nextFree[x],
         NEW t, t = [s EXCEPT ![i] = new]
  PROVE  Listed(n, t)'
<1>1. n \in 0 .. MaxBlocks /\ n \in Nat /\ s \in [1 .. n -> Blocks] /\ MaxBlocks' = MaxBlocks
  BY BoundsNat DEF Listed, MaxBlocks
<1>2. t \in [1 .. n -> Blocks'] /\ \A j \in 1 .. n : t[j] = IF j = i THEN new ELSE s[j]
  BY <1>1
<1>3. \A j, l \in 1 .. n : t[j] = t[l] => j = l
  BY <1>1, <1>2 DEF Listed
<1>4. freeHead' = IF n = 0 THEN Null ELSE t[1]
  BY <1>1, <1>2 DEF Listed
<1>5. ASSUME NEW j \in 1 .. n PROVE nextFree'[t[j]] = IF j = n THEN Null ELSE t[j + 1]
  <2>1. nextFree[s[j]] = IF j = n THEN Null ELSE s[j + 1]
    BY DEF Listed
  <2>2. CASE j = i
    <3>1. nextFree'[t[j]] = nextFree[s[j]]
      BY <1>2, <2>2
    <3>2. j # n => j + 1 \in 1 .. n /\ j + 1 # i
      BY <1>1, <2>2
    <3> QED
      BY <1>2, <2>1, <3>1, <3>2
  <2>3. CASE j # i
    <3>1. t[j] = s[j] /\ s[j] \in Blocks /\ s[j] # s[i]
      BY <1>1, <1>2, <2>3 DEF Listed
    <3>2. CASE j + 1 = i
      <4>1. i > 1 /\ i - 1 = j /\ j # n
        BY <1>1, <3>2
      <4> QED
        BY <1>2, <3>1, <3>2, <4>1
    <3>3. CASE j + 1 # i
      <4>1. ~(i > 1 /\ s[j] = s[i - 1])
        <5>1. i > 1 => i - 1 \in 1 .. n /\ i - 1 # j
          BY <1>1, <3>3
        <5> QED
          BY <5>1 DEF Listed
      <4>2. nextFree'[t[j]] = nextFree[s[j]]
        BY <3>1, <4>1
      <4>3. j # n => j + 1 \in 1 .. n
        BY <1>1
      <4> QED
        BY <1>2, <2>1, <3>3, <4>2, <4>3
    <3> QED
      BY <3>2, <3>3
  <2> QED
    BY <2>2, <2>3
<1> QED
  BY <1>1, <1>2, <1>3, <1>4, <1>5 DEF Listed, Null

\* A listed block is taken out of the list.
LEMMA Unlinked ==
  ASSUME NEW n, NEW s, Listed(n, s), NEW i \in 1 .. n,
         Blocks' = Blocks,
         freeHead' = IF i = 1 THEN nextFree[s[i]] ELSE freeHead,
         \A x \in Blocks : x # s[i] =>
           nextFree'[x] = IF i > 1 /\ x = s[i - 1] THEN nextFree[s[i]] ELSE nextFree[x],
         NEW t, t = [j \in 1 .. n - 1 |-> IF j < i THEN s[j] ELSE s[j + 1]]
  PROVE  Listed(n - 1, t)'
<1>1. n \in 0 .. MaxBlocks /\ n \in Nat /\ s \in [1 .. n -> Blocks] /\ MaxBlocks' = MaxBlocks
      /\ n > 0 /\ n - 1 \in 0 .. MaxBlocks
  BY BoundsNat DEF Listed, MaxBlocks
<1>2. t \in [1 .. n - 1 -> Blocks'] /\ \A j \in 1 .. n - 1 : t[j] = IF j < i THEN s[j] ELSE s[j + 1]
  BY <1>1
<1>3. ASSUME NEW j \in 1 .. n - 1, NEW l \in 1 .. n - 1, t[j] = t[l] PROVE j = l
  <2>1. j \in 1 .. n /\ j + 1 \in 1 .. n /\ l \in 1 .. n /\ l + 1 \in 1 .. n
    BY <1>1
  <2>2. (IF j < i THEN j ELSE j + 1) = (IF l < i THEN l ELSE l + 1)
    BY <1>2, <1>3, <2>1 DEF Listed
  <2> QED
    BY <2>1, <2>2
<1>4. freeHead' = IF n - 1 = 0 THEN Null ELSE t[1]
  <2>1. nextFree[s[i]] = IF i = n THEN Null ELSE s[i + 1]
    BY DEF Listed
  <2>2. CASE i = 1
    BY <1>1, <1>2, <2>1, <2>2
  <2>3. CASE i # 1
    BY <1>1, <1>2, <2>3 DEF Listed
  <2> QED
    BY <2>2, <2>3
<1>5. ASSUME NEW j \in 1 .. n - 1 PROVE nextFree'[t[j]] = IF j = n - 1 THEN Null ELSE t[j + 1]
  <2> DEFINE l == IF j < i THEN j ELSE j + 1
  <2>1. l \in 1 .. n /\ l # i /\ t[j] = s[l]
    BY <1>1, <1>2
  <2>2. s[l] \in Blocks /\ s[l] # s[i]
    BY <1>1, <2>1 DEF Listed
  <2>3. nextFree[s[l]] = IF l = n THEN Null ELSE s[l + 1]
    BY <2>1 DEF Listed
  <2>4. nextFree[s[i]] = IF i = n THEN Null ELSE s[i + 1]
    BY DEF Listed
  <2>5. CASE j + 1 = i
    <3>1. i > 1 /\ l = i - 1 /\ l = j
      BY <1>1, <2>5
    <3>2. nextFree'[t[j]] = nextFree[s[i]]
      BY <2>1, <2>2, <3>1
    <3>3. j # n - 1 => t[j + 1] = s[i + 1] /\ i # n
      BY <1>1, <1>2, <2>5
    <3> QED
      BY <1>1, <2>4, <2>5, <3>2, <3>3
  <2>6. CASE j + 1 # i
    <3>1. ~(i > 1 /\ s[l] = s[i - 1])
      <4>1. i > 1 => i - 1 \in 1 .. n /\ i - 1 # l
        BY <1>1, <2>6
      <4> QED
        BY <2>1, <4>1 DEF Listed
    <3>2. nextFree'[t[j]] = nextFree[s[l]]
      BY <2>1, <2>2, <3>1
    <3>3. (l = n <=> j = n - 1) /\ (j # n - 1 => t[j + 1] = s[l + 1])
      BY <1>1, <1>2, <2>1, <2>6
    <3> QED
      BY <2>3, <3>2, <3>3
  <2> QED
    BY <2>5, <2>6
<1> QED
  BY <1>1, <1>2, <1>3, <1>4, <1>5 DEF Listed, Null

\* A block is put in front of the list.
LEMMA Prepended ==
  ASSUME NEW n, NEW s, Listed(n, s), NEW o \in Blocks, \A i \in 1 .. n : s[i] # o,
         n + 1 \in 0 .. MaxBlocks,
         Blocks' = Blocks, freeHead' = o, nextFree'[o] = freeHead,
         \A x \in Blocks : x # o => nextFree'[x] = nextFree[x],
         NEW t, t = [j \in 1 .. n + 1 |-> IF j = 1 THEN o ELSE s[j - 1]]
  PROVE  Listed(n + 1, t)'
<1>1. n \in Nat /\ s \in [1 .. n -> Blocks] /\ MaxBlocks' = MaxBlocks
  BY BoundsNat DEF Listed, MaxBlocks
<1>2. t \in [1 .. n + 1 -> Blocks'] /\ \A j \in 1 .. n + 1 : t[j] = IF j = 1 THEN o ELSE s[j - 1]
  BY <1>1
<1>3. \A j, l \in 1 .. n + 1 : t[j] = t[l] => j = l
  <2>1. ASSUME NEW j \in 1 .. n + 1, NEW l \in 1 .. n + 1, t[j] = t[l] PROVE j = l
    <3>1. j # 1 => j - 1 \in 1 .. n
      BY <1>1
    <3>2. l # 1 => l - 1 \in 1 .. n
      BY <1>1
    <3>3. j # 1 /\ l # 1 => j - 1 = l - 1
      BY <1>2, <2>1, <3>1, <3>2 DEF Listed
    <3> QED
      BY <1>1, <1>2, <2>1, <3>1, <3>2, <3>3
  <2> QED
    BY <2>1
<1>4. freeHead' = IF n + 1 = 0 THEN Null ELSE t[1]
  BY <1>1, <1>2
<1>5. ASSUME NEW j \in 1 .. n + 1 PROVE nextFree'[t[j]] = IF j = n + 1 THEN Null ELSE t[j + 1]
  <2>1. CASE j = 1
    <3>1. nextFree'[t[j]] = freeHead
      BY <1>2, <2>1
    <3>2. n # 0 => t[j + 1] = s[1]
      BY <1>1, <1>2, <2>1
    <3> QED
      BY <1>1, <2>1, <3>1, <3>2 DEF Listed
  <2>2. CASE j # 1
    <3>1. j - 1 \in 1 .. n /\ t[j] = s[j - 1]
      BY <1>1, <1>2, <2>2
    <3>2. nextFree'[t[j]] = IF j - 1 = n THEN Null ELSE s[(j - 1) + 1]
      BY <1>1, <3>1 DEF Listed
    <3>3. j # n + 1 => t[j + 1] = s[(j - 1) + 1]
      BY <1>1, <1>2, <2>2
    <3> QED
      BY <1>1, <3>2, <3>3
  <2> QED
    BY <2>1, <2>2
<1> QED
  BY <1>1, <1>2, <1>3, <1>4, <1>5 DEF Listed, Null
-----------------------------------------------------------------------------
(* The cache *)

\* The cache hit is the topmost entry that is large enough, if there is one.
LEMMA Hit ==
  ASSUME Cached, NEW need \in Nat
  PROVE  IF CacheHit(need) = 0 THEN \A i \in DOMAIN cache : cache[i].blockSize < need
         ELSE CacheHit(need) \in DOMAIN cache /\ cache[CacheHit(need)].blockSize >= need
<1> DEFINE I == {i \in 1 .. Len(cache) : cache[i].blockSize >= need}
           Entries == [offset : Blocks, blockSize : 1 .. PoolSize]
<1>1. CacheHit(need) = IF I # {} THEN Min(I) ELSE 0
  BY DEF CacheHit, SelectInSeq
<1>2. Len(cache) \in Nat /\ DOMAIN cache = 1 .. Len(cache)
  BY DEF Cached
<1>3. \A i \in DOMAIN cache : cache[i].blockSize \in Nat
  <2>1. \A e \in Entries : e.blockSize \in Nat
    BY SizesAssumption
  <2>2. cache \in Seq(Entries)
    BY DEF Cached
  <2> HIDE DEF Entries
  <2> QED
    BY <1>2, <2>1, <2>2, ElementOfSeq
<1>4. CASE I = {}
  BY <1>1, <1>2, <1>3, <1>4
<1>5. CASE I # {}
  <2>1. I \subseteq Nat
    BY <1>2
  <2> DEFINE k == Min(I)
  <2>2. k \in I
    BY <1>5, <2>1, Least
  <2>3. CacheHit(need) = k
    BY <1>1, <1>5
  <2> HIDE DEF k
  <2>4. k \in 1 .. Len(cache) /\ cache[k].blockSize >= need
    BY <2>2
  <2>5. k # 0
    BY <1>2, <2>4
  <2> QED
    BY <1>2, <2>3, <2>4, <2>5
<1> QED
  BY <1>4, <1>5

\* An entry is taken out: its block is cached no more.
LEMMA Taken ==
  ASSUME Cached, NEW k \in DOMAIN cache, cache' = RemoveAt(cache, k), UNCHANGED blockSize
  PROVE  Cached' /\ CachedBlocks' = CachedBlocks \ {cache[k].offset}
<1> DEFINE Entries == [offset : Blocks, blockSize : 1 .. PoolSize]
           At(i) == IF i < k THEN i ELSE i + 1
<1>1. cache \in Seq(Entries) /\ Len(cache) \in Nat /\ DOMAIN cache = 1 .. Len(cache) /\ k \in 1 .. Len(cache)
  BY DEF Cached
<1> HIDE DEF Entries
<1>2. /\ cache' \in Seq(Entries) /\ Len(cache') = Len(cache) - 1
      /\ \A i \in 1 .. Len(cache) - 1 : cache'[i] = IF i < k THEN cache[i] ELSE cache[i + 1]
  BY <1>1, CutOut, ZenonT(60)
<1>3. DOMAIN cache' = 1 .. Len(cache) - 1
  BY <1>1, <1>2, SMTT(30)
<1>4. \A i \in DOMAIN cache' : cache'[i] = cache[At(i)] /\ At(i) \in DOMAIN cache /\ At(i) # k
  BY <1>1, <1>2, <1>3
<1>5. \A i, j \in DOMAIN cache' : At(i) = At(j) => i = j
  BY <1>1, <1>3
<1>6. \A j \in DOMAIN cache \ {k} : \E i \in DOMAIN cache' : At(i) = j
  <2>1. ASSUME NEW j \in DOMAIN cache, j # k PROVE \E i \in DOMAIN cache' : At(i) = j
    <3>1. CASE j < k
      BY <1>1, <1>3, <2>1, <3>1
    <3>2. CASE j > k
      <4>1. j - 1 \in DOMAIN cache' /\ At(j - 1) = j
        BY <1>1, <1>3, <2>1, <3>2
      <4> QED
        BY <4>1
    <3> QED
      BY <1>1, <2>1, <3>1, <3>2
  <2> QED
    BY <2>1
<1> HIDE DEF At
<1>7. Cached'
  <2>1. Blocks' = Blocks
    BY DEF Blocks
  <2>2. cache' \in Seq([offset : Blocks', blockSize : 1 .. PoolSize]) /\ Len(cache') <= CacheSize
    BY <1>1, <1>2, <2>1, LimitsAssumption DEF Cached, Entries
  <2>3. \A i \in DOMAIN cache' : cache'[i].blockSize = blockSize'[cache'[i].offset]
    BY <1>4 DEF Cached
  <2>4. \A i, j \in DOMAIN cache' : cache'[i].offset = cache'[j].offset => i = j
    BY <1>4, <1>5 DEF Cached
  <2> QED
    BY <2>2, <2>3, <2>4 DEF Cached
<1>8. CachedBlocks' \subseteq CachedBlocks \ {cache[k].offset}
  BY <1>4 DEF CachedBlocks, Cached
<1>9. CachedBlocks \ {cache[k].offset} \subseteq CachedBlocks'
  <2>1. ASSUME NEW o \in CachedBlocks, o # cache[k].offset PROVE o \in CachedBlocks'
    <3>1. PICK j \in DOMAIN cache : o = cache[j].offset
      BY DEF CachedBlocks
    <3>2. PICK i \in DOMAIN cache' : At(i) = j
      BY <1>6, <2>1, <3>1
    <3> QED
      BY <1>4, <3>1, <3>2 DEF CachedBlocks
  <2> QED
    BY <2>1
<1> QED
  BY <1>7, <1>8, <1>9

\* A block is put on top.
LEMMA PutOnTop ==
  ASSUME Cached, NEW o \in Blocks, o \notin CachedBlocks, blockSize[o] \in 1 .. PoolSize,
         Len(cache) < CacheSize, UNCHANGED blockSize,
         cache' = Cons([offset |-> o, blockSize |-> blockSize[o]], cache)
  PROVE  Cached' /\ CachedBlocks' = CachedBlocks \cup {o}
<1> DEFINE Entries == [offset : Blocks, blockSize : 1 .. PoolSize]
<1>1. cache \in Seq(Entries) /\ Len(cache) \in Nat /\ DOMAIN cache = 1 .. Len(cache)
  BY DEF Cached
<1>2. PICK e \in Entries : e = [offset |-> o, blockSize |-> blockSize[o]]
  OBVIOUS
<1>3. e.offset = o /\ e.blockSize = blockSize[o]
  BY <1>2
<1> HIDE DEF Entries
<1>4. <<e>> \in Seq(Entries) /\ Len(<<e>>) = 1 /\ <<e>>[1] = e
  OBVIOUS
<1>5. /\ <<e>> \o cache \in Seq(Entries) /\ Len(<<e>> \o cache) = 1 + Len(cache)
      /\ \A i \in 1 .. 1 + Len(cache) : (<<e>> \o cache)[i] = IF i <= 1 THEN <<e>>[i] ELSE cache[i - 1]
  BY <1>1, <1>4, ConcatProperties
<1>6. cache' = <<e>> \o cache
  BY <1>2 DEF Cons
<1>7. /\ cache' \in Seq(Entries) /\ Len(cache') = Len(cache) + 1 /\ DOMAIN cache' = 1 .. Len(cache) + 1
      /\ \A i \in DOMAIN cache' : cache'[i] = IF i = 1 THEN e ELSE cache[i - 1]
  <2> DEFINE joined == <<e>> \o cache
  <2>1. joined \in Seq(Entries) /\ Len(joined) = 1 + Len(cache)
    BY <1>5
  <2>2. \A i \in 1 .. 1 + Len(cache) : joined[i] = IF i = 1 THEN e ELSE cache[i - 1]
    BY <1>1, <1>4, <1>5
  <2>3. cache' = joined
    BY <1>6
  <2> HIDE DEF joined
  <2>4. DOMAIN joined = 1 .. 1 + Len(cache) /\ 1 + Len(cache) = Len(cache) + 1
    BY <1>1, <2>1
  <2> QED
    BY <2>1, <2>2, <2>3, <2>4
<1>8. Cached'
  <2>1. Blocks' = Blocks
    BY DEF Blocks
  <2>2. cache' \in Seq([offset : Blocks', blockSize : 1 .. PoolSize]) /\ Len(cache') <= CacheSize
    BY <1>1, <1>7, <2>1, LimitsAssumption DEF Entries
  <2>3. ASSUME NEW i \in DOMAIN cache' PROVE cache'[i].blockSize = blockSize'[cache'[i].offset]
    <3>1. CASE i = 1
      BY <1>3, <1>7, <3>1
    <3>2. CASE i # 1
      <4>1. i - 1 \in DOMAIN cache /\ cache'[i] = cache[i - 1]
        BY <1>1, <1>7, <3>2
      <4> QED
        BY <4>1 DEF Cached
    <3> QED
      BY <3>1, <3>2
  <2>4. ASSUME NEW i \in DOMAIN cache', NEW j \in DOMAIN cache', cache'[i].offset = cache'[j].offset
        PROVE  i = j
    <3>1. i # 1 => i - 1 \in DOMAIN cache /\ cache'[i].offset \in CachedBlocks
                   /\ cache'[i].offset = cache[i - 1].offset
      BY <1>1, <1>7 DEF CachedBlocks
    <3>2. j # 1 => j - 1 \in DOMAIN cache /\ cache'[j].offset \in CachedBlocks
                   /\ cache'[j].offset = cache[j - 1].offset
      BY <1>1, <1>7 DEF CachedBlocks
    <3>3. (i = 1 => cache'[i].offset = o) /\ (j = 1 => cache'[j].offset = o)
      BY <1>3, <1>7
    <3>4. i # 1 /\ j # 1 => i - 1 = j - 1
      BY <2>4, <3>1, <3>2 DEF Cached
    <3> QED
      BY <1>1, <1>7, <2>4, <3>1, <3>2, <3>3, <3>4
  <2> QED
    BY <2>2, <2>3, <2>4 DEF Cached
<1>9. CachedBlocks' \subseteq CachedBlocks \cup {o}
  <2>1. ASSUME NEW i \in DOMAIN cache' PROVE cache'[i].offset \in CachedBlocks \cup {o}
    <3>1. CASE i = 1
      BY <1>3, <1>7, <3>1
    <3>2. CASE i # 1
      <4>1. i - 1 \in DOMAIN cache /\ cache'[i] = cache[i - 1]
        BY <1>1, <1>7, <3>2
      <4> QED
        BY <4>1 DEF CachedBlocks
    <3> QED
      BY <3>1, <3>2
  <2> QED
    BY <2>1 DEF CachedBlocks
<1>10. CachedBlocks \cup {o} \subseteq CachedBlocks'
  <2>1. 1 \in DOMAIN cache' /\ cache'[1].offset = o
    BY <1>1, <1>3, <1>7, SMTT(30)
  <2>2. ASSUME NEW j \in DOMAIN cache PROVE cache[j].offset \in CachedBlocks'
    <3>0. j \in 1 .. Len(cache) /\ j + 1 \in 1 .. Len(cache) + 1 /\ j + 1 # 1 /\ (j + 1) - 1 = j
      BY <1>1
    <3>1. j + 1 \in DOMAIN cache' /\ cache'[j + 1] = cache[j]
      BY <1>7, <3>0, ZenonT(60)
    <3> QED
      BY <3>1 DEF CachedBlocks
  <2> QED
    BY <2>1, <2>2 DEF CachedBlocks
<1> QED
  BY <1>8, <1>9, <1>10

-----------------------------------------------------------------------------
(* The records *)

LEMMA BooksHandOut ==
  ASSUME Books, Aligned, NEW o \in Blocks, o \notin DOMAIN held, NEW n, HandOut(o, n)
  PROVE  Books'
<1>1. PICK q \in Nat : o = q * MinBlock
  BY DEF Aligned
<1>2. o \div MinBlock = q /\ \A i \in Nat : i * MinBlock = o => i = q
  BY <1>1, Multiples
<1>3. DOMAIN held' = DOMAIN held \cup {o}
  BY DEF HandOut
<1>4. IsFiniteSet(DOMAIN held') /\ allocatedCount' = Cardinality(DOMAIN held')
  BY <1>3, FS_AddElement DEF Books, HandOut
<1>5. bitmap' = {i \in 0 .. (BitmapBlocks - 1) : i * MinBlock \in DOMAIN held'}
  <2>1. bitmap' = IF q < BitmapBlocks THEN bitmap \cup {q} ELSE bitmap
    BY <1>2 DEF HandOut, SetBit
  <2>2. \A i \in 0 .. (BitmapBlocks - 1) : i * MinBlock \in DOMAIN held' <=> i * MinBlock \in DOMAIN held \/ i = q
    BY <1>1, <1>2, <1>3
  <2>3. q \in 0 .. (BitmapBlocks - 1) <=> q < BitmapBlocks
    BY LimitsAssumption
  <2> QED
    BY <2>1, <2>2, <2>3 DEF Books
<1> QED
  BY <1>4, <1>5 DEF Books

LEMMA BooksGiveBack ==
  ASSUME Books, Aligned, NEW o \in Blocks, o \in DOMAIN held, ClearBit(o),
         allocatedCount' = allocatedCount - 1, held' = [x \in DOMAIN held \ {o} |-> held[x]]
  PROVE  Books'
<1>1. PICK q \in Nat : o = q * MinBlock
  BY DEF Aligned
<1>2. o \div MinBlock = q /\ \A i \in Nat : i * MinBlock = o => i = q
  BY <1>1, Multiples
<1>3. DOMAIN held' = DOMAIN held \ {o}
  OBVIOUS
<1>4. IsFiniteSet(DOMAIN held') /\ allocatedCount' = Cardinality(DOMAIN held')
  BY <1>3, FS_RemoveElement DEF Books
<1>5. bitmap' = {i \in 0 .. (BitmapBlocks - 1) : i * MinBlock \in DOMAIN held'}
  <2>1. bitmap' = bitmap \ {q}
    BY <1>2 DEF ClearBit
  <2>2. \A i \in 0 .. (BitmapBlocks - 1) : i * MinBlock \in DOMAIN held' <=> i * MinBlock \in DOMAIN held /\ i # q
    BY <1>1, <1>2, <1>3
  <2> QED
    BY <2>1, <2>2 DEF Books
<1> QED
  BY <1>4, <1>5 DEF Books
-----------------------------------------------------------------------------
(* The steps *)

LEMMA SameSizes ==
  ASSUME NEW n
  PROVE  Abstract!Needed(n) = Needed(n) /\ (Abstract!Splittable(n) <=> Splittable(n))
BY DEF Abstract!Needed, Needed, Abstract!Splittable, Splittable

\* What the invariant says of offsets and sizes
LEMMA BlockTypes ==
  ASSUME IInv
  PROVE  /\ Blocks \subseteq Nat /\ Null \notin Blocks /\ DOMAIN held \subseteq Blocks
         /\ \A o \in Blocks : o < PoolSize /\ blockSize[o] \in 1 .. PoolSize
         /\ blockSize = [o \in Blocks |-> blockSize[o]]
         /\ held \in [DOMAIN held -> Requests]
         /\ \A i \in DOMAIN cache : cache[i].offset \in Blocks
<1>1. /\ Blocks \subseteq 0 .. (PoolSize - 1) /\ DOMAIN held \subseteq Blocks
      /\ \A o \in Blocks : blockSize[o] \in 1 .. PoolSize
      /\ blockSize = [o \in Blocks |-> blockSize[o]] /\ held \in [DOMAIN held -> Requests]
  BY DEF IInv, Abstract!PoolInv, Abstract!TypeOK, Blocks
<1>2. \A i \in DOMAIN cache : cache[i].offset \in Blocks
  <2> DEFINE Entries == [offset : Blocks, blockSize : 1 .. PoolSize]
  <2>1. \A e \in Entries : e.offset \in Blocks
    OBVIOUS
  <2>2. cache \in Seq(Entries)
    BY DEF IInv, Cached
  <2> HIDE DEF Entries
  <2> QED
    BY <2>1, <2>2, ElementOfSeq
<1> QED
  BY <1>1, <1>2, SizesAssumption DEF Null

LEMMA RequestSizes ==
  ASSUME NEW n \in Requests
  PROVE  n \in Nat /\ Needed(n) \in Nat
<1>1. n \in Nat
  BY SizesAssumption
<1> QED
  BY <1>1, Rounding, SameSizes

\* From the cache, whole.
LEMMA CachedStep ==
  ASSUME IInv, NEW n \in Requests, AllocateCached(n)
  PROVE  Abstract!Next /\ IInv'
<1> DEFINE k == CacheHit(Needed(n))
<1>1. /\ k # 0 /\ HandOut(cache[k].offset, n) /\ cache' = RemoveAt(cache, k)
      /\ UNCHANGED <<blockSize, nextFree, freeHead>>
  BY DEF AllocateCached
<1>2. k \in DOMAIN cache /\ cache[k].blockSize >= Needed(n)
  BY <1>1, RequestSizes, Hit DEF IInv
<1> HIDE DEF k
<1>3. PICK o \in Blocks : o = cache[k].offset
  BY <1>2, BlockTypes
<1>4. o \in CachedBlocks /\ o \notin DOMAIN held /\ blockSize[o] >= Needed(n)
  BY <1>2, <1>3 DEF IInv, Cached, Lists, Placed, CachedBlocks
<1>5. Abstract!TakeWhole(o, n)
  BY <1>1, <1>3, <1>4, SameSizes DEF HandOut, Abstract!TakeWhole, Abstract!Hold, Blocks
<1>6. Abstract!PoolInv'
  BY <1>5, WholeInv DEF IInv, Blocks
<1>7. Aligned' /\ Linked'
  BY <1>1 DEF IInv, Aligned, Linked, Blocks
<1>8. Cached' /\ CachedBlocks' = CachedBlocks \ {o}
  BY <1>1, <1>2, <1>3, Taken DEF IInv
<1>9. Books'
  BY <1>1, <1>3, <1>4, BooksHandOut DEF IInv
<1>10. Lists'
  <2>1. PICK m, s : Listed(m, s) /\ Placed(m, s)
    BY DEF IInv, Lists
  <2>2. Listed(m, s)'
    BY <1>1, <2>1 DEF Listed, Blocks, MaxBlocks
  <2>3. DOMAIN held' = DOMAIN held \cup {o} /\ Blocks' = Blocks
    BY <1>1, <1>3 DEF HandOut, Blocks
  <2>4. Placed(m, s)'
    BY <1>4, <1>8, <2>1, <2>3 DEF Placed
  <2> QED
    BY <2>2, <2>4 DEF Lists
<1>11. Abstract!Next
  BY <1>3, <1>5 DEF Abstract!Next, Blocks
<1> QED
  BY <1>6, <1>7, <1>8, <1>9, <1>10, <1>11 DEF IInv

\* From the list, whole: a block that cannot be cut is unlinked.
LEMMA WholeStep ==
  ASSUME IInv, NEW n \in Requests, AllocateWhole(n)
  PROVE  Abstract!Next /\ IInv'
<1>1. PICK k \in 0 .. MaxBlocks :
        /\ FirstFit(Needed(n), k)
        /\ HandOut(Hop[k], n)
        /\ Relink(k, [nextFree EXCEPT ![Hop[k]] = Null], nextFree[Hop[k]])
  BY DEF AllocateWhole
<1>2. UNCHANGED <<blockSize, cache>>
  BY DEF AllocateWhole
<1>3. PICK m, s : Listed(m, s) /\ Placed(m, s)
  BY DEF IInv, Lists
<1>4. PICK i : i = k + 1
  OBVIOUS
<1>5. m \in Nat /\ k \in Nat /\ s \in [1 .. m -> Blocks]
  BY <1>3, BoundsNat DEF Listed
<1>6. /\ i \in 1 .. m /\ Hop[k] = s[i] /\ blockSize[s[i]] >= Needed(n)
      /\ k > 0 => Hop[k - 1] = s[k]
  BY <1>1, <1>3, <1>4, BlockTypes, Found
<1>7. PICK o \in Blocks : o = s[i]
  BY <1>5, <1>6
<1>8. o \notin DOMAIN held /\ o \notin CachedBlocks
  BY <1>3, <1>6, <1>7 DEF Placed
<1>9. Abstract!TakeWhole(o, n)
  BY <1>1, <1>2, <1>6, <1>7, <1>8, SameSizes DEF HandOut, Abstract!TakeWhole, Abstract!Hold, Blocks
<1>10. Abstract!PoolInv'
  BY <1>9, WholeInv DEF IInv, Blocks
<1>11. Blocks' = Blocks /\ CachedBlocks' = CachedBlocks /\ DOMAIN held' = DOMAIN held \cup {o}
  BY <1>1, <1>2, <1>6, <1>7 DEF Blocks, CachedBlocks, HandOut
<1>12. nextFree[o] \in Blocks \cup {Null} /\ nextFree \in [Blocks -> Blocks \cup {Null}]
  BY DEF IInv, Linked
<1>13. /\ freeHead' = IF i = 1 THEN nextFree[o] ELSE freeHead
       /\ nextFree' \in [Blocks -> Blocks \cup {Null}]
       /\ \A x \in Blocks : x # o => nextFree'[x] = IF i > 1 /\ x = s[i - 1] THEN nextFree[o] ELSE nextFree[x]
  <2> DEFINE links == [nextFree EXCEPT ![o] = Null]
  <2>1. links \in [Blocks -> Blocks \cup {Null}] /\ \A x \in Blocks : x # o => links[x] = nextFree[x]
    BY <1>12
  <2>2. Relink(k, links, nextFree[o])
    BY <1>1, <1>6, <1>7
  <2> HIDE DEF links
  <2>3. CASE k = 0
    BY <1>4, <2>1, <2>2, <2>3 DEF Relink
  <2>4. CASE k # 0
    <3>1. k > 0 /\ i > 1 /\ i - 1 = k /\ i # 1
      BY <1>4, <1>5, <2>4
    <3>2. s[k] \in Blocks /\ Hop[k - 1] = s[k]
      BY <1>5, <1>6, <3>1
    <3>3. nextFree' = [links EXCEPT ![s[k]] = nextFree[o]] /\ freeHead' = freeHead
      BY <2>2, <2>4, <3>2 DEF Relink
    <3> QED
      BY <1>12, <2>1, <3>1, <3>2, <3>3
  <2> QED
    BY <2>3, <2>4
<1>14. Aligned' /\ Linked'
  BY <1>11, <1>13 DEF IInv, Aligned, Linked
<1>15. Cached'
  BY <1>2 DEF IInv, Cached, Blocks
<1>16. Books'
  BY <1>1, <1>6, <1>7, <1>8, BooksHandOut DEF IInv
<1>17. Lists'
  <2>1. PICK t : t = [j \in 1 .. m - 1 |-> IF j < i THEN s[j] ELSE s[j + 1]]
    OBVIOUS
  <2>2. Listed(m - 1, t)'
    BY <1>3, <1>6, <1>7, <1>11, <1>13, <2>1, Unlinked
  <2>3. \A j \in 1 .. m - 1 : \E l \in 1 .. m : l # i /\ t[j] = s[l]
    <3>1. ASSUME NEW j \in 1 .. m - 1 PROVE \E l \in 1 .. m : l # i /\ t[j] = s[l]
      <4>1. CASE j < i
        BY <1>5, <1>6, <2>1, <4>1
      <4>2. CASE ~(j < i)
        <5>1. j + 1 \in 1 .. m /\ j + 1 # i /\ t[j] = s[j + 1]
          BY <1>5, <1>6, <2>1, <4>2
        <5> QED
          BY <5>1
      <4> QED
        BY <4>1, <4>2
    <3> QED
      BY <3>1
  <2>4. \A l \in 1 .. m : l # i => \E j \in 1 .. m - 1 : t[j] = s[l]
    <3>1. ASSUME NEW l \in 1 .. m, l # i PROVE \E j \in 1 .. m - 1 : t[j] = s[l]
      <4>1. CASE l < i
        BY <1>5, <1>6, <2>1, <4>1
      <4>2. CASE l > i
        <5>1. l - 1 \in 1 .. m - 1 /\ ~(l - 1 < i) /\ (l - 1) + 1 = l
          BY <1>5, <1>6, <4>2
        <5>2. t[l - 1] = s[l]
          BY <2>1, <5>1
        <5> QED
          BY <5>1, <5>2
      <4> QED
        BY <1>5, <1>6, <3>1, <4>1, <4>2
    <3> QED
      BY <3>1
  <2>5. \A l \in 1 .. m : s[l] = o => l = i
    BY <1>3, <1>6, <1>7 DEF Listed
  <2>6. Placed(m - 1, t)'
    <3>1. ASSUME NEW x \in Blocks PROVE x \in DOMAIN held' \/ x \in CachedBlocks' \/ \E j \in 1 .. m - 1 : t[j] = x
      BY <1>3, <1>7, <1>11, <2>4 DEF Placed
    <3>2. ASSUME NEW j \in 1 .. m - 1 PROVE t[j] \notin DOMAIN held' /\ t[j] \notin CachedBlocks'
      BY <1>3, <1>11, <2>3, <2>5 DEF Placed
    <3>3. \A x \in CachedBlocks' : x \notin DOMAIN held'
      BY <1>3, <1>8, <1>11 DEF Placed
    <3> QED
      BY <1>11, <3>1, <3>2, <3>3 DEF Placed
  <2> QED
    BY <2>2, <2>6 DEF Lists
<1>18. Abstract!Next
  BY <1>9 DEF Abstract!Next, Blocks
<1> QED
  BY <1>10, <1>14, <1>15, <1>16, <1>17, <1>18 DEF IInv

\* From the list, cut: the rest takes the place of the block in the list.
LEMMA SplitStep ==
  ASSUME IInv, NEW n \in Requests, AllocateSplit(n)
  PROVE  Abstract!Next /\ IInv'
<1> DEFINE Links(o, new) ==
             [x \in Blocks \cup {new} |-> IF x = o THEN Null ELSE IF x = new THEN nextFree[o] ELSE nextFree[x]]
           Sizes(o, need, new) ==
             [x \in Blocks \cup {new} |-> IF x = o THEN need
                                          ELSE IF x = new THEN blockSize[o] - need ELSE blockSize[x]]
<1>1. PICK need : need = Needed(n)
  OBVIOUS
<1>2. PICK k \in 0 .. MaxBlocks :
        /\ FirstFit(need, k) /\ Splittable(blockSize[Hop[k]] - need)
        /\ HandOut(Hop[k], n)
        /\ blockSize' = Sizes(Hop[k], need, Hop[k] + need)
        /\ Relink(k, Links(Hop[k], Hop[k] + need), Hop[k] + need)
  BY <1>1 DEF AllocateSplit
<1>3. UNCHANGED cache
  BY DEF AllocateSplit
<1>4. PICK m, s : Listed(m, s) /\ Placed(m, s)
  BY DEF IInv, Lists
<1>5. PICK i : i = k + 1
  OBVIOUS
<1>6. m \in Nat /\ k \in Nat /\ s \in [1 .. m -> Blocks]
  BY <1>4, BoundsNat DEF Listed
<1>7. /\ i \in 1 .. m /\ Hop[k] = s[i] /\ blockSize[s[i]] >= need
      /\ k > 0 => Hop[k - 1] = s[k]
  BY <1>2, <1>4, <1>5, BlockTypes, Found
<1>8. PICK o \in Blocks : o = s[i]
  BY <1>6, <1>7
<1>9. PICK new : new = o + need
  OBVIOUS
<1>10. /\ Splittable(blockSize[o] - need) /\ HandOut(o, n)
       /\ blockSize' = Sizes(o, need, new) /\ Relink(k, Links(o, new), new)
  BY <1>2, <1>7, <1>8, <1>9
<1>11. o \notin DOMAIN held /\ o \notin CachedBlocks
  BY <1>4, <1>7, <1>8 DEF Placed
<1>12. Abstract!TakeFront(o, n)
  <2>1. Abstract!Splittable(blockSize[o] - Abstract!Needed(n)) /\ Abstract!Needed(n) = need
    BY <1>1, <1>10, SameSizes
  <2>2. Abstract!Hold(o, n)
    BY <1>10 DEF HandOut, Abstract!Hold
  <2> QED
    BY <1>9, <1>10, <1>11, <2>1, <2>2 DEF Abstract!TakeFront, Blocks
<1>13. Abstract!PoolInv'
  BY <1>12, FrontInv DEF IInv, Blocks
<1>14. new \notin Blocks /\ new # o /\ new \in Nat
  BY <1>1, <1>9, <1>12, CutInside, SameSizes DEF IInv, Blocks
<1>15. /\ Blocks' = Blocks \cup {new} /\ CachedBlocks' = CachedBlocks
       /\ DOMAIN held' = DOMAIN held \cup {o}
       /\ \A x \in Blocks : x # o => blockSize'[x] = blockSize[x]
  BY <1>3, <1>10, <1>14 DEF Blocks, CachedBlocks, HandOut
<1>16. nextFree \in [Blocks -> Blocks \cup {Null}]
  BY DEF IInv, Linked
<1>17. /\ freeHead' = IF i = 1 THEN new ELSE freeHead
       /\ nextFree' \in [Blocks' -> Blocks' \cup {Null}]
       /\ nextFree'[new] = nextFree[o]
       /\ \A x \in Blocks : x # o => nextFree'[x] = IF i > 1 /\ x = s[i - 1] THEN new ELSE nextFree[x]
  <2> DEFINE links == Links(o, new)
  <2>1. /\ links \in [Blocks' -> Blocks' \cup {Null}] /\ links[new] = nextFree[o]
        /\ \A x \in Blocks : x # o => links[x] = nextFree[x]
    BY <1>14, <1>15, <1>16
  <2>2. Relink(k, links, new)
    BY <1>10
  <2> HIDE DEF links
  <2>3. CASE k = 0
    BY <1>5, <2>1, <2>2, <2>3 DEF Relink
  <2>4. CASE k # 0
    <3>1. k > 0 /\ i > 1 /\ i - 1 = k /\ i # 1
      BY <1>5, <1>6, <2>4
    <3>2. k \in 1 .. m /\ s[k] \in Blocks /\ Hop[k - 1] = s[k] /\ s[k] # new
      BY <1>6, <1>7, <1>14, <3>1
    <3>3. nextFree' = [links EXCEPT ![s[k]] = new] /\ freeHead' = freeHead
      BY <2>2, <2>4, <3>2 DEF Relink
    <3> QED
      BY <1>15, <2>1, <3>1, <3>2, <3>3
  <2> QED
    BY <2>3, <2>4
<1>18. Aligned'
  <2>1. PICK q \in Nat : o = q * MinBlock
    BY DEF IInv, Aligned
  <2>2. \E r \in Nat : new = r * MinBlock
    BY <1>1, <1>9, <2>1, CutAligned, RequestSizes
  <2> QED
    BY <1>15, <2>2 DEF IInv, Aligned
<1>19. Linked'
  BY <1>17 DEF Linked
<1>20. Cached'
  <2>1. \A j \in DOMAIN cache : cache[j].offset \in Blocks /\ cache[j].offset # o
    BY <1>11, BlockTypes DEF CachedBlocks
  <2>2. \A j \in DOMAIN cache : cache[j].blockSize = blockSize'[cache[j].offset]
    BY <1>15, <2>1 DEF IInv, Cached
  <2>3. cache \in Seq([offset : Blocks', blockSize : 1 .. PoolSize])
    <3>1. [offset : Blocks, blockSize : 1 .. PoolSize] \subseteq [offset : Blocks', blockSize : 1 .. PoolSize]
      BY <1>15
    <3>2. cache \in Seq([offset : Blocks, blockSize : 1 .. PoolSize])
      BY DEF IInv, Cached
    <3> HIDE DEF Blocks
    <3> QED
      BY <3>1, <3>2, SeqMonotonic
  <2> QED
    BY <1>3, <2>2, <2>3 DEF IInv, Cached
<1>21. Books'
  BY <1>10, <1>11, BooksHandOut DEF IInv
<1>22. Lists'
  <2>1. PICK t : t = [s EXCEPT ![i] = new]
    OBVIOUS
  <2>2. Listed(m, t)'
    BY <1>4, <1>7, <1>8, <1>14, <1>15, <1>17, <2>1, Replaced
  <2>3. \A j \in 1 .. m : t[j] = IF j = i THEN new ELSE s[j]
    BY <1>6, <2>1
  <2>4. \A j \in 1 .. m : s[j] = o => j = i
    BY <1>4, <1>7, <1>8 DEF Listed
  <2>5. new \notin DOMAIN held /\ new \notin CachedBlocks
    BY <1>14, BlockTypes DEF CachedBlocks
  <2>6. Placed(m, t)'
    <3>1. ASSUME NEW x \in Blocks' PROVE x \in DOMAIN held' \/ x \in CachedBlocks' \/ \E j \in 1 .. m : t[j] = x
      <4>1. CASE x = new
        BY <1>7, <2>3, <4>1
      <4>2. CASE x # new
        BY <1>4, <1>8, <1>15, <2>3, <3>1, <4>2 DEF Placed
      <4> QED
        BY <4>1, <4>2
    <3>2. ASSUME NEW j \in 1 .. m PROVE t[j] \notin DOMAIN held' /\ t[j] \notin CachedBlocks'
      BY <1>4, <1>14, <1>15, <2>3, <2>4, <2>5 DEF Placed
    <3>3. \A x \in CachedBlocks' : x \notin DOMAIN held'
      BY <1>4, <1>11, <1>15 DEF Placed
    <3> QED
      BY <3>1, <3>2, <3>3 DEF Placed
  <2> QED
    BY <2>2, <2>6 DEF Lists
<1>23. Abstract!Next
  BY <1>12 DEF Abstract!Next, Blocks
<1> QED
  BY <1>13, <1>18, <1>19, <1>20, <1>21, <1>22, <1>23 DEF IInv

\* Given back: to the cache, and to the list when that is full.
LEMMA DeallocateStep ==
  ASSUME IInv, NEW o \in DOMAIN held, Deallocate(o)
  PROVE  Abstract!Next /\ IInv'
<1>1. /\ ClearBit(o) /\ allocatedCount' = allocatedCount - 1
      /\ held' = [x \in DOMAIN held \ {o} |-> held[x]] /\ UNCHANGED blockSize
  BY DEF Deallocate
<1>2. /\ o \in Blocks /\ Blocks' = Blocks /\ DOMAIN held' = DOMAIN held \ {o}
      /\ blockSize[o] \in 1 .. PoolSize /\ nextFree \in [Blocks -> Blocks \cup {Null}]
  BY <1>1, BlockTypes DEF Blocks, IInv, Linked
<1>3. PICK m, s : Listed(m, s) /\ Placed(m, s)
  BY DEF IInv, Lists
<1>4. m \in Nat /\ s \in [1 .. m -> Blocks] /\ o \notin CachedBlocks /\ \A i \in 1 .. m : s[i] # o
  BY <1>3, BoundsNat DEF Listed, Placed
<1>5. Abstract!GiveBack(o)
  BY <1>1 DEF Abstract!GiveBack
<1>6. Abstract!PoolInv' /\ Abstract!Next
  BY <1>5, GiveBackInv DEF IInv, Abstract!Next
<1>7. Aligned' /\ Books'
  BY <1>1, <1>2, BooksGiveBack DEF IInv, Aligned
<1>8. CASE Len(cache) < CacheSize
  <2>1. /\ cache' = Cons([offset |-> o, blockSize |-> blockSize[o]], cache)
        /\ UNCHANGED <<nextFree, freeHead>>
    BY <1>8 DEF Deallocate
  <2>2. Cached' /\ CachedBlocks' = CachedBlocks \cup {o}
    BY <1>1, <1>2, <1>4, <1>8, <2>1, PutOnTop DEF IInv
  <2>3. Linked' /\ Listed(m, s)'
    BY <1>2, <1>3, <2>1 DEF Linked, Listed, MaxBlocks
  <2>4. Placed(m, s)'
    BY <1>2, <1>3, <1>4, <2>2 DEF Placed
  <2> QED
    BY <1>6, <1>7, <2>2, <2>3, <2>4 DEF IInv, Lists
<1>9. CASE ~(Len(cache) < CacheSize)
  <2>1. nextFree' = [nextFree EXCEPT ![o] = freeHead] /\ freeHead' = o /\ UNCHANGED cache
    BY <1>9 DEF Deallocate
  <2>2. freeHead \in Blocks \cup {Null}
    BY <1>3, <1>4 DEF Listed
  <2>3. Linked' /\ nextFree'[o] = freeHead /\ \A x \in Blocks : x # o => nextFree'[x] = nextFree[x]
    BY <1>2, <2>1, <2>2 DEF Linked
  <2>4. Cached' /\ CachedBlocks' = CachedBlocks
    BY <1>1, <2>1 DEF IInv, Cached, CachedBlocks, Blocks
  <2>5. PICK t : t = [j \in 1 .. m + 1 |-> IF j = 1 THEN o ELSE s[j - 1]]
    OBVIOUS
  <2>6. /\ t \in [1 .. m + 1 -> Blocks] /\ m + 1 \in Nat
        /\ \A j \in 1 .. m + 1 : t[j] = IF j = 1 THEN o ELSE s[j - 1]
    BY <1>2, <1>4, <2>5
  <2>7. \A j \in 1 .. m + 1 : j # 1 => j - 1 \in 1 .. m
    BY <1>4
  <2>8. \A j, l \in 1 .. m + 1 : t[j] = t[l] => j = l
    <3>1. ASSUME NEW j \in 1 .. m + 1, NEW l \in 1 .. m + 1, t[j] = t[l] PROVE j = l
      <4>1. (j = 1 <=> l = 1) /\ (j # 1 => s[j - 1] = s[l - 1])
        BY <1>4, <2>6, <2>7, <3>1
      <4>2. j # 1 => j - 1 = l - 1
        BY <1>3, <2>7, <4>1 DEF Listed
      <4> QED
        BY <1>4, <4>1, <4>2
    <3> QED
      BY <3>1
  <2>9. m + 1 \in 0 .. MaxBlocks
    BY <2>6, <2>8, ShortList DEF IInv, Abstract!PoolInv
  <2>10. Listed(m + 1, t)'
    BY <1>2, <1>3, <1>4, <2>1, <2>3, <2>5, <2>9, Prepended
  <2>11. Placed(m + 1, t)'
    <3>1. ASSUME NEW x \in Blocks' PROVE x \in DOMAIN held' \/ x \in CachedBlocks' \/ \E j \in 1 .. m + 1 : t[j] = x
      <4>1. CASE x = o
        BY <1>4, <2>6, <4>1
      <4>2. CASE x # o /\ \E j \in 1 .. m : s[j] = x
        <5>1. PICK j \in 1 .. m : s[j] = x
          BY <4>2
        <5>2. j + 1 \in 1 .. m + 1 /\ t[j + 1] = x
          BY <1>4, <2>6, <5>1
        <5> QED
          BY <5>2
      <4>3. CASE x # o /\ ~(\E j \in 1 .. m : s[j] = x)
        BY <1>2, <1>3, <2>4, <3>1, <4>3 DEF Placed
      <4> QED
        BY <4>1, <4>2, <4>3
    <3>2. ASSUME NEW j \in 1 .. m + 1 PROVE t[j] \notin DOMAIN held' /\ t[j] \notin CachedBlocks'
      BY <1>2, <1>3, <1>4, <2>4, <2>6, <2>7 DEF Placed
    <3>3. \A x \in CachedBlocks' : x \notin DOMAIN held'
      BY <1>2, <1>3, <2>4 DEF Placed
    <3> QED
      BY <3>1, <3>2, <3>3 DEF Placed
  <2> QED
    BY <1>6, <1>7, <2>3, <2>4, <2>10, <2>11 DEF IInv, Lists
<1> QED
  BY <1>8, <1>9

LEMMA InitInv == Init => Abstract!Init /\ IInv
<1> SUFFICES ASSUME Init PROVE Abstract!Init /\ IInv
  OBVIOUS
<1>1. Abstract!Init /\ Abstract!PoolInv
  BY AbstractInit DEF Init, Abstract!Init
<1>2. Blocks = {0} /\ cache = <<>> /\ DOMAIN held = {} /\ bitmap = {} /\ allocatedCount = 0
      /\ freeHead = 0 /\ nextFree = [o \in {0} |-> Null]
  BY DEF Init, Blocks
<1>3. Aligned
  BY <1>2, SizesAssumption DEF Aligned
<1>4. Linked
  BY <1>2 DEF Linked
<1>5. Cached /\ CachedBlocks = {}
  <2>1. DOMAIN cache = {} /\ Len(cache) = 0 /\ cache \in Seq([offset : Blocks, blockSize : 1 .. PoolSize])
    BY <1>2, EmptySeq
  <2> QED
    BY <2>1, LimitsAssumption DEF Cached, CachedBlocks
<1>6. Books
  BY <1>2, FS_EmptySet DEF Books
<1>7. Lists
  <2>1. PICK s : s = [i \in 1 .. 1 |-> 0]
    OBVIOUS
  <2>2. 1 \in 0 .. MaxBlocks
    BY SizesAssumption DEF MaxBlocks
  <2>3. Listed(1, s)
    BY <1>2, <2>1, <2>2 DEF Listed
  <2>4. Placed(1, s)
    BY <1>2, <1>5, <2>1 DEF Placed
  <2> QED
    BY <2>3, <2>4 DEF Lists
<1> QED
  BY <1>1, <1>3, <1>4, <1>5, <1>6, <1>7 DEF IInv

LEMMA Step ==
  ASSUME IInv, [Next]_vars
  PROVE  [Abstract!Next]_(Abstract!vars) /\ IInv'
<1>1. CASE Next
  <2>1. CASE \E n \in Requests : AllocateCached(n) \/ AllocateSplit(n) \/ AllocateWhole(n)
    BY <2>1, CachedStep, SplitStep, WholeStep
  <2>2. CASE \E o \in DOMAIN held : Deallocate(o)
    BY <2>2, DeallocateStep
  <2> QED
    BY <1>1, <2>1, <2>2 DEF Next
<1>2. CASE UNCHANGED vars
  <2>1. UNCHANGED <<Abstract!vars, blockSize, nextFree, freeHead, cache, bitmap, allocatedCount, held>>
    BY <1>2 DEF vars, Abstract!vars
  <2>2. Abstract!PoolInv'
    BY <2>1 DEF IInv, Abstract!PoolInv, Abstract!TypeOK, Abstract!Disjoint, Abstract!Covered,
                Abstract!LargeEnough
  <2>3. Aligned' /\ Linked' /\ Cached' /\ Books'
    BY <2>1 DEF IInv, Aligned, Linked, Cached, Books, Blocks
  <2>4. Lists'
    <3>1. PICK n, s : Listed(n, s) /\ Placed(n, s)
      BY DEF IInv, Lists
    <3>2. Listed(n, s)'
      BY <2>1, <3>1 DEF Listed, Blocks, MaxBlocks
    <3>3. Placed(n, s)'
      BY <2>1, <3>1 DEF Placed, Blocks, CachedBlocks
    <3> QED
      BY <3>2, <3>3 DEF Lists
  <2> QED
    BY <2>1, <2>2, <2>3, <2>4 DEF IInv
<1> QED
  BY <1>1, <1>2

LEMMA Invariance == Spec => []IInv
BY InitInv, Step, PTL DEF Spec

-----------------------------------------------------------------------------
(* What the walk down the list meets *)

LEMMA FreeBlocksListed ==
  ASSUME NEW n, NEW s, Listed(n, s), Blocks \subseteq Nat
  PROVE  /\ \A i \in 1 .. n : s[i] \in FreeBlocks
         /\ \A o \in FreeBlocks : \E i \in 1 .. n : s[i] = o
         /\ Hop[MaxBlocks] = Null
<1>1. MaxBlocks \in Nat /\ n \in 0 .. MaxBlocks /\ s \in [1 .. n -> Blocks]
  BY BoundsNat DEF Listed
<1>2. \A k \in 0 .. MaxBlocks : Hop[k] = IF k < n THEN s[k + 1] ELSE Null
  BY Walk
<1>3. ASSUME NEW i \in 1 .. n PROVE s[i] \in FreeBlocks
  <2>1. i - 1 \in 0 .. MaxBlocks /\ i - 1 < n /\ (i - 1) + 1 = i
    BY <1>1
  <2>2. Hop[i - 1] = s[i] /\ s[i] # Null
    BY <1>1, <1>2, <2>1 DEF Null
  <2> QED
    BY <2>1, <2>2 DEF FreeBlocks
<1>4. ASSUME NEW o \in FreeBlocks PROVE \E i \in 1 .. n : s[i] = o
  <2>1. PICK k \in 0 .. MaxBlocks : o = Hop[k] /\ o # Null
    BY DEF FreeBlocks
  <2>2. k < n /\ o = s[k + 1] /\ k + 1 \in 1 .. n
    BY <1>1, <1>2, <2>1
  <2> QED
    BY <2>2
<1>5. MaxBlocks \in 0 .. MaxBlocks /\ ~(MaxBlocks < n)
  BY <1>1
<1> QED
  BY <1>2, <1>3, <1>4, <1>5

LEMMA Counted ==
  ASSUME NEW S, NEW n \in Nat, NEW f \in [1 .. n -> S],
         \A o \in S : \E i \in 1 .. n : f[i] = o,
         \A i, j \in 1 .. n : f[i] = f[j] => i = j
  PROVE  IsFiniteSet(S) /\ Cardinality(S) = n
<1>1. f \in Surjection(1 .. n, S) /\ f \in Injection(1 .. n, S)
  BY DEF Surjection, Injection, IsInjective
<1>2. IsFiniteSet(1 .. n) /\ Cardinality(1 .. n) = n
  BY FS_Interval
<1> QED
  BY <1>1, <1>2, FS_Surjection

LEMMA Apart ==
  ASSUME NEW S, NEW T, IsFiniteSet(S), IsFiniteSet(T), S \cap T = {}
  PROVE  IsFiniteSet(S \cup T) /\ Cardinality(S \cup T) = Cardinality(S) + Cardinality(T)
<1>1. /\ IsFiniteSet(S \cup T)
      /\ Cardinality(S \cup T) = Cardinality(S) + Cardinality(T) - Cardinality(S \cap T)
  BY FS_Union
<1>2. Cardinality(S \cap T) = 0 /\ Cardinality(S) \in Nat /\ Cardinality(T) \in Nat
  BY FS_EmptySet, FS_CardinalityType
<1> QED
  BY <1>1, <1>2

LEMMA PlacesOfBlocks == IInv => EveryBlockInOnePlace
<1> SUFFICES ASSUME IInv PROVE EveryBlockInOnePlace
  OBVIOUS
<1>1. PICK n, s : Listed(n, s) /\ Placed(n, s)
  BY DEF IInv, Lists
<1>2. Blocks \subseteq Nat /\ DOMAIN held \subseteq Blocks /\ CachedBlocks \subseteq Blocks
  BY BlockTypes DEF CachedBlocks
<1>3. n \in Nat /\ s \in [1 .. n -> Blocks] /\ \A i, j \in 1 .. n : s[i] = s[j] => i = j
  BY <1>1, BoundsNat DEF Listed
<1>4. /\ \A i \in 1 .. n : s[i] \in FreeBlocks
      /\ \A o \in FreeBlocks : \E i \in 1 .. n : s[i] = o
      /\ Hop[MaxBlocks] = Null
  BY <1>1, <1>2, FreeBlocksListed
<1>5. Blocks = (FreeBlocks \cup CachedBlocks) \cup DOMAIN held
  <2>1. FreeBlocks \subseteq Blocks
    BY <1>3, <1>4
  <2>2. \A o \in Blocks : o \in FreeBlocks \/ o \in CachedBlocks \/ o \in DOMAIN held
    BY <1>1, <1>4 DEF Placed
  <2> QED
    BY <1>2, <2>1, <2>2
<1>6. FreeBlocks \cap CachedBlocks = {} /\ (FreeBlocks \cup CachedBlocks) \cap DOMAIN held = {}
  BY <1>1, <1>4 DEF Placed
<1>7. IsFiniteSet(FreeBlocks) /\ Cardinality(FreeBlocks) = n
  <2>1. s \in [1 .. n -> FreeBlocks]
    BY <1>3, <1>4
  <2> QED
    BY <1>3, <1>4, <2>1, Counted
<1>8. IsFiniteSet(CachedBlocks) /\ Cardinality(CachedBlocks) = Len(cache) /\ Len(cache) \in Nat
  <2>1. Len(cache) \in Nat /\ DOMAIN cache = 1 .. Len(cache)
    BY DEF IInv, Cached
  <2>2. PICK f : f = [i \in 1 .. Len(cache) |-> cache[i].offset]
    OBVIOUS
  <2>3. f \in [1 .. Len(cache) -> CachedBlocks] /\ \A o \in CachedBlocks : \E i \in 1 .. Len(cache) : f[i] = o
    BY <2>1, <2>2 DEF CachedBlocks
  <2>4. \A i, j \in 1 .. Len(cache) : f[i] = f[j] => i = j
    BY <2>1, <2>2 DEF IInv, Cached
  <2> QED
    BY <2>1, <2>3, <2>4, Counted
<1>9. IsFiniteSet(DOMAIN held) /\ Cardinality(DOMAIN held) \in Nat
  BY FS_CardinalityType DEF IInv, Books
<1>10. /\ IsFiniteSet(FreeBlocks \cup CachedBlocks)
       /\ Cardinality(FreeBlocks \cup CachedBlocks) = n + Len(cache)
  BY <1>6, <1>7, <1>8, Apart
<1>11. Cardinality(Blocks) = n + Len(cache) + Cardinality(DOMAIN held)
  <2>1. Cardinality(Blocks) = Cardinality(FreeBlocks \cup CachedBlocks) + Cardinality(DOMAIN held)
    BY <1>5, <1>6, <1>9, <1>10, Apart
  <2> QED
    BY <1>10, <2>1
<1> QED
  BY <1>4, <1>5, <1>7, <1>11 DEF EveryBlockInOnePlace

LEMMA BooksOfPool == IInv => BooksAgree
<1> SUFFICES ASSUME IInv PROVE BooksAgree
  OBVIOUS
<1>1. ASSUME NEW o \in DOMAIN held PROVE ~GetRefused(o)
  <2>1. o \in Blocks
    BY BlockTypes
  <2>2. PICK q \in Nat : o = q * MinBlock
    BY <2>1 DEF IInv, Aligned
  <2>3. o \div MinBlock = q
    BY <2>2, Multiples
  <2>4. q < BitmapBlocks => q \in bitmap
    BY <2>2, LimitsAssumption DEF IInv, Books
  <2> QED
    BY <2>1, <2>3, <2>4 DEF GetRefused
<1> QED
  BY <1>1 DEF BooksAgree, IInv, Books, Cached

\* If no listed block fits then none is the first that does.
LEMMA NothingListedFits ==
  ASSUME NEW n, NEW s, Listed(n, s), Blocks \subseteq Nat, NEW need \in Nat,
         \A o \in Blocks : blockSize[o] \in Nat,
         \A k \in 0 .. MaxBlocks : ~FirstFit(need, k)
  PROVE  \A i \in 1 .. n : blockSize[s[i]] < need
<1>1. MaxBlocks \in Nat /\ n \in 0 .. MaxBlocks /\ s \in [1 .. n -> Blocks]
  BY BoundsNat DEF Listed
<1>2. \A k \in 0 .. MaxBlocks : Hop[k] = IF k < n THEN s[k + 1] ELSE Null
  BY Walk
<1> DEFINE Fit == {i \in 1 .. n : blockSize[s[i]] >= need}
           m == Min(Fit)
<1>0. \A i \in 1 .. n : s[i] \in Blocks /\ blockSize[s[i]] \in Nat
  BY <1>1
<1>3. SUFFICES ASSUME Fit # {} PROVE FALSE
  <2>1. ASSUME Fit = {}, NEW i \in 1 .. n PROVE blockSize[s[i]] < need
    <3>1. ~(blockSize[s[i]] >= need)
      BY <2>1
    <3> QED
      BY <1>0, <3>1
  <2> QED
    BY <2>1
<1>4. m \in Fit /\ \A i \in Fit : m <= i
  <2>1. Fit \subseteq Nat
    BY <1>1
  <2> HIDE DEF Fit
  <2> QED
    BY <1>3, <2>1, Least
<1> HIDE DEF m
<1>5. m \in 1 .. n /\ blockSize[s[m]] >= need /\ m - 1 \in 0 .. MaxBlocks /\ m - 1 < n /\ (m - 1) + 1 = m
  BY <1>1, <1>4
<1>6. Hop[m - 1] = s[m] /\ s[m] # Null
  BY <1>1, <1>2, <1>5 DEF Null
<1>7. ASSUME NEW j \in 0 .. (m - 1) - 1 PROVE blockSize[Hop[j]] < need
  <2>1. j \in 0 .. MaxBlocks /\ j < n /\ j + 1 \in 1 .. n /\ ~(m <= j + 1)
    BY <1>1, <1>5
  <2>2. Hop[j] = s[j + 1] /\ s[j + 1] \in Blocks
    BY <1>1, <1>2, <2>1
  <2>3. ~(blockSize[s[j + 1]] >= need)
    BY <1>4, <2>1
  <2> QED
    BY <1>0, <2>1, <2>2, <2>3
<1>8. FirstFit(need, m - 1)
  BY <1>5, <1>6, <1>7 DEF FirstFit
<1> QED
  BY <1>5, <1>8

LEMMA NothingFits == IInv => ExhaustedOnlyIfNothingFits
<1> SUFFICES ASSUME IInv, NEW n \in Requests, CacheHit(Needed(n)) = 0,
                    \A k \in 0 .. MaxBlocks : ~FirstFit(Needed(n), k),
                    NEW o \in Blocks, o \notin DOMAIN held
             PROVE  blockSize[o] < Needed(n)
  BY DEF ExhaustedOnlyIfNothingFits
<1>1. PICK m, s : Listed(m, s) /\ Placed(m, s)
  BY DEF IInv, Lists
<1>2. Needed(n) \in Nat
  BY RequestSizes
<1>3. CASE o \in CachedBlocks
  <2>1. PICK i \in DOMAIN cache : cache[i].offset = o
    BY <1>3 DEF CachedBlocks
  <2>2. cache[i].blockSize < Needed(n)
    BY <1>2, Hit DEF IInv
  <2> QED
    BY <2>1, <2>2 DEF IInv, Cached
<1>4. CASE \E i \in 1 .. m : s[i] = o
  <2>1. Blocks \subseteq Nat /\ \A x \in Blocks : blockSize[x] \in Nat
    BY BlockTypes
  <2> QED
    BY <1>1, <1>2, <1>4, <2>1, NothingListedFits
<1> QED
  BY <1>1, <1>3, <1>4 DEF Placed

LEMMA Types == IInv => TypeOK
<1> SUFFICES ASSUME IInv PROVE TypeOK
  OBVIOUS
<1>1. ASSUME NEW o \in Blocks PROVE o \in 0 .. (PoolSize - 1) /\ o % MinBlock = 0 /\ blockSize[o] \in 1 .. PoolSize
  <2>1. PICK q \in Nat : o = q * MinBlock
    BY DEF IInv, Aligned
  <2>2. o % MinBlock = 0
    BY <2>1, Multiples
  <2> QED
    BY <2>2 DEF IInv, Abstract!PoolInv, Abstract!TypeOK, Blocks
<1>2. freeHead \in Blocks \cup {Null}
  <2>1. PICK n, s : Listed(n, s)
    BY DEF IInv, Lists
  <2> QED
    BY <2>1, BoundsNat DEF Listed
<1>3. bitmap \subseteq 0 .. (BitmapBlocks - 1)
  BY DEF IInv, Books
<1> QED
  BY <1>1, <1>2, <1>3, BlockTypes DEF TypeOK, IInv, Linked, Cached

-----------------------------------------------------------------------------
\* The variables keep their types: blocks begin at multiples of the minimum
\* block, links lead to blocks (the structures of lines 60-130).
THEOREM TypeCorrect == Spec => []TypeOK
BY Types, Invariance, PTL

\* A block is held, cached or listed, in one place only, and the list ends,
\* whatever the order in which blocks are cut, cached and given back.
THEOREM OnePlace == Spec => []EveryBlockInOnePlace
BY PlacesOfBlocks, Invariance, PTL

\* The count and the bitmap say which blocks are held, and get() refuses none
\* of them.
THEOREM Records == Spec => []BooksAgree
BY BooksOfPool, Invariance, PTL

\* allocate() fails only if every block that nobody holds is too small: what
\* is cached, and what lies anywhere on the list, is found.
THEOREM Exhausted == Spec => []ExhaustedOnlyIfNothingFits
BY NothingFits, Invariance, PTL

\* The pool with its list, its cache and its bitmap implements the allocator
\* that only knows blocks and holders: held blocks do not overlap.
THEOREM Implements == Spec => ImplementsAllocator
<1>1. Init => Abstract!Init
  BY InitInv
<1>2. IInv /\ [Next]_vars => [Abstract!Next]_(Abstract!vars)
  BY Step
<1> QED
  BY <1>1, <1>2, Invariance, PTL DEF Spec, ImplementsAllocator, Abstract!Spec
=============================================================================
