----------------------------- MODULE MemoryPool -----------------------------
(***************************************************************************)
(* ipc::SharedMemoryPool (source/shared_memory_pool.cpp): blocks with a    *)
(* header in shared memory, a linked free list, a small LIFO cache of the  *)
(* blocks freed last, and a bitmap of what is allocated.  A call is one    *)
(* step: LifoCache shows what becomes of calls that overlap.               *)
(***************************************************************************)
EXTENDS PoolSizes, Sequences, FiniteSets, SequencesExt

CONSTANTS
  CacheSize,     \* SPSC_LIFO_CACHE_SIZE
  BitmapBlocks   \* MAX_POOL_BLOCKS: bits of the bitmap

ASSUME LimitsAssumption == CacheSize \in Nat /\ BitmapBlocks \in Nat

VARIABLES
  blockSize,     \* offset of each block header |-> its blockSize
  nextFree,      \* offset of each block header |-> its nextFree
  freeHead,      \* first block of the free list
  cache,         \* the valid entries of spscCache, top first
  bitmap,        \* indices of the bits that are set
  allocatedCount,
  held           \* what callers hold: offset |-> the size asked for

vars == <<blockSize, nextFree, freeHead, cache, bitmap, allocatedCount, held>>

-----------------------------------------------------------------------------
Blocks == DOMAIN blockSize
Null == -1                          \* UINT32_MAX
MaxBlocks == PoolSize \div MinBlock + 1

\* The block k hops down the free list.
Hop[k \in 0..MaxBlocks] ==
  IF k = 0 THEN freeHead ELSE IF Hop[k - 1] = Null THEN Null ELSE nextFree[Hop[k - 1]]

FreeBlocks == {Hop[k] : k \in 0..MaxBlocks} \ {Null}
CachedBlocks == {cache[i].offset : i \in DOMAIN cache}

FirstFit(need, k) ==
  /\ Hop[k] # Null
  /\ blockSize[Hop[k]] >= need
  /\ \A j \in 0..(k - 1) : blockSize[Hop[j]] < need

\* Place of the topmost cache entry that fits, 0 if none does.
CacheHitTop(need) == IF cache = <<>> THEN 0 ELSE 1    \* mutant: the size is not compared
CacheHit(need) == SelectInSeq(cache, LAMBDA e : e.blockSize >= need)

SetBit(o) ==
  bitmap' = IF o \div MinBlock < BitmapBlocks THEN bitmap \cup {o \div MinBlock} ELSE bitmap
ClearBitNever(o) == UNCHANGED bitmap    \* mutant
ClearBit(o) == bitmap' = bitmap \ {o \div MinBlock}

\* get(o, n): whether the view is empty.
GetRefused(o) ==
  \/ o \notin Blocks
  \/ o \div MinBlock < BitmapBlocks /\ o \div MinBlock \notin bitmap

-----------------------------------------------------------------------------
Init ==
  /\ blockSize = [o \in {0} |-> PoolSize]
  /\ nextFree = [o \in {0} |-> Null]
  /\ freeHead = 0
  /\ cache = <<>>
  /\ bitmap = {}
  /\ allocatedCount = 0
  /\ held = [o \in {} |-> 0]

HandOut(o, n) ==
  /\ SetBit(o)
  /\ allocatedCount' = allocatedCount + 1
  /\ held' = [x \in DOMAIN held \cup {o} |-> IF x = o THEN n ELSE held[x]]

\* allocate(), fast path.
AllocateCached(n) ==
  LET i == CacheHit(Needed(n)) IN
  /\ Needed(n) <= PoolSize
  /\ i # 0
  /\ HandOut(cache[i].offset, n)
  /\ cache' = RemoveAt(cache, i)
  /\ UNCHANGED <<blockSize, nextFree, freeHead>>

\* Mutant: the predecessor of a block that is cut is not relinked.
RelinkHeadOnly(k, links, to) ==
  /\ freeHead' = to
  /\ nextFree' = links

\* The k-th link of the free list is set to "to"; links are the other nexts.
Relink(k, links, to) ==
  IF k = 0
  THEN freeHead' = to /\ nextFree' = links
  ELSE nextFree' = [links EXCEPT ![Hop[k - 1]] = to] /\ UNCHANGED freeHead

\* allocate(), slow path: the first block that fits is cut in two.
AllocateSplit(n) ==
  LET need == Needed(n) IN
  /\ need <= PoolSize
  /\ CacheHit(need) = 0
  /\ \E k \in 0..MaxBlocks :
       LET o == Hop[k]  rest == blockSize[o] - need  new == o + need IN
       /\ FirstFit(need, k)
       /\ Splittable(rest)
       /\ HandOut(o, n)
       /\ blockSize' = [x \in Blocks \cup {new} |->
                          IF x = o THEN need ELSE IF x = new THEN rest ELSE blockSize[x]]
       /\ Relink(k, [x \in Blocks \cup {new} |->
                       IF x = o THEN Null ELSE IF x = new THEN nextFree[o] ELSE nextFree[x]], new)
  /\ UNCHANGED cache

\* allocate(), slow path: the first block that fits is taken as it is.
AllocateWhole(n) ==
  LET need == Needed(n) IN
  /\ need <= PoolSize
  /\ CacheHit(need) = 0
  /\ \E k \in 0..MaxBlocks :
       LET o == Hop[k] IN
       /\ FirstFit(need, k)
       /\ ~Splittable(blockSize[o] - need)
       /\ HandOut(o, n)
       /\ Relink(k, [nextFree EXCEPT ![o] = Null], nextFree[o])
  /\ UNCHANGED <<blockSize, cache>>

\* Mutant: a block freed while the cache is full is not put anywhere.
DeallocateDropping(o) ==
  /\ o \in DOMAIN held
  /\ ClearBit(o)
  /\ cache' = IF Len(cache) < CacheSize
              THEN Cons([offset |-> o, blockSize |-> blockSize[o]], cache) ELSE cache
  /\ allocatedCount' = allocatedCount - 1
  /\ held' = [x \in DOMAIN held \ {o} |-> held[x]]
  /\ UNCHANGED <<blockSize, nextFree, freeHead>>

\* deallocate(), of a block its caller holds.
Deallocate(o) ==
  /\ o \in DOMAIN held
  /\ ClearBit(o)
  /\ IF Len(cache) < CacheSize
     THEN /\ cache' = Cons([offset |-> o, blockSize |-> blockSize[o]], cache)
          /\ UNCHANGED <<nextFree, freeHead>>
     ELSE /\ nextFree' = [nextFree EXCEPT ![o] = freeHead]
          /\ freeHead' = o
          /\ UNCHANGED cache
  /\ allocatedCount' = allocatedCount - 1
  /\ held' = [x \in DOMAIN held \ {o} |-> held[x]]
  /\ UNCHANGED blockSize

Next ==
  \/ \E n \in Requests : AllocateCached(n) \/ AllocateSplit(n) \/ AllocateWhole(n)
  \/ \E o \in DOMAIN held : Deallocate(o)

Spec == Init /\ [][Next]_vars

-----------------------------------------------------------------------------
(* Properties. *)

TypeOK ==
  /\ \A o \in Blocks : o \in 0..(PoolSize - 1) /\ o % MinBlock = 0 /\ blockSize[o] \in 1..PoolSize
  /\ nextFree \in [Blocks -> Blocks \cup {Null}]
  /\ freeHead \in Blocks \cup {Null}
  /\ cache \in Seq([offset : Blocks, blockSize : 1..PoolSize]) /\ Len(cache) <= CacheSize
  /\ bitmap \subseteq 0..(BitmapBlocks - 1)
  /\ held \in [DOMAIN held -> Requests] /\ DOMAIN held \subseteq Blocks

\* A block is held, or cached, or on the free list, and in one place only; the
\* list ends; the count and the bitmap say what is held (lines 330-475).
EveryBlockInOnePlace ==
  /\ Blocks = FreeBlocks \cup CachedBlocks \cup DOMAIN held
  /\ Cardinality(FreeBlocks) + Len(cache) + Cardinality(DOMAIN held) = Cardinality(Blocks)
  /\ Hop[MaxBlocks] = Null

\* The two records of what is allocated agree with what callers hold.
BooksAgree ==
  /\ allocatedCount = Cardinality(DOMAIN held)
  /\ bitmap = {i \in 0..(BitmapBlocks - 1) : i * MinBlock \in DOMAIN held}
  /\ \A o \in DOMAIN held : ~GetRefused(o)
  /\ \A i \in DOMAIN cache : cache[i].blockSize = blockSize[cache[i].offset]

\* allocate() fails only if no block that nobody holds fits: what was freed is
\* available at once, be it in the cache or on the list (header, line 95).
ExhaustedOnlyIfNothingFits ==
  \A n \in Requests :
    CacheHit(Needed(n)) = 0 /\ (\A k \in 0..MaxBlocks : ~FirstFit(Needed(n), k)) =>
      \A o \in Blocks \ DOMAIN held : blockSize[o] < Needed(n)

\* The pool is an allocator: held blocks never overlap and are large enough.
Abstract == INSTANCE Allocator WITH size <- blockSize

ImplementsAllocator == Abstract!Spec

=============================================================================
