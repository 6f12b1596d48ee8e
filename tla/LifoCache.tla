------------------------------ MODULE LifoCache ------------------------------
(***************************************************************************)
(* SPSCLifoCache (source/shared_memory_pool.cpp 66-145): the stack of the  *)
(* blocks freed last.  The consumer pushes, the producer pops, each in a   *)
(* sequence of loads and stores on the shared entries and the count.       *)
(* MemoryPool takes each of the two as one step.                           *)
(***************************************************************************)
EXTENDS Integers

CONSTANTS
  Block,       \* the blocks there are
  SizeOf,      \* the blockSize of each
  CacheSize    \* SPSC_LIFO_CACHE_SIZE

VARIABLES
  count,       \* the atomic
  entries,     \* the array; None is offset UINT32_MAX
  cpc, ccount, ci, cblock,  \* the consumer: where in push, currentCount, i, offset
  ppc, pcount, pi, pmin, pblock,  \* the producer: where in pop, currentCount, i or j, minSize, offset
  live         \* the blocks the producer holds, and the consumer may free

shared   == <<count, entries>>
consumer == <<cpc, ccount, ci, cblock>>
producer == <<ppc, pcount, pi, pmin, pblock>>
vars     == <<shared, consumer, producer, live>>

None == "none"
Slot == 0..(CacheSize - 1)
Sizes == {SizeOf[b] : b \in Block}

-----------------------------------------------------------------------------
Init ==
  /\ count = 0
  /\ entries = [i \in Slot |-> None]
  /\ cpc = "idle" /\ ccount = 0 /\ ci = 0 /\ cblock = None
  /\ ppc = "idle" /\ pcount = 0 /\ pi = 0 /\ pmin = 0 /\ pblock = None
  /\ live = Block

-----------------------------------------------------------------------------
(* push(): deallocate() gives the block up and loads the count. *)

PushBegin(b) ==
  /\ cpc = "idle"
  /\ b \in live
  /\ count < CacheSize                   \* else the free list takes it
  /\ cpc' = "shift"
  /\ ccount' = count
  /\ ci' = CacheSize - 1
  /\ cblock' = b
  /\ live' = live \ {b}
  /\ UNCHANGED <<shared, producer>>

\* entries[i] = entries[i - 1], i going down.
PushShift ==
  /\ cpc = "shift"
  /\ ci > 0
  /\ entries' = [entries EXCEPT ![ci] = entries[ci - 1]]
  /\ ci' = ci - 1
  /\ UNCHANGED <<count, cpc, ccount, cblock, producer, live>>

PushInsert ==
  /\ cpc = "shift"
  /\ ci = 0
  /\ entries' = [entries EXCEPT ![0] = cblock]
  /\ cpc' = "store"
  /\ UNCHANGED <<count, ccount, ci, cblock, producer, live>>

PushStore ==
  /\ cpc = "store"
  /\ count' = ccount + 1
  /\ cpc' = "idle"
  /\ cblock' = None
  /\ UNCHANGED <<entries, ccount, ci, producer, live>>

-----------------------------------------------------------------------------
(* pop(): allocate() asks for a block of some size. *)

PopBegin(min) ==
  /\ ppc = "idle"
  /\ count > 0
  /\ ppc' = "search"
  /\ pcount' = count
  /\ pi' = 0
  /\ pmin' = min
  /\ UNCHANGED <<shared, consumer, pblock, live>>

Fits(e) == e # None /\ SizeOf[e] >= pmin

PopPass ==
  /\ ppc = "search"
  /\ pi < pcount
  /\ ~Fits(entries[pi])
  /\ pi' = pi + 1
  /\ UNCHANGED <<shared, consumer, ppc, pcount, pmin, pblock, live>>

PopMiss ==
  /\ ppc = "search"
  /\ pi = pcount
  /\ ppc' = "idle"
  /\ UNCHANGED <<shared, consumer, pcount, pi, pmin, pblock, live>>

PopHit ==
  /\ ppc = "search"
  /\ pi < pcount
  /\ Fits(entries[pi])
  /\ ppc' = "shift"
  /\ pblock' = entries[pi]
  /\ UNCHANGED <<shared, consumer, pcount, pi, pmin, live>>

\* entries[j] = entries[j + 1], j going up from the place of the hit.
PopShift ==
  /\ ppc = "shift"
  /\ pi < CacheSize - 1
  /\ entries' = [entries EXCEPT ![pi] = entries[pi + 1]]
  /\ pi' = pi + 1
  /\ UNCHANGED <<count, consumer, ppc, pcount, pmin, pblock, live>>

PopClear ==
  /\ ppc = "shift"
  /\ pi = CacheSize - 1
  /\ entries' = [entries EXCEPT ![pi] = None]
  /\ ppc' = "store"
  /\ UNCHANGED <<count, consumer, pcount, pi, pmin, pblock, live>>

PopStore ==
  /\ ppc = "store"
  /\ count' = pcount - 1
  /\ ppc' = "idle"
  /\ live' = live \cup {pblock}
  /\ pblock' = None
  /\ UNCHANGED <<entries, consumer, pcount, pi, pmin>>

-----------------------------------------------------------------------------
Next ==
  \/ \E b \in Block : PushBegin(b)
  \/ PushShift \/ PushInsert \/ PushStore
  \/ \E min \in Sizes : PopBegin(min)
  \/ PopPass \/ PopMiss \/ PopHit \/ PopShift \/ PopClear \/ PopStore

Spec == Init /\ [][Next]_vars

-----------------------------------------------------------------------------
(* Properties. *)

Quiet == cpc = "idle" /\ ppc = "idle"

\* Line 55 promises "SPSC safety": that a block is in the cache, with the
\* caller of pop, or live, and in one place only, whatever the two calls'
\* order, and that none is lost.
NoBlockLost ==
  Quiet => \A b \in Block \ live : \E i \in 0..(count - 1) : entries[i] = b
=============================================================================
