------------------------------ MODULE PoolSizes ------------------------------
(***************************************************************************)
(* The sizes of ipc::SharedMemoryPool (source/shared_memory_pool.cpp), in  *)
(* units of the block header (16 bytes).                                   *)
(***************************************************************************)
EXTENDS Integers

CONSTANTS
  PoolSize,    \* size of the data region
  MinBlock,    \* MIN_BLOCK_SIZE
  HeaderSize,  \* sizeof(BlockHeader)
  Requests     \* the sizes asked for

ASSUME SizesAssumption ==
  /\ PoolSize \in Nat /\ MinBlock \in Nat /\ HeaderSize \in Nat
  /\ 0 < HeaderSize /\ HeaderSize < MinBlock /\ MinBlock <= PoolSize
  /\ Requests \subseteq Nat

\* The block a request needs: header and data, rounded up to MIN_BLOCK_SIZE.
Needed(n) == ((HeaderSize + n + MinBlock - 1) \div MinBlock) * MinBlock

\* What is left of a block is cut off only if it has room for a header and a
\* minimum of data.
Splittable(rest) == rest >= MinBlock + HeaderSize
==============================================================================
