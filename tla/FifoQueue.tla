------------------------------ MODULE FifoQueue ------------------------------
(***************************************************************************)
(* What a Channel promises its two processes: a bounded first-in first-out *)
(* queue of messages.  A message enters once, in the order of the posts,   *)
(* and leaves once, in the same order; at most Capacity wait in between.   *)
(* Being asked too early (a queue that looks full or empty) is no step.    *)
(***************************************************************************)
EXTENDS Naturals, Sequences

CONSTANTS
  Capacity,    \* how many messages may wait
  Message      \* the messages a producer may post

VARIABLES
  pending,     \* the messages posted and not yet received, oldest first
  delivered    \* the messages received, in the order of the receives

vars == <<pending, delivered>>

Init ==
  /\ pending = <<>>
  /\ delivered = <<>>

Enqueue(m) ==
  /\ Len(pending) < Capacity
  /\ pending' = Append(pending, m)
  /\ UNCHANGED delivered

Dequeue ==
  /\ pending # <<>>
  /\ delivered' = Append(delivered, Head(pending))
  /\ pending' = Tail(pending)

Next ==
  \/ \E m \in Message : Enqueue(m)
  \/ Dequeue

Spec == Init /\ [][Next]_vars
==============================================================================
