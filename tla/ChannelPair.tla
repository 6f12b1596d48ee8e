---------------------------- MODULE ChannelPair -----------------------------
(***************************************************************************)
(* ipc::ChannelPair (source/ipc.cpp:523-628): two Channels under two names *)
(* of the operating system, made one after the other by the process that   *)
(* creates the pair and opened one after the other by the process that     *)
(* connects to it.  What is modelled is how the two sides find each other, *)
(* leave, crash and come back, and what then becomes of the messages.      *)
(*                                                                         *)
(* The platform is Windows, the one the module is documented for: a name   *)
(* stands for a segment as long as somebody has it open, a second creation *)
(* under a name that stands for something fails, and a process that dies   *)
(* closes what it had open.  A message is its place in the ring and a      *)
(* serialized value, so that no receive throws on it; a full call of post  *)
(* is a step, and so is each half of tryReceive: Channel is the module     *)
(* that looks inside them.                                                 *)
(***************************************************************************)
EXTENDS Naturals, Sequences

CONSTANTS
  Processes,     \* the processes that use the pair
  Creators,      \* those that may call create
  Connectors,    \* those that may call connect: a ring is for one consumer, so one process
  PairCapacity,  \* slots of a ring
  PairPosts,     \* bound: messages posted to one segment
  MaxLeaves      \* bound: how often processes leave or crash, in all

ASSUME ProcessAssumption == Creators \subseteq Processes /\ Connectors \subseteq Processes
ASSUME OneConsumer == (\A p, q \in Connectors : p = q) /\ Creators \cap Connectors = {}
ASSUME BoundAssumption == PairCapacity \in Nat \ {0} /\ PairPosts \in Nat /\ MaxLeaves \in Nat

Names == {"AtoB", "BtoA"}
None == 0
Generations == 1..3    \* two names stand for two segments at most: a new one has a number of its own
Unloaded == PairPosts    \* no message has this place

VARIABLES
  pc,          \* [Processes -> how far its create, its connect or its destructor has come]
  open,        \* [Processes -> [Names -> the generation of the segment it has open there]]
  ready,       \* the names whose segment has its header initialised
  written,     \* [Names -> writeIndex]
  read,        \* [Names -> readIndex]
  loaded,      \* [Processes -> the readIndex a tryReceive under way has loaded]
  arrived,     \* [Names -> the messages receives have returned, in that order] (history)
  leaves       \* how often a process left or crashed

pairVars == <<pc, open, ready, written, read, loaded, arrived, leaves>>
rings == <<written, read, arrived>>

Stages == {"out", "outReady", "in", "creator", "opened", "connector", "closing", "none"}

PairTypeOK ==
  /\ pc \in [Processes -> Stages]
  /\ open \in [Processes -> [Names -> Generations \cup {None}]]
  /\ ready \subseteq Names
  /\ written \in [Names -> 0..PairPosts]
  /\ read \in [Names -> 0..PairPosts]
  /\ loaded \in [Processes -> 0..PairPosts]
  /\ arrived \in [Names -> Seq(0..(PairPosts - 1))]
  /\ leaves \in 0..MaxLeaves

PairInit ==
  /\ pc = [p \in Processes |-> "none"]
  /\ open = [p \in Processes |-> [n \in Names |-> None]]
  /\ ready = {}
  /\ written = [n \in Names |-> 0]
  /\ read = [n \in Names |-> 0]
  /\ loaded = [p \in Processes |-> Unloaded]
  /\ arrived = [n \in Names |-> <<>>]
  /\ leaves = 0

-----------------------------------------------------------------------------
\* The segments a name stands for: those somebody has open.
Segments(n) == {open[p][n] : p \in Processes} \ {None}

MayMakeAlways(n) == TRUE    \* mutant: the name is taken from whoever has it, as the POSIX branch does (line 139)

\* create_only throws if the name stands for anything (line 131).
MayMake(n) == Segments(n) = {}

\* open_only throws if there is nothing; isValid refuses a header not yet written
\* (lines 166, 180).
MayOpen(n) == Segments(n) # {} /\ n \in ready

SegmentOf(n) == CHOOSE g \in Segments(n) : TRUE

\* A number no open segment has, for the pair about to be made.
NewGeneration == CHOOSE g \in Generations : \A n \in Names : g \notin Segments(n)

\* p closes its segment of name n, and nobody else has it open: it is gone.
LastOf(p, n) == open[p][n] # None /\ \A q \in Processes \ {p} : open[q][n] = None

\* p has closed the segments named in N.
Close(p, N) ==
  LET gone == {n \in N : LastOf(p, n)}
      Fresh(f, zero) == [n \in Names |-> IF n \in gone THEN zero ELSE f[n]]
  IN  /\ open' = [open EXCEPT ![p] = [n \in Names |-> IF n \in N THEN None ELSE @[n]]]
      /\ ready' = ready \ gone
      /\ written' = Fresh(written, 0)
      /\ read' = Fresh(read, 0)
      /\ arrived' = Fresh(arrived, <<>>)
      /\ loaded' = [loaded EXCEPT ![p] = Unloaded]

-----------------------------------------------------------------------------
(* createPair (lines 525-544) makes AtoB, then BtoA; each is there for others
   to see before its header is written (lines 130-149). *)

\* A failed creation of the first leaves everything as it was, and the caller
\* with no pair.
MakeOut(p) ==
  /\ p \in Creators /\ pc[p] = "none"
  /\ MayMake("AtoB")
  /\ open' = [open EXCEPT ![p]["AtoB"] = NewGeneration]
  /\ pc' = [pc EXCEPT ![p] = "out"]
  /\ UNCHANGED <<ready, rings, loaded, leaves>>

MarkReady(p, n, stage) ==
  /\ ready' = ready \cup {n}
  /\ pc' = [pc EXCEPT ![p] = stage]
  /\ UNCHANGED <<open, rings, loaded, leaves>>

OutReady(p) == pc[p] = "out" /\ MarkReady(p, "AtoB", "outReady")

MakeIn(p) ==
  /\ pc[p] = "outReady"
  /\ MayMake("BtoA")
  /\ open' = [open EXCEPT ![p]["BtoA"] = open[p]["AtoB"]]
  /\ pc' = [pc EXCEPT ![p] = "in"]
  /\ UNCHANGED <<ready, rings, loaded, leaves>>

\* The second name is taken: no pair, and the first channel goes with it.
MakeInFails(p) ==
  /\ pc[p] = "outReady"
  /\ ~MayMake("BtoA")
  /\ Close(p, Names)
  /\ pc' = [pc EXCEPT ![p] = "none"]
  /\ UNCHANGED leaves

Created(p) == pc[p] = "in" /\ MarkReady(p, "BtoA", "creator")

(* connectPair (lines 546-573) opens AtoB, at the first attempt or not at all,
   then tries BtoA again and again. *)
OpenIn(p) ==
  /\ p \in Connectors /\ pc[p] = "none"
  /\ MayOpen("AtoB")
  /\ open' = [open EXCEPT ![p]["AtoB"] = SegmentOf("AtoB")]
  /\ pc' = [pc EXCEPT ![p] = "opened"]
  /\ UNCHANGED <<ready, rings, loaded, leaves>>

Connected(p) ==
  /\ pc[p] = "opened"
  /\ MayOpen("BtoA")
  /\ open' = [open EXCEPT ![p]["BtoA"] = SegmentOf("BtoA")]
  /\ pc' = [pc EXCEPT ![p] = "connector"]
  /\ UNCHANGED <<ready, rings, loaded, leaves>>

\* Mutant: it waits for the second channel for ever, holding on to the first.
GiveUpNever(p) ==
  /\ pc[p] = "opened"
  /\ ~MayOpen("BtoA")
  /\ UNCHANGED pairVars

\* The hundred retries are used up.
GiveUp(p) ==
  /\ pc[p] = "opened"
  /\ ~MayOpen("BtoA")
  /\ Close(p, Names)
  /\ pc' = [pc EXCEPT ![p] = "none"]
  /\ UNCHANGED leaves

-----------------------------------------------------------------------------
OutName(p) == IF pc[p] = "creator" THEN "AtoB" ELSE "BtoA"
InName(p) == IF pc[p] = "creator" THEN "BtoA" ELSE "AtoB"

\* Channel::create makes a producer, Channel::open a consumer, whichever way
\* the channel is used (lines 123, 159), and the creator makes both.
IsProducer(p) == pc[p] = "creator"

\* post, postRaw: refused to a consumer, and when the ring is full (lines 201,
\* 222).
Post(p) ==
  /\ IsProducer(p)
  /\ LET n == OutName(p) IN
     /\ written[n] - read[n] < PairCapacity
     /\ written[n] < PairPosts
     /\ written' = [written EXCEPT ![n] = @ + 1]
  /\ UNCHANGED <<pc, open, ready, read, loaded, arrived, leaves>>

\* Mutant: the message is consumed before it is copied.
BeginReceiveConsuming(p) ==
  /\ pc[p] \in {"creator", "connector"} /\ loaded[p] = Unloaded
  /\ read[InName(p)] < written[InName(p)]
  /\ loaded' = [loaded EXCEPT ![p] = read[InName(p)]]
  /\ read' = [read EXCEPT ![InName(p)] = @ + 1]
  /\ UNCHANGED <<pc, open, ready, written, arrived, leaves>>

\* Mutant: the last message posted waits for another one.
BeginReceiveButLast(p) ==
  /\ pc[p] \in {"creator", "connector"} /\ loaded[p] = Unloaded
  /\ read[InName(p)] + 1 < written[InName(p)]
  /\ loaded' = [loaded EXCEPT ![p] = read[InName(p)]]
  /\ UNCHANGED <<pc, open, ready, rings, leaves>>

\* tryReceive: the indices are loaded and the message copied (lines 322-345) ...
BeginReceive(p) ==
  /\ pc[p] \in {"creator", "connector"} /\ loaded[p] = Unloaded
  /\ read[InName(p)] < written[InName(p)]
  /\ loaded' = [loaded EXCEPT ![p] = read[InName(p)]]
  /\ UNCHANGED <<pc, open, ready, rings, leaves>>

\* ... then readIndex is set to one more than was loaded, and the caller has the
\* message (lines 348-350).
ReceiveEnd(p) ==
  /\ loaded[p] # Unloaded
  /\ read' = [read EXCEPT ![InName(p)] = loaded[p] + 1]
  /\ arrived' = [arrived EXCEPT ![InName(p)] = Append(@, loaded[p])]
  /\ loaded' = [loaded EXCEPT ![p] = Unloaded]
  /\ UNCHANGED <<pc, open, ready, written, leaves>>

-----------------------------------------------------------------------------
\* The destructor closes inChannel_, the member declared last, ...
Leave(p) ==
  /\ pc[p] \in {"creator", "connector"} /\ loaded[p] = Unloaded
  /\ leaves < MaxLeaves
  /\ Close(p, {InName(p)})
  /\ pc' = [pc EXCEPT ![p] = "closing"]
  /\ leaves' = leaves + 1

\* ... then outChannel_ (lines 620-621).
Left(p) ==
  /\ pc[p] = "closing"
  /\ Close(p, Names)
  /\ pc' = [pc EXCEPT ![p] = "none"]
  /\ UNCHANGED leaves

\* The process dies anywhere, and is started again.
Crash(p) ==
  /\ pc[p] # "none"
  /\ leaves < MaxLeaves
  /\ Close(p, Names)
  /\ pc' = [pc EXCEPT ![p] = "none"]
  /\ leaves' = leaves + 1

-----------------------------------------------------------------------------
\* What a call that has begun does next, until it returns.
GoOn(p) ==
  \/ OutReady(p) \/ MakeIn(p) \/ MakeInFails(p) \/ Created(p)
  \/ Connected(p) \/ GiveUp(p)
  \/ Left(p)

Begin(p) == MakeOut(p) \/ OpenIn(p) \/ Leave(p)

Receive(p) == BeginReceive(p) \/ ReceiveEnd(p)

PairNext == \E p \in Processes : Begin(p) \/ GoOn(p) \/ Post(p) \/ Receive(p) \/ Crash(p)

PairSpec == PairInit /\ [][PairNext]_pairVars

\* A create, a connect or a destructor goes on once begun, the retries of a connect
\* until they are used up; a side that has a pair polls it.  Nobody need call
\* create or connect, or call it again.
PairFairSpec == PairSpec /\ \A p \in Processes : WF_pairVars(GoOn(p)) /\ WF_pairVars(Receive(p))
-----------------------------------------------------------------------------
Complete(p) == pc[p] \in {"creator", "connector"}

\* Whoever has a pair has both halves of the same one, and it has at most one
\* creator, though the halves are made, opened and closed one after the other
\* and anybody may come and go in between (ipc.cpp 525-573, 620-621).
OnePair ==
  /\ \A p, q \in Processes :
       Complete(p) /\ Complete(q) => /\ open[p] = open[q]
                                     /\ open[p]["AtoB"] = open[p]["BtoA"]
                                     /\ pc[p] = "creator" /\ pc[q] = "creator" => p = q
  /\ \A n \in Names : \A g, h \in Segments(n) : g = h

\* A segment keeps its messages while its creator or a connector lasts: they are
\* consumed once and in order, by the connector and the one started after it, a
\* crash in the middle of a receive notwithstanding (ipc.cpp 316-352).  One that dies
\* with a message in its hands, after readIndex is stored, has lost it (349-351).
OnceAndInOrder ==
  \A n \in Names : arrived[n] = [i \in 1..read[n] |-> i - 1]

Wired == \E p, q \in Processes : pc[p] = "creator" /\ pc[q] = "connector"

\* What a create, a connect or a destructor holds in the middle does not stay: again
\* and again somebody has a whole pair, or both names are free for a new one,
\* wherever the others died and however often they try (ipc.cpp 535-541, 557-569,
\* 620-621).
HalvesGo == []<>((\E p \in Processes : Complete(p)) \/ \A n \in Names : Segments(n) = {})

\* What is posted while both sides stay is received (ipc.cpp 575-603).
PostedIsReceived ==
  \A k \in 1..PairPosts :
    (leaves = MaxLeaves /\ Wired /\ written["AtoB"] >= k) ~> (Len(arrived["AtoB"]) >= k)
=============================================================================
