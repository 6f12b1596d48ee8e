---------------------------- MODULE PathWatcher -----------------------------
(***************************************************************************)
(* PathWatcher (source/path_watcher.cpp): a trie of callbacks by path, and *)
(* check, which walks the trie beside an old and a new value, passes over  *)
(* what the two share, and calls the callbacks where they differ.  The     *)
(* callbacks are user code: they watch, unwatch, check other values or     *)
(* throw while the walk is under way.                                      *)
(*                                                                         *)
(* Paths are those made of literals: the keys of the trie are views of the *)
(* path's characters (lines 149, 100), and those of a path built from a    *)
(* std::string are gone when watch returns.                                *)
(***************************************************************************)
EXTENDS Naturals, Sequences, FiniteSets, SequencesExt

CONSTANTS
  Callbacks,   \* each is registered at most once at a time
  Paths,       \* the paths that may be watched, sequences of keys
  Values,      \* leaves, Null, and maps from some keys to such
  Leaves, Null,
  States,      \* the values check is called with
  NoCallback,
  MaxChecks    \* bound: checks inside one another

ASSUME PathAssumption ==
  \A p \in Paths : p \in Seq(ToSet(p)) /\ \A i \in 0..Len(p) : SubSeq(p, 1, i) \in Paths
ASSUME ValueAssumption ==
  /\ States \subseteq Values /\ Null \in Values
  /\ \A v \in Values \ (Leaves \cup {Null}) : \A key \in DOMAIN v : v[key] \in Values
ASSUME CallbackAssumption == NoCallback \notin Callbacks

VARIABLES
  nodes,       \* the paths that have a node, {} before the first watch
  callbacks,   \* [Paths -> the callbacks at that node, in the order of the watches]
  watchCount,
  walk,        \* the calls of check_node under way
  checks,      \* the calls of check under way: which of the walk is its first and, for the
               \* properties only, what was watched, changed hands and was called
  lost         \* a walk has been left with an iterator to what is gone

watcherVars == <<nodes, callbacks, watchCount, walk, checks, lost>>
trie == <<nodes, callbacks, watchCount>>

Frames ==
  [node : Paths, old : Values, new : Values, stage : {"callbacks", "children"},
   todo : Seq(Callbacks), running : Callbacks \cup {NoCallback}, rest : SUBSET Paths]

Watched == {w \in Callbacks \X Paths : w[1] \in ToSet(callbacks[w[2]])}

WatcherTypeOK ==
  /\ nodes \subseteq Paths
  /\ callbacks \in [Paths -> Seq(Callbacks)]
  /\ watchCount \in Nat
  /\ walk \in Seq(Frames)
  /\ checks \in Seq([first : DOMAIN walk, began : SUBSET (Callbacks \X Paths),
                     touched : SUBSET (Callbacks \X Paths), called : Seq(Callbacks \X Paths)])
  /\ lost \in BOOLEAN

WatcherInit ==
  /\ nodes = {}
  /\ callbacks = [p \in Paths |-> <<>>]
  /\ watchCount = 0
  /\ walk = <<>>
  /\ checks = <<>>
  /\ lost = FALSE

-----------------------------------------------------------------------------
IsMap(v) == v \notin Leaves \cup {Null}

\* at(key): null for what is missing, and for what is no map (value.h:471-483).
Child(v, key) == IF IsMap(v) /\ key \in DOMAIN v THEN v[key] ELSE Null
Get(v, p) == FoldLeft(Child, v, p)

SharesByKind(a, b) == IF IsMap(a) /\ IsMap(b) THEN BOOLEAN ELSE {a = b}    \* mutant: any two maps taken for the same

\* The answers values_share_structure may give (lines 37-66): maps are compared
\* by identity, and equal ones may or may not be the same one.
Shares(a, b) == IF a # b THEN {FALSE} ELSE IF IsMap(a) THEN BOOLEAN ELSE {TRUE}

PrefixesOf(p) == {SubSeq(p, 1, i) : i \in 0..Len(p)}
Children(x) == {p \in nodes : Len(p) = Len(x) + 1 /\ x \in PrefixesOf(p)}

\* User code runs outside of every check, or in the callback of the innermost.
UserRuns == ~lost /\ (walk # <<>> => Last(walk).running # NoCallback)

Walking(x, stage) == \E i \in DOMAIN walk : walk[i].node = x /\ walk[i].stage = stage
Touch(entries) == [i \in DOMAIN checks |-> [checks[i] EXCEPT !.touched = @ \cup entries]]

-----------------------------------------------------------------------------
\* insert_path (lines 138-157).  A callback pushed onto the vector being walked,
\* or a child put into the map being walked, may move what the walk stands on.
Watch(c, p) ==
  LET missing == PrefixesOf(p) \ nodes
      attach == {x \in nodes : \E m \in missing : Len(m) = Len(x) + 1 /\ x \in PrefixesOf(m)}
  IN  /\ \A x \in Paths : c \notin ToSet(callbacks[x])
      /\ nodes' = nodes \cup missing
      /\ callbacks' = [callbacks EXCEPT ![p] = Append(@, c)]
      /\ watchCount' = watchCount + 1
      /\ checks' = Touch({<<c, p>>})
      /\ lost' = (Walking(p, "callbacks") \/ \E x \in attach : Walking(x, "children"))
      /\ UNCHANGED walk

HasOwnWatches(x) == callbacks'[x] # <<>>    \* mutant: the node's own callbacks only

\* Something is watched at x or below (lines 97-106).
HasAnyWatches(x) == \E p \in nodes : x \in PrefixesOf(p) /\ callbacks'[p] # <<>>

\* The nodes of path p, from the bottom, that nothing is watched at or below of:
\* clean-up stops at the first that has a watch, and at the root (lines 194-205).
Unneeded(p) ==
  {x \in PrefixesOf(p) \ {<<>>} :
     \A y \in PrefixesOf(p) : Len(y) >= Len(x) => ~HasAnyWatches(y)}

\* remove_path (lines 167-208): false if nothing is watched there.
Unwatch(p) ==
  /\ p \in nodes /\ callbacks[p] # <<>>
  /\ callbacks' = [callbacks EXCEPT ![p] = <<>>]
  /\ watchCount' = watchCount - Len(callbacks[p])
  /\ nodes' = nodes \ Unneeded(p)
  /\ checks' = Touch({<<c, p>> : c \in ToSet(callbacks[p])})
  /\ lost' = (\/ Walking(p, "callbacks")
              \/ \E x \in Unneeded(p) : Walking(x, "callbacks") \/ Walking(x, "children"))
  /\ UNCHANGED walk

\* clear (lines 210-213) takes the whole trie away.
Clear ==
  /\ nodes # {}
  /\ nodes' = {}
  /\ callbacks' = [p \in Paths |-> <<>>]
  /\ watchCount' = 0
  /\ checks' = Touch(Watched)
  /\ lost' = (walk # <<>>)
  /\ UNCHANGED walk

-----------------------------------------------------------------------------
\* check_node at node x begins (lines 247-264): its callbacks are due if the
\* values differ.
FrameOf(x, old, new) ==
  [node |-> x, old |-> old, new |-> new, stage |-> "callbacks",
   todo |-> IF old # new THEN callbacks[x] ELSE <<>>, running |-> NoCallback, rest |-> {}]

\* check (lines 219-245): nothing to do if the values share everything, or
\* nothing is watched.
Check(old, new) ==
  /\ Len(checks) < MaxChecks
  /\ FALSE \in Shares(old, new)
  /\ nodes # {} /\ watchCount # 0
  /\ walk' = Append(walk, FrameOf(<<>>, old, new))
  /\ checks' = Append(checks, [first |-> Len(walk) + 1, began |-> Watched, touched |-> {}, called |-> <<>>])
  /\ UNCHANGED <<trie, lost>>

Here == Last(walk)
Walks == ~lost /\ walk # <<>> /\ Here.running = NoCallback
MoveTo(f) == walk' = Append(Front(walk), f)

Call ==
  /\ Walks /\ Here.stage = "callbacks" /\ Here.todo # <<>>
  /\ MoveTo([Here EXCEPT !.running = Head(Here.todo), !.todo = Tail(@)])
  /\ checks' = [checks EXCEPT ![Len(checks)].called = Append(@, <<Head(Here.todo), Here.node>>)]
  /\ UNCHANGED <<trie, lost>>

Return ==
  /\ UserRuns /\ walk # <<>>
  /\ MoveTo([Here EXCEPT !.running = NoCallback])
  /\ UNCHANGED <<trie, checks, lost>>

\* The callback throws, and the innermost check with it; what called that check
\* catches it, or throws on.
Throw ==
  /\ UserRuns /\ walk # <<>>
  /\ walk' = SubSeq(walk, 1, Last(checks).first - 1)
  /\ checks' = Front(checks)
  /\ UNCHANGED <<trie, lost>>

ToChildren ==
  /\ Walks /\ Here.stage = "callbacks" /\ Here.todo = <<>>
  /\ MoveTo([Here EXCEPT !.stage = "children", !.rest = Children(Here.node)])
  /\ UNCHANGED <<trie, checks, lost>>

\* The children, in any order; those erased meanwhile are not met (lines 267-281).
Visit(x) ==
  LET old == Child(Here.old, Last(x))
      new == Child(Here.new, Last(x))
      rest == Here.rest \ {x}
  IN  /\ \E shared \in Shares(old, new) :
           walk' = Front(walk) \o <<[Here EXCEPT !.rest = rest]>>
                     \o (IF shared THEN <<>> ELSE <<FrameOf(x, old, new)>>)
      /\ UNCHANGED <<trie, checks, lost>>

AllVisited == Walks /\ Here.stage = "children" /\ Here.rest \cap nodes = {}

NodeDone ==
  /\ AllVisited
  /\ walk' = Front(walk)
  /\ checks' = IF Here.node = <<>> THEN Front(checks) ELSE checks
  /\ UNCHANGED <<trie, lost>>

-----------------------------------------------------------------------------
WatcherNext ==
  \/ /\ UserRuns
     /\ \/ \E c \in Callbacks, p \in Paths : Watch(c, p)
        \/ \E p \in Paths : Unwatch(p)
        \/ Clear
        \/ \E old, new \in States : Check(old, new)
  \/ Call \/ Return \/ Throw \/ ToChildren
  \/ /\ Walks /\ Here.stage = "children"
     /\ \E x \in Here.rest \cap nodes : Visit(x)
  \/ NodeDone

WatcherSpec == WatcherInit /\ [][WatcherNext]_watcherVars
-----------------------------------------------------------------------------
\* The trie has a node where something is watched at or below it and nowhere else,
\* the root apart, and counts its callbacks, after any watches and unwatches,
\* those of callbacks during a check included (lines 138-213).
TrieServesWatches ==
  ~lost =>
    /\ nodes \ {<<>>} = (UNION {PrefixesOf(p) : p \in {x \in Paths : callbacks[x] # <<>>}}) \ {<<>>}
    /\ watchCount = Cardinality(Watched)

\* When a check is over, every callback that was registered all the while and
\* whose value changed has been called, once, passing over what is shared and
\* whatever its callbacks did elsewhere; and none was whose value is the same
\* (lines 219-285).
CalledIfChanged ==
  AllVisited /\ Here.node = <<>> =>
    LET check == Last(checks)
        Changed(p) == Get(Here.old, p) # Get(Here.new, p)
    IN  /\ \A w \in check.began \ check.touched :
             Changed(w[2]) => Cardinality({i \in DOMAIN check.called : check.called[i] = w}) = 1
        /\ \A w \in ToSet(check.called) : Changed(w[2])
=============================================================================
