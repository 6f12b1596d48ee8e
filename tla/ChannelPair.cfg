\* Two creators compete or follow each other, one process connects; each of three
\* departures may hit any step; three posts to a ring of two slots, so that it
\* fills and goes around.
SPECIFICATION PairFairSpec
CONSTANTS
  p = p
  q = q
  r = r
  Processes <- MCProcesses
  Creators = {p, r}
  Connectors = {q}
  PairCapacity = 2
  PairPosts = 3
  MaxLeaves = 3
INVARIANTS
  OnePair
  OnceAndInOrder
PROPERTIES
  HalvesGo
  PostedIsReceived
CHECK_DEADLOCK FALSE
