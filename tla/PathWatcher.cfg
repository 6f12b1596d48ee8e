\* Two callbacks at four paths, one above another, and a check inside a check.
SPECIFICATION WatcherSpec
CONSTANTS
  k = k
  l = l
  c1 = c1
  c2 = c2
  one = one
  two = two
  Callbacks <- MCCallbacks
  Paths <- MCPaths
  Values <- MCValues
  Leaves <- MCLeaves
  Null = null
  States <- MCStates
  NoCallback = none
  MaxChecks = 2
SYMMETRY AnyCallback
INVARIANTS TrieServesWatches CalledIfChanged
CHECK_DEADLOCK FALSE
