\* Two keys, two leaves, vectors of up to two elements, one level below the root.
SPECIFICATION DocumentSpec
CONSTANTS
  k = k
  l = l
  one = one
  two = two
  Keys <- MCKeys
  Leaves <- MCLeaves
  Paths <- MCPaths
INVARIANTS EditsReadBack ListCarriesOver TreeCarriesOver
