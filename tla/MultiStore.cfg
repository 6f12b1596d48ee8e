SPECIFICATION Spec
CONSTANTS
  a = a
  b = b
  p = p
  v = v
  Missing = missing
  Blob = blob
  None = none
  Ids = {a, b}
  Props = {p}
  Values = {v}
  MaxHistory = 2
  InitialData <- MCInitialData
  MaxEdits = 4
INVARIANTS RegistryAgrees
PROPERTIES SelectionGoesWithObject AsAnEditHistory
CHECK_DEADLOCK FALSE
