SPECIFICATION Spec
CONSTANTS
  r = r
  a = a
  v = v
  p = p
  null = null
  none = none
  Ids <- MCIds
  Props = {p}
  Values = {v}
  Null = null
  None = none
  MaxHistory = 2
  InitialScenes <- MCInitialScenes
  EngineScenes <- MCEngineScenes
  NewObjects <- MCNewObjects
  MaxEdits = 3
  MaxChildren = 1
INVARIANTS HistoryBounded
PROPERTY AsAnEditHistory
CHECK_DEADLOCK FALSE
