\* Two objects, each of which may be the other's child, two data values, three
\* edits against a history of two, and calls from inside the callbacks of a call.
\* Objects come with lists of children that are right or not, by AddObject, by
\* LoadObjects and in a scene of the engine that also selects what it lacks.
SPECIFICATION Spec
CONSTANTS
  r = r
  a = a
  d = d
  e = e
  none = none
  Ids <- MCIds
  Data = {d, e}
  None = none
  MaxHistory = 2
  EngineScenes <- MCEngineScenes
  NewObjects <- MCNewObjects
  Loads <- MCLoads
  MaxEdits = 3
  MaxDepth = 2
  MaxNested = 1
INVARIANTS TypeOK HistoryBounded ReferencesExist VersionsAscend EngineFollows
CHECK_DEADLOCK FALSE
