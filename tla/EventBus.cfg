SPECIFICATION Spec
CONSTANTS
  s1 = s1
  s2 = s2
  s3 = s3
  saved = saved
  moved = moved
  Slots <- MCSlots
  Events = {saved, moved}
  Interests <- MCInterests
  None = none
  CompactInterval = 2
  MaxDepth = 2
SYMMETRY AnySlot
INVARIANTS IndexAgrees ReachesItsAudience
CHECK_DEADLOCK FALSE
