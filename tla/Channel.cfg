\* The ring goes around (Capacity 2, three posts) with payloads of size 0,
\* payloads that fit a small receive buffer and payloads that do not, some of which are no
\* serialized value.  No
\* symmetry: some properties are temporal.
CONSTANTS
  Capacity = 2
  InlineSize = 2
  Sizes = {0, 1, 2}
  BufferSizes = {1}
  MaxPosts = 3
  i1 = i1
  i2 = i2
  b1 = b1
  b2 = b2
  Ids = {i1, i2}
  Bodies = {b1, b2}
  Decodable = {b1}
  Nil = Nil
SPECIFICATION FairSpec
INVARIANTS
  TypeOK
  LosslessFifo
  NoSlotRace
  CountInRange
PROPERTIES
  PublishedIsFrozen
  ImplementsFifo
  EveryMessageArrives
