\* Three writes are enough for the writer to lap a read that began at any of
\* the first two states; two words are enough to tear one.
CONSTANTS
  Mode = "double"
  Words = {1, 2}
  MaxWrites = 3
SPECIFICATION BufferFairSpec
INVARIANTS
  BufferTypeOK
  ActiveIsPublished
  WholeUnlessLapped
PROPERTIES
  ConsumerCatchesUp
