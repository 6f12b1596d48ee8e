\* Six minimum blocks and a header more, a cache of two: blocks of one, two and
\* three minimum blocks, splits that leave just a minimum block and a header,
\* whole blocks where only a minimum block would be left, full cache, long list.
CONSTANTS
  PoolSize = 25
  MinBlock = 4
  HeaderSize = 1
  CacheSize = 2
  BitmapBlocks = 4
  Requests = {2, 4, 11}
SPECIFICATION Spec
INVARIANTS
  EveryBlockInOnePlace
  BooksAgree
  ExhaustedOnlyIfNothingFits
PROPERTIES
  ImplementsAllocator
