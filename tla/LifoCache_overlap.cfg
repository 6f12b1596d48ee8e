CONSTANTS
  Block <- MCBlock
  SizeOf <- MCSizeOf
  CacheSize = 3
SPECIFICATION Spec
INVARIANT
  NoBlockLost
