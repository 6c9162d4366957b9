CONSTANTS
  PoolSize = 8
  MinQuantas = 3
  HeaderSize = 16
  WordSize = 1024
  Bases <- MCBases
  Sizes <- MCSizes
  NULL = NULL
SPECIFICATION Spec
INVARIANTS TypeOK Tiled Ordered
PROPERTIES ImplementsAllocator GivesUpOnlyWhenFull
CHECK_DEADLOCK FALSE
