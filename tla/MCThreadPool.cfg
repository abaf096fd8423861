CONSTANTS
  size = 3
  Chunks = 1
  Blocks = 3
  QUEUE_SIZE = 4
  IntBits = 4
  LongBits = 8
SPECIFICATION FairSpec
INVARIANTS Inv InitialisedWhenListed
PROPERTIES JobsRun PoolCloses
