CONSTANTS
  size = 1
  Chunks = 2
  Blocks = 2
  QUEUE_SIZE = 4
  IntBits = 32
  LongBits = 64
SPECIFICATION Spec
INVARIANT InitialisedWhenListed
