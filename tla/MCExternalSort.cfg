CONSTANTS
  THREAD_NUM = 5
  TUPLE_SIZE = 3
  BLOCK_SIZE = 6
  BUFFER_SIZE = 6
  REMAINED = 36
  IntBits = 6
  MaxErrors = 2
  Keys <- MCKeys
  Files <- MCFiles
  FaultyFiles <- MCFaultyFiles
SPECIFICATION FairSpec
INVARIANTS Inv OutputSorted BuffersHold
PROPERTY Terminates
