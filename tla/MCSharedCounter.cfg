CONSTANTS
  Threads = {t1, t2, t3}
  TwoTimers = {t1, t2}
  NUM_WORK = 2
  Limit = 3
  Nodes = {n1, n2, n3, n4}
  NULL = NULL
SPECIFICATION FairSpec
INVARIANTS Inv FlagsAreLive FirstComeFirstServed FinalCount
PROPERTY ProgramEnds
CHECK_DEADLOCK FALSE
