CONSTANTS
  NUM_THREAD = 3
  Inputs <- MCInputs
  MaxSpurious = 1
  Nobody = Nobody
SPECIFICATION FairGroupSpec
INVARIANTS GroupInv RightCounts NoLostWakeup
PROPERTY ProgramEnds
CHECK_DEADLOCK FALSE
