CONSTANTS
  N = 2
  Values = {0}
  LabelMod = 3
SPECIFICATION Spec
INVARIANTS Inv ThroughputIsPartial
PROPERTY WaitFree
