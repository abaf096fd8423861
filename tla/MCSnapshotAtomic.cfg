CONSTANTS
  N = 3
  Values = {0, 1}
  LabelMod = 3
SPECIFICATION Spec
INVARIANT ScanIsAtomic
