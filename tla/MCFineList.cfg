CONSTANTS
  Threads = {t1, t2}
  Keys = {1, 2}
  Nodes = {n1, n2, n3}
  Head = Head
  Tail = Tail
  NULL = NULL
  INT_MIN = 0
  INT_MAX = 3
  Nobody = Nobody
SPECIFICATION FairSpec
INVARIANTS Inv
PROPERTIES IsASet CallsReturn
