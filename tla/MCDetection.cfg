CONSTANTS
  Threads = {t1, t2, t3}
  Records = {a, b, c}
  txnNum = 1
  INIT_VALUE = 1
  LLONG_MAX = 7
  Nobody = Nobody
SPECIFICATION Spec
SYMMETRY Symmetry
INVARIANTS TypeOK LockTableAgrees WritersExclude DeadlockFree ExactlyE SearchAgrees
