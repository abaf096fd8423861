CONSTANTS
  Threads = {t1, t2}
  Records = {a, b, c}
  txnNum = 2
  INIT_VALUE = 1
  LLONG_MAX = 7
  Nobody = Nobody
SPECIFICATION FairSpec
PROPERTIES Serializable WaitersGranted EndsUnlessRefused
