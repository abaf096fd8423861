CONSTANTS
  Threads = {t1, t2, t3, t4}
  Nobody = Nobody
SPECIFICATION SpinSpec
INVARIANTS RWInv MutualExclusion
PROPERTIES FirstComeFirstServed EveryRequestServed ReadersJoin
