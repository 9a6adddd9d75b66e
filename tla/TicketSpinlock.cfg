SPECIFICATION FairSpec
CONSTANTS
  Threads = {t1, t2, t3, t4}
  Limit = 4
INVARIANT MutualExclusion
PROPERTIES ImplementsFifo EveryoneEnters
