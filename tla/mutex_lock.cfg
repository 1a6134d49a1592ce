CONSTANTS
  t1 = t1
  t2 = t2
  t3 = t3
  t4 = t4
  Threads <- FourThreads
  Nobody = Nobody
  Stranger = Stranger
  NDEBUG = FALSE
  EarlyExit = FALSE
SPECIFICATION LocksSpec
INVARIANT MutualExclusion
INVARIANT RwExclusion
PROPERTY RwProgress
