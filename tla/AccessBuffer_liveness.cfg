SPECIFICATION FairSpec
CONSTANTS
  t1 = t1
  t2 = t2
  Threads = {t1, t2}
  NoThread = NoThread
  Cap = 2
  Modulus = 8
  Start = 6
  Requests <- MCOneRequest
  DrainBatch = 2
  Stale = 1
  MaxPushes = 3
PROPERTIES EventuallyDrained
