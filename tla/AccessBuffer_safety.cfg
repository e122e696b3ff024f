SPECIFICATION Spec
CONSTANTS
  t1 = t1
  t2 = t2
  t3 = t3
  Threads = {t1, t2, t3}
  NoThread = NoThread
  Cap = 2
  Modulus = 8
  Start = 6
  Requests <- MCRequests
  DrainBatch = 2
  Stale = 1
  MaxPushes = 4
SYMMETRY ThreadSymmetry
INVARIANTS TypeOK PayloadExclusive RingInv
PROPERTIES ClearEmpties ImplementsEventQueue
