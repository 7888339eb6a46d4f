SPECIFICATION FairSpec
CONSTANTS
  t1 = t1
  t2 = t2
  t3 = t3
  Threads <- MCThreads
  MsgIds = {1, 2}
  IntSize = 3
  MaxCalls = 5

INVARIANTS Inv EphemeralAlone
PROPERTIES ImplementsReentrantLock AcquireReturns
CHECK_DEADLOCK FALSE
