SPECIFICATION FairSpec
CONSTANTS
  r1 = r1
  r2 = r2
  r3 = r3
  Requests <- MCRequests
  PoolSize = 2
  Threads = 1
  MaxTx = 3
INVARIANTS TypeOK ExhaustedByLoad
PROPERTIES PoolImplemented AllAnswered
CHECK_DEADLOCK FALSE
