\* two requests with the same codes over the whole window, stalls of up to 30 s,
\* Redis restarts
CONSTANTS
  r1 = r1
  r2 = r2
  k1 = k1
  k2 = k2
  Requests = {r1, r2}
  Counters <- MCCounters
  Codes = {k1, k2}
  CodeOf <- MCCodeOf
  Window = 1
  Step = 2
  UsedTtl = 8
  MaxStall = 2
  MaxFails = 3
  FailTtl = 3
  MaxClock = 14
SPECIFICATION Spec
SYMMETRY Symm
INVARIANTS TypeOK CodeUsedOnce GuessesBounded
CHECK_DEADLOCK FALSE
