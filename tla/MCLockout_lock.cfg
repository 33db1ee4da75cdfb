\* three overlapping logins that may die anywhere
CONSTANTS
  l1 = l1
  l2 = l2
  l3 = l3
  Logins = {l1, l2, l3}
  MaxFails = 3
  FailTtl = 3
SPECIFICATION FairSpec
INVARIANTS TriesBounded LockHasEnd
PROPERTIES LockWearsOff LockEnds
CHECK_DEADLOCK FALSE
