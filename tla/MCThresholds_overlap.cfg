\* two overlapping updates, restarts, updates that die
CONSTANTS
  u1 = u1
  u2 = u2
  Updates = {u1, u2}
  Wanted <- MCWanted
  Default <- MCDefault
SPECIFICATION Spec
SYMMETRY Symm
INVARIANTS AuditTruthful OrderedUnlessMerged AnsweredKept
CHECK_DEADLOCK FALSE
