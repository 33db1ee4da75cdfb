\* three handlers of any kind on one account, with failures and restarts
CONSTANTS
  r1 = r1
  r2 = r2
  r3 = r3
  s1 = s1
  s2 = s2
  u1 = u1
  Requests = {r1, r2, r3}
  Users = {u1}
  Secrets = {s1, s2}
  None = None
SPECIFICATION Spec
SYMMETRY Symm
INVARIANTS InactiveAudited SerialEnrolment AcknowledgedAudited SerialProfile DeviceCounts
CHECK_DEADLOCK FALSE
