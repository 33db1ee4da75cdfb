\* refusals of every kind against the alerts and their deduplication window, and
\* verifications that overlap as time passes
CONSTANTS
  s1 = s1
  s2 = s2
  r1 = r1
  r2 = r2
  r3 = r3
  u1 = u1
  u2 = u2
  Sessions = {s1}
  Users = {u1}
  Owner <- MCOwnerSolo
  AdminSessions <- MCSelfAdmin
  Requests = {r1, r2}
  Paths = {"list", "verify"}
  Verdicts <- MCAllVerdicts
  OverrideScore = 1
  HighScore = 7
  MfaWindow = 1
  AlertWindow = 1
  SessionLife = 2
  JwtExpire = 2
  BlacklistTtl = 2
  MaxClock = 2
  RedisMayRestart = FALSE
SPECIFICATION Spec
SYMMETRY Symm
PROPERTIES MfaProgress
INVARIANTS RefusalAlerted
CHECK_DEADLOCK FALSE
