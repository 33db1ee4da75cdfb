\* verifications, an administrator's resets and gate passes on the same rows
CONSTANTS
  s1 = s1
  s2 = s2
  r1 = r1
  r2 = r2
  r3 = r3
  u1 = u1
  u2 = u2
  Sessions = {s1, s2}
  Users = {u1, u2}
  Owner <- MCOwnerApart
  AdminSessions <- MCAdmin
  Requests = {r1, r2}
  Paths = {"api", "verify", "reset"}
  Verdicts <- MCStepVerdicts
  OverrideScore = 1
  HighScore = 7
  MfaWindow = 1
  AlertWindow = 1
  SessionLife = 2
  JwtExpire = 2
  BlacklistTtl = 2
  MaxClock = 0
  RedisMayRestart = FALSE
SPECIFICATION Spec
SYMMETRY Symm
INVARIANTS TypeOK MfaBeforeService
PROPERTIES MfaProgress SessionsImplemented
CHECK_DEADLOCK FALSE
