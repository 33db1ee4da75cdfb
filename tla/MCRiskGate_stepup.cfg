\* a session that was asked for a code calls /auth/mfa/verify
CONSTANTS
  s1 = s1
  s2 = s2
  r1 = r1
  r2 = r2
  r3 = r3
  u1 = u1
  u2 = u2
  Sessions = {s1}
  Users = {u1}
  Owner <- MCOwnerSolo
  AdminSessions <- MCNoAdmin
  Requests = {r1, r2}
  Paths = {"api", "verify"}
  Verdicts <- MCStepVerdicts
  OverrideScore = 1
  HighScore = 7
  MfaWindow = 1
  AlertWindow = 1
  SessionLife = 2
  JwtExpire = 2
  BlacklistTtl = 2
  MaxClock = 1
  RedisMayRestart = FALSE
SPECIFICATION Spec
SYMMETRY Symm
INVARIANTS VerifyReachable
CHECK_DEADLOCK FALSE
