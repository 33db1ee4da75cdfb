\* overlapping passes, overrides and logouts over the whole life of a token, with Redis restarts
CONSTANTS
  s1 = s1
  s2 = s2
  r1 = r1
  r2 = r2
  r3 = r3
  u1 = u1
  u2 = u2
  Sessions = {s1}
  Users = {u1}
  Owner <- MCOwnerSolo
  AdminSessions <- MCSelfAdmin
  Requests = {r1, r2}
  Paths = {"api", "override", "logout"}
  Verdicts <- MCRestrict
  OverrideScore = 1
  HighScore = 7
  MfaWindow = 1
  AlertWindow = 1
  SessionLife = 2
  JwtExpire = 2
  BlacklistTtl = 2
  MaxClock = 3
  RedisMayRestart = TRUE
SPECIFICATION Spec
SYMMETRY Symm
INVARIANTS RowTraceable LoggedOutNotListed
PROPERTIES RevokedTokenRefused RiskTrailChained
CHECK_DEADLOCK FALSE
