\* two broadcasts over a table that clients enter and leave
CONSTANTS
  c1 = c1
  c2 = c2
  c3 = c3
  m1 = m1
  m2 = m2
  Clients = {c1, c2, c3}
  Congested = {c1}
  Broadcasts = {m1, m2}
SPECIFICATION FairSpec
INVARIANTS ListenersStay
PROPERTIES CalmReachesAll OncePerClient BroadcastsEnd LostListenersLeave
CHECK_DEADLOCK FALSE
