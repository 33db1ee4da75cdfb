--------------------------- MODULE MCConnectionPool ---------------------------
(* The instance TLC checks: enough requests that two hold all connections      *)
(* while the third holds the only thread, or the loop.                         *)
EXTENDS ConnectionPool

CONSTANTS r1, r2, r3

MCRequests == {r1, r2, r3}
=============================================================================
