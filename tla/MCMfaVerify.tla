------------------------------ MODULE MCMfaVerify -----------------------------
(* A small instance of MfaVerify.  A step has two ticks (one tick is 15 s), *)
(* so the key's 120 seconds are eight ticks and a code's window is six.  The *)
(* user has two neighbouring codes; outside its window a code is wrong.     *)
EXTENDS MfaVerify, TLC

CONSTANTS r1, r2, k1, k2

MCCounters == {2, 3}
MCCodeOf   == (2 :> k1) @@ (3 :> k2)
Symm == Permutations(Requests)
=============================================================================
