----------------------------- MODULE MCThresholds -----------------------------
(* A small instance of Thresholds: the defaults and four bodies, one that   *)
(* changes only the block threshold, one only the MFA threshold, one both,  *)
(* and one that is not valid.                                               *)
EXTENDS Thresholds, TLC

CONSTANTS u1, u2

Pair(m, b) == [mfa |-> m, block |-> b]
MCDefault  == Pair(40, 75)
MCWanted   == {Pair(40, 50), Pair(60, 75), Pair(20, 30), Pair(80, 70)}
Symm == Permutations(Updates)
=============================================================================
