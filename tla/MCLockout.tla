------------------------------- MODULE MCLockout ------------------------------
(* A small instance of Lockout: a limit of three failures and three logins. *)
EXTENDS Lockout, TLC

CONSTANTS l1, l2, l3

Symm == Permutations(Logins)
=============================================================================
