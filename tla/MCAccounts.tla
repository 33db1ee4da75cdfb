------------------------------ MODULE MCAccounts ------------------------------
(* Three requests of any kind on one account.                                *)
EXTENDS Accounts, TLC

CONSTANTS r1, r2, r3, s1, s2, u1

Symm == Permutations(Requests) \cup Permutations(Secrets)
=============================================================================
