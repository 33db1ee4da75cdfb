------------------------------ MODULE MCRiskGate ------------------------------
(* Small instances of RiskGate.  Times are scaled: one tick stands for the  *)
(* alert window in the run on refusals and for half of the session's life  *)
(* in those on revocation.                                               *)
EXTENDS RiskGate, TLC

CONSTANTS s1, s2, r1, r2, r3, u1, u2

MCOwnerApart == (s1 :> u1) @@ (s2 :> u2)
MCOwnerSolo  == s1 :> u1
MCAdmin      == {s2}
MCSelfAdmin  == {s1}
MCNoAdmin    == {}

V(d, n) == [decision |-> d, score |-> n]
MCAllVerdicts  == {V("allow", 8), V("restrict", 8), V("mfa", 8), V("block", 8)}
MCStepVerdicts == {V("allow", 2), V("mfa", 5)}
MCCalm         == {V("allow", 2)}
MCRestrict     == {V("allow", 1), V("allow", 2), V("restrict", 5)}

Symm == Permutations(Requests)
=============================================================================
