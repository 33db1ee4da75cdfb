---------------------------- MODULE MCModelRegistry ----------------------------
(* Three reloads and a retrain that may all overlap, over two rows from      *)
(* before the migration, any of which may be active.                         *)
EXTENDS ModelRegistry, TLC

CONSTANTS a1, a2, a3, p1, old1, old2

MCAge  == (old1 :> 1) @@ (old2 :> 2)
=============================================================================
