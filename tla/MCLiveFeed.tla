------------------------------ MODULE MCLiveFeed ------------------------------
(* Three clients, so that one can leave and another join, in a packed table, *)
(* while a broadcast waits for it; two broadcasts.                           *)
EXTENDS LiveFeed, TLC

CONSTANTS c1, c2, c3, m1, m2
=============================================================================
