--------------------------------- MODULE Pool ---------------------------------
(***************************************************************************)
(* What the requests and the pool owe each other, without the loop and the *)
(* threads: who waits has no connection, so that nobody waits for one that *)
(* only another waiting request could give back; a connection is got by    *)
(* waiting, while one is free; and only a full pool sends anyone away.     *)
(***************************************************************************)
EXTENDS Naturals, FiniteSets

CONSTANTS
  Requests,
  Size        \* connections

VARIABLES
  holders,    \* requests with a connection
  waiting     \* requests that wait for one

vars == <<holders, waiting>>

Full == Cardinality(holders) >= Size

Init == holders = {} /\ waiting = {}

Ask(r) ==
  /\ r \notin holders \cup waiting
  /\ waiting' = waiting \cup {r}
  /\ UNCHANGED holders

Grant(r) ==
  /\ r \in waiting /\ ~Full
  /\ waiting' = waiting \ {r}
  /\ holders' = holders \cup {r}

GiveUp(r) ==
  /\ r \in waiting /\ Full
  /\ waiting' = waiting \ {r}
  /\ UNCHANGED holders

\* A connection is given back, perhaps to ask for one again.
Release(r) ==
  /\ r \in holders
  /\ holders' = holders \ {r}
  /\ waiting' \in {waiting, waiting \cup {r}}

Next == \E r \in Requests : Ask(r) \/ Grant(r) \/ GiveUp(r) \/ Release(r)

Spec == Init /\ [][Next]_vars
=============================================================================
