------------------------- MODULE ConnectionPoolProofs -------------------------
(* Proofs about ConnectionPool.  A request has at most one connection, and     *)
(* none while it waits for one or once it is answered; so a full pool and one  *)
(* that waits are more requests than the pool has connections.                 *)
EXTENDS ConnectionPool, TLAPS, FiniteSetTheorems

Types ==
  /\ pc \in [Requests -> Steps]
  /\ calls \in [Requests -> 0..2]
  /\ left \in [Requests -> 0..MaxTx]
  /\ gate \subseteq Requests /\ route \subseteq Requests

\* Which steps have a connection, and who still has a call to make.
Holders ==
  /\ \A r \in gate : pc[r] \in {"checking", "enforcing", "parting"}
  /\ \A r \in route : pc[r] \in {"queued", "running", "finished", "closing"}
  /\ \A r \in Requests : pc[r] = "queued" => calls[r] > 0
  /\ \A r \in Requests : pc[r] \in {"refreshing", "enforcing"} => calls[r] > 0

OneOnLoop ==
  \A r, q \in Requests : pc[r] \in OnLoop /\ pc[q] \in OnLoop => r = q

Inv ==
  /\ Types /\ Holders /\ OneOnLoop
  /\ InUse <= PoolSize /\ Cardinality(Busy) <= Threads

\* Sets of requests are finite.
LEMMA Finite ==
  ASSUME Types
  PROVE  /\ IsFiniteSet(gate) /\ IsFiniteSet(route) /\ IsFiniteSet(Busy)
         /\ IsFiniteSet(InFlight)
         /\ Cardinality(gate) \in Nat /\ Cardinality(route) \in Nat
         /\ Cardinality(Busy) \in Nat
<1>1. gate \subseteq Requests /\ route \subseteq Requests /\ Busy \subseteq Requests
      /\ InFlight \subseteq Requests
  BY DEF Types, Busy, InFlight
<1>2. IsFiniteSet(gate) /\ IsFiniteSet(route) /\ IsFiniteSet(Busy) /\ IsFiniteSet(InFlight)
  BY <1>1, RequestsAssumption, FS_Subset
<1> QED
  BY <1>2, FS_CardinalityType

\* What a step does to the sets that are counted.
LEMMA Shrinks ==
  ASSUME NEW S, NEW P, IsFiniteSet(S), P \subseteq S
  PROVE  IsFiniteSet(P) /\ Cardinality(P) \in Nat /\ Cardinality(P) <= Cardinality(S)
BY FS_Subset, FS_CardinalityType

\* A set that gains one element at most grows by one at most.
LEMMA Grows ==
  ASSUME NEW S, NEW P, NEW r, IsFiniteSet(S), P \subseteq S \cup {r}
  PROVE  IsFiniteSet(P) /\ Cardinality(P) \in Nat /\ Cardinality(P) <= Cardinality(S) + 1
<1>1. /\ IsFiniteSet(S \cup {r})
      /\ Cardinality(S \cup {r}) \in {Cardinality(S), Cardinality(S) + 1}
  BY FS_AddElement
<1> QED
  BY <1>1, FS_Subset, FS_CardinalityType

-----------------------------------------------------------------------------
\* The invariant holds at the start.
LEMMA InitInv == Init => Inv
<1> SUFFICES ASSUME Init PROVE Inv
  OBVIOUS
<1>1. Busy = {}
  BY DEF Init, Busy
<1> QED
  BY <1>1, FS_EmptySet, SizesAssumption
     DEF Init, Inv, Types, Holders, OneOnLoop, OnLoop, Steps, InUse

\* Steps of a request that leave every other alone.
LEMMA StepTypes ==
  ASSUME Types, Holders, NEW r \in Requests, Step(r) \/ \E k \in Kinds : Arrive(r, k)
  PROVE  Types' /\ Holders'
<1> USE DEF Types, Holders, Steps, OnLoop, At, Goto
<1>1. CASE \E k \in Kinds : Arrive(r, k)
  BY <1>1 DEF Arrive, Calls, Kinds
<1>2. CASE GateConnect(r)
  BY <1>2 DEF GateConnect
<1>3. CASE GateTimeout(r)
  BY <1>3 DEF GateTimeout
<1>4. CASE GateLeave(r)
  BY <1>4 DEF GateLeave, ClosedByGate
<1>5. CASE GateCommit(r)
  BY <1>5 DEF GateCommit
<1>6. CASE GateClose(r)
  BY <1>6 DEF GateClose, ClosedByGate
<1>7. CASE Part(r)
  BY <1>7 DEF Part
<1>8. CASE PartClose(r)
  BY <1>8 DEF PartClose, ClosedByGate
<1>9. CASE StartCall(r)
  BY <1>9 DEF StartCall
<1>10. CASE Query(r)
  BY <1>10, SizesAssumption DEF Query
<1>11. CASE Connect(r)
  BY <1>11 DEF Connect
<1>12. CASE Timeout(r)
  BY <1>12 DEF Timeout
<1>13. CASE Commit(r)
  BY <1>13 DEF Commit, control
<1>14. CASE Return(r)
  BY <1>14 DEF Return
<1>15. CASE Wake(r)
  BY <1>15 DEF Wake
<1>16. CASE CloseDb(r)
  BY <1>16, SizesAssumption DEF CloseDb, ClosedByRoute
<1> QED
  BY <1>1, <1>2, <1>3, <1>4, <1>5, <1>6, <1>7, <1>8, <1>9, <1>10, <1>11, <1>12,
     <1>13, <1>14, <1>15, <1>16 DEF Step

\* Every step leaves one coroutine at most between two awaits.
LEMMA StepLoop ==
  ASSUME Types, OneOnLoop, NEW r \in Requests, Step(r) \/ \E k \in Kinds : Arrive(r, k)
  PROVE  OneOnLoop'
<1>1. /\ \A q \in Requests \ {r} : pc'[q] = pc[q]
      /\ pc'[r] \in OnLoop => pc[r] \in OnLoop \/ LoopFree
  BY DEF Types, Step, Arrive, At, Goto, OnLoop, GateConnect, GateTimeout, GateLeave,
     GateCommit, GateClose, Part, PartClose, StartCall, Query, Connect, Timeout,
     Commit, control, Return, Wake, CloseDb
<1> QED
  BY <1>1 DEF OneOnLoop, LoopFree

\* Only who finds the pool below its size gets a connection.
LEMMA StepPool ==
  ASSUME Types, InUse <= PoolSize, NEW r \in Requests,
         Step(r) \/ \E k \in Kinds : Arrive(r, k)
  PROVE  InUse' <= PoolSize
<1>1. \/ gate' \subseteq gate /\ route' \subseteq route
      \/ gate' \subseteq gate \cup {r} /\ route' = route /\ Free
      \/ gate' = gate /\ route' \subseteq route \cup {r} /\ Free
  BY DEF Step, Arrive, GateConnect, GateTimeout, GateLeave, GateCommit, GateClose,
     Part, PartClose, StartCall, Query, Connect, Timeout, Commit, Return, Wake,
     CloseDb, ClosedByGate, ClosedByRoute
<1>2. IsFiniteSet(gate) /\ IsFiniteSet(route)
      /\ Cardinality(gate) \in Nat /\ Cardinality(route) \in Nat
  BY Finite
<1>3. CASE gate' \subseteq gate /\ route' \subseteq route
  BY <1>2, <1>3, Shrinks, SizesAssumption DEF InUse
<1>4. CASE gate' \subseteq gate \cup {r} /\ route' = route /\ Free
  <2>1. Cardinality(gate') \in Nat /\ Cardinality(gate') <= Cardinality(gate) + 1
    BY <1>2, <1>4, Grows
  <2> QED
    BY <1>2, <1>4, <2>1, SizesAssumption DEF InUse, Free
<1>5. CASE gate' = gate /\ route' \subseteq route \cup {r} /\ Free
  <2>1. Cardinality(route') \in Nat /\ Cardinality(route') <= Cardinality(route) + 1
    BY <1>2, <1>5, Grows
  <2> QED
    BY <1>2, <1>5, <2>1, SizesAssumption DEF InUse, Free
<1> QED
  BY <1>1, <1>3, <1>4, <1>5

\* Every step leaves the threads within their limit.
LEMMA StepThreads ==
  ASSUME Types, Cardinality(Busy) <= Threads, NEW r \in Requests,
         Step(r) \/ \E k \in Kinds : Arrive(r, k)
  PROVE  Cardinality(Busy') <= Threads
<1>1. \/ Busy' \subseteq Busy
      \/ Busy' \subseteq Busy \cup {r} /\ Cardinality(Busy) < Threads
  BY DEF Types, Busy, Step, Arrive, At, Goto, GateConnect, GateTimeout, GateLeave,
     GateCommit, GateClose, Part, PartClose, StartCall, Query, Connect, Timeout,
     Commit, control, Return, Wake, CloseDb
<1>2. IsFiniteSet(Busy) /\ Cardinality(Busy) \in Nat
  BY Finite
<1>3. CASE Busy' \subseteq Busy
  BY <1>2, <1>3, Shrinks, SizesAssumption
<1>4. CASE Busy' \subseteq Busy \cup {r} /\ Cardinality(Busy) < Threads
  BY <1>2, <1>4, Grows, SizesAssumption
<1> QED
  BY <1>1, <1>3, <1>4

\* Every step keeps the invariant.
LEMMA NextInv == Inv /\ [Next]_vars => Inv'
<1> SUFFICES ASSUME Inv, [Next]_vars PROVE Inv'
  OBVIOUS
<1>1. CASE UNCHANGED vars
  BY <1>1 DEF Inv, Types, Holders, OneOnLoop, InUse, Busy, vars, control
<1>2. CASE Next
  BY <1>2, StepTypes, StepLoop, StepPool, StepThreads DEF Inv, Next
<1> QED
  BY <1>1, <1>2

\* The invariant holds in every reachable state.
LEMMA Invariant == Spec => []Inv
BY InitInv, NextInv, PTL DEF Spec

\* Types, the limits of pool and threads, and one coroutine between two awaits.
THEOREM TypeCorrect == Spec => []TypeOK
<1>1. Inv => TypeOK
  BY DEF Inv, Types, OneOnLoop, TypeOK
<1> QED
  BY <1>1, Invariant, PTL

-----------------------------------------------------------------------------
\* No request has two connections, so the pool counts the requests that have one.
LEMMA OneEach ==
  ASSUME Types, Holders
  PROVE  /\ gate \cap route = {} /\ IsFiniteSet(Holding)
         /\ Cardinality(Holding) \in Nat /\ Cardinality(Holding) = InUse
<1>1. /\ IsFiniteSet(gate) /\ IsFiniteSet(route)
      /\ Cardinality(gate) \in Nat /\ Cardinality(route) \in Nat
  BY Finite
<1>2. gate \cap route = {}
  BY DEF Types, Holders
<1>3. /\ IsFiniteSet(Holding)
      /\ Cardinality(Holding) = Cardinality(gate) + Cardinality(route)
                                - Cardinality(gate \cap route)
  BY <1>1, FS_Union DEF Holding
<1>4. Cardinality(gate \cap route) = 0
  BY <1>2, FS_EmptySet
<1> QED
  BY <1>1, <1>2, <1>3, <1>4 DEF InUse

\* Whoever has a connection is in flight and does not wait for another one, so
\* the pool's timeout comes only when requests outnumber connections.
THEOREM OnlyLoadExhausts == Spec => []ExhaustedByLoad
<1>1. Inv => ExhaustedByLoad
  <2> SUFFICES ASSUME Inv, NEW r \in Waiting, ~Free
               PROVE  Cardinality(InFlight) > PoolSize
    BY DEF ExhaustedByLoad
  <2>1. Types /\ Holders /\ InUse <= PoolSize
    BY DEF Inv
  <2> DEFINE held == Holding
  <2>2. /\ IsFiniteSet(gate) /\ IsFiniteSet(route) /\ IsFiniteSet(InFlight)
        /\ Cardinality(gate) \in Nat /\ Cardinality(route) \in Nat
    BY <2>1, Finite
  <2>3. r \notin held /\ held \cup {r} \subseteq InFlight
    BY <2>1 DEF Types, Holders, Waiting, InFlight, Holding
  <2>4. IsFiniteSet(held) /\ Cardinality(held) = InUse
    BY <2>1, OneEach
  <2>5. IsFiniteSet(held \cup {r}) /\ Cardinality(held \cup {r}) = Cardinality(held) + 1
    BY <2>3, <2>4, FS_AddElement
  <2>6. Cardinality(held \cup {r}) <= Cardinality(InFlight)
    BY <2>2, <2>3, Shrinks
  <2>7. InUse >= PoolSize /\ InUse \in Nat
    BY <2>2, SizesAssumption DEF Free, InUse
  <2>8. Cardinality(InFlight) \in Nat
    BY <2>2, FS_CardinalityType
  <2> HIDE DEF held
  <2> QED
    BY <2>4, <2>5, <2>6, <2>7, <2>8, SizesAssumption
<1> QED
  BY <1>1, Invariant, PTL
-----------------------------------------------------------------------------
(* Progress.  That every request is answered is liveness and stays with    *)
(* TLC; what it rests on is proved: a request has only so many steps.      *)

\* The steps a request still has before it, at most: those up to the next call
\* of a worker thread, four for each call, and three for each transaction.
Rank == [new |-> 0, entering |-> 5, checking |-> 4, refreshing |-> 3,
         enforcing |-> 2, parting |-> 1, queued |-> 1, running |-> 3,
         asking |-> 5, finished |-> 2, closing |-> 1, over |-> 0]
Measure(r) == 3 * left[r] + 4 * calls[r] + Rank[pc[r]]
              + IF r \in route THEN 1 ELSE 0

\* A step of a request leaves it fewer steps.
LEMMA StepRuns ==
  ASSUME Types, Holders, NEW r \in Requests, Step(r)
  PROVE  Measure(r)' < Measure(r)
<1> USE DEF Types, Steps, OnLoop, At, Goto, Measure, Rank
<1>0. /\ left[r] \in Nat /\ calls[r] \in Nat
      /\ r \in route => pc[r] \in {"queued", "running", "finished", "closing"}
  BY SizesAssumption DEF Holders
<1>1. CASE GateConnect(r)
  BY <1>0, <1>1 DEF GateConnect
<1>2. CASE GateTimeout(r)
  BY <1>0, <1>2 DEF GateTimeout
<1>3. CASE GateLeave(r)
  BY <1>0, <1>3 DEF GateLeave
<1>4. CASE GateCommit(r)
  BY <1>0, <1>4 DEF GateCommit
<1>5. CASE GateClose(r)
  BY <1>0, <1>5 DEF GateClose
<1>6. CASE Part(r)
  BY <1>0, <1>6 DEF Part
<1>7. CASE PartClose(r)
  BY <1>0, <1>7 DEF PartClose
<1>8. CASE StartCall(r)
  <2>1. calls[r] > 0
    BY <1>8 DEF StartCall, Holders
  <2> QED
    BY <1>0, <1>8, <2>1 DEF StartCall
<1>9. CASE Query(r)
  BY <1>0, <1>9 DEF Query
<1>10. CASE Connect(r)
  BY <1>0, <1>10 DEF Connect
<1>11. CASE Timeout(r)
  BY <1>0, <1>11 DEF Timeout
<1>12. CASE Commit(r)
  BY <1>0, <1>12 DEF Commit, control
<1>13. CASE Return(r)
  BY <1>0, <1>13 DEF Return
<1>14. CASE Wake(r)
  BY <1>0, <1>14 DEF Wake
<1>15. CASE CloseDb(r)
  BY <1>0, <1>15 DEF CloseDb, ClosedByRoute
<1> QED
  BY <1>1, <1>2, <1>3, <1>4, <1>5, <1>6, <1>7, <1>8, <1>9, <1>10, <1>11, <1>12,
     <1>13, <1>14, <1>15 DEF Step

\* The step of a request leaves every other's measure as it is.
LEMMA OthersKeep ==
  ASSUME Types, NEW r \in Requests, NEW q \in Requests \ {r},
         Step(r) \/ \E k \in Kinds : Arrive(r, k)
  PROVE  Measure(q)' = Measure(q)
<1>1. /\ pc'[q] = pc[q] /\ calls'[q] = calls[q] /\ left'[q] = left[q]
      /\ q \in route' <=> q \in route
  BY DEF Types, Step, Arrive, At, Goto, GateConnect, GateTimeout, GateLeave,
     GateCommit, GateClose, Part, PartClose, StartCall, Query, Connect, Timeout,
     Commit, control, Return, Wake, CloseDb, ClosedByRoute
<1> QED
  BY <1>1 DEF Measure

\* No request runs for ever: each of its own steps brings it nearer its answer,
\* and no step of another request takes it back.
THEOREM StepsRunOut ==
  Spec => [][\A r \in Requests : /\ Step(r) => Measure(r)' < Measure(r)
                                 /\ r \in InFlight => Measure(r)' <= Measure(r)]_vars
<1>1. Inv /\ [Next]_vars
        => [\A r \in Requests : /\ Step(r) => Measure(r)' < Measure(r)
                                /\ r \in InFlight => Measure(r)' <= Measure(r)]_vars
  <2> SUFFICES ASSUME Inv, Next, NEW r \in Requests
               PROVE  /\ Step(r) => Measure(r)' < Measure(r)
                      /\ r \in InFlight => Measure(r)' <= Measure(r)
    BY DEF vars
  <2>1. Types /\ Holders
    BY DEF Inv
  <2>2. Step(r) => Measure(r)' < Measure(r)
    BY <2>1, StepRuns
  <2>3. PICK q \in Requests : Step(q) \/ \E k \in Kinds : Arrive(q, k)
    BY DEF Next
  <2>4. Types'
    BY <2>1, <2>3, StepTypes
  <2>5. Measure(r) \in Nat
    BY <2>1, SizesAssumption DEF Types, Measure, Rank, Steps, OnLoop
  <2>6. Measure(r)' \in Nat
    BY <2>4, SizesAssumption DEF Types, Measure, Rank, Steps, OnLoop
  <2>7. CASE q = r /\ Step(r)
    BY <2>2, <2>5, <2>6, <2>7
  <2>8. CASE q = r /\ \E k \in Kinds : Arrive(r, k)
    <3>1. r \notin InFlight
      BY <2>8 DEF Arrive, At, InFlight
    <3> QED
      BY <2>2, <3>1
  <2>9. CASE q # r
    <3>1. Measure(r)' = Measure(r)
      BY <2>1, <2>3, <2>9, OthersKeep
    <3> QED
      BY <2>2, <2>5, <3>1
  <2> QED
    BY <2>3, <2>7, <2>8, <2>9
<1> QED
  BY <1>1, Invariant, PTL DEF Spec

-----------------------------------------------------------------------------
(* The refinement: each step asks for one connection, is granted one, gives *)
(* up, gives one back, or does nothing a pool can see.                      *)

\* Initial states map to initial states of the abstract pool.
LEMMA InitRefines == Init => Conns!Init
BY DEF Init, Conns!Init, Holding, Waiting

\* Every step of a request maps to one of the abstract pool's or to a stutter.
LEMMA StepRefines ==
  ASSUME Types, Holders, NEW r \in Requests, Step(r) \/ \E k \in Kinds : Arrive(r, k)
  PROVE  Conns!Next \/ UNCHANGED <<Holding, Waiting>>
<1> USE DEF Types, Steps, OnLoop, At, Goto
<1>0. (Free => ~Conns!Full) /\ (~Free => Conns!Full)
  <2>1. InUse \in Nat /\ Cardinality(Holding) = InUse
    BY OneEach
  <2>2. (InUse < PoolSize => ~(InUse >= PoolSize)) /\ (~(InUse < PoolSize) => InUse >= PoolSize)
    BY <2>1, SizesAssumption
  <2>3. Conns!Cardinality(Holding) = Cardinality(Holding)
    BY DEF Conns!Cardinality, Cardinality
  <2> QED
    BY <2>1, <2>2, <2>3, Zenon DEF Free, Conns!Full
<1>1. /\ r \in gate => pc[r] \in {"checking", "enforcing", "parting"}
      /\ r \in route => pc[r] \in {"queued", "running", "finished", "closing"}
  BY DEF Holders
<1>2. \A step : pc' = [pc EXCEPT ![r] = step] =>
        Waiting' = IF step \in {"entering", "refreshing", "asking"}
                     THEN Waiting \cup {r} ELSE Waiting \ {r}
  BY DEF Waiting
<1>3. CASE \E k \in Kinds : Arrive(r, k)
  <2>1. /\ Holding' = Holding /\ r \notin Holding \cup Waiting
        /\ Waiting' \in {Waiting, Waiting \cup {r}}
    BY <1>0, <1>1, <1>2, <1>3 DEF Arrive, Holding, Waiting
  <2> QED
    BY <2>1 DEF Conns!Next, Conns!Ask
<1>4. CASE GateConnect(r) \/ Connect(r)
  <2>1. /\ r \in Waiting /\ Free
        /\ Waiting' = Waiting \ {r} /\ Holding' = Holding \cup {r}
    BY <1>2, <1>4 DEF GateConnect, Connect, Holding, Waiting
  <2> QED
    BY <1>0, <2>1 DEF Conns!Next, Conns!Grant
<1>5. CASE GateTimeout(r) \/ Timeout(r)
  <2>1. /\ r \in Waiting /\ ~Free
        /\ Waiting' = Waiting \ {r} /\ Holding' = Holding
    BY <1>2, <1>5 DEF GateTimeout, Timeout, GivesUp, Holding, Waiting
  <2> QED
    BY <1>0, <2>1 DEF Conns!Next, Conns!GiveUp
<1>6. CASE GateLeave(r) \/ GateCommit(r) \/ GateClose(r) \/ PartClose(r) \/ CloseDb(r)
  <2>1. Holding' = Holding \ {r}
    BY <1>1, <1>6 DEF GateLeave, GateCommit, GateClose, PartClose, CloseDb,
                      ClosedByGate, ClosedByRoute, Holding
  <2>2. r \notin Waiting /\ Waiting' \in {Waiting, Waiting \cup {r}}
    BY <1>2, <1>6 DEF GateLeave, GateCommit, GateClose, PartClose, CloseDb, Waiting
  <2>3. CASE r \in Holding
    BY <2>1, <2>2, <2>3 DEF Conns!Next, Conns!Release
  <2>4. CASE r \notin Holding
    <3>1. Holding' = Holding
      BY <2>1, <2>4
    <3> QED
      BY <2>2, <2>4, <3>1 DEF Conns!Next, Conns!Ask
  <2> QED
    BY <2>3, <2>4
<1>7. CASE Commit(r)
  <2>1. Holding' = Holding \ {r} /\ Waiting' = Waiting /\ r \in Holding
    BY <1>1, <1>7 DEF Commit, control, Holding, Waiting
  <2> QED
    BY <2>1 DEF Conns!Next, Conns!Release
<1>8. CASE Query(r)
  <2>1. /\ Holding' = Holding /\ r \notin Holding \cup Waiting
        /\ Waiting' = Waiting \cup {r}
    BY <1>1, <1>2, <1>8 DEF Query, Holding, Waiting
  <2> QED
    BY <2>1 DEF Conns!Next, Conns!Ask
<1>9. CASE Part(r) \/ StartCall(r) \/ Return(r) \/ Wake(r)
  <2>1. Holding' = Holding /\ Waiting' = Waiting
    BY <1>2, <1>9 DEF Part, StartCall, Return, Wake, Holding, Waiting
  <2> QED
    BY <2>1
<1> QED
  BY <1>3, <1>4, <1>5, <1>6, <1>7, <1>8, <1>9 DEF Step

\* The middleware, the dependencies and the handlers use the pool as Pool
\* demands: nobody waits for a connection while holding one.
THEOREM PoolRefined == Spec => PoolImplemented
<1>1. Inv /\ [Next]_vars => [Conns!Next]_<<Holding, Waiting>>
  <2>1. ASSUME UNCHANGED vars PROVE UNCHANGED <<Holding, Waiting>>
    BY <2>1 DEF vars, control, Holding, Waiting
  <2> QED
    BY <2>1, StepRefines DEF Inv, Next
<1> QED
  BY <1>1, InitRefines, Invariant, PTL DEF Spec, PoolImplemented, Conns!Spec, Conns!vars
=============================================================================
