---------------------------- MODULE ConnectionPool ----------------------------
(***************************************************************************)
(* What a request waits for: the event loop, a worker thread and a         *)
(* database connection (app/core/database.py, app/middleware/risk.py,      *)
(* get_db and get_admin_user, app/routes/ws.py).                           *)
(*                                                                         *)
(* The middleware and the live feed ask the pool on the event loop and     *)
(* block it while they wait.  A handler runs in a worker thread, blocks    *)
(* only that thread, and keeps its connection to the next commit or to the *)
(* end of get_db: a connection taken by get_admin_user is kept while the   *)
(* request goes back to the loop and waits for a thread for its handler.   *)
(* So connections, threads and the loop may each wait for another; only    *)
(* the timeout of the pool ends that.                                      *)
(***************************************************************************)
EXTENDS Naturals, FiniteSets

CONSTANTS
  Requests,   \* requests, each made once
  PoolSize,   \* pool_size + max_overflow of the engine, 15 in the code
  Threads,    \* worker threads, 40 in the code
  MaxTx       \* transactions of a handler, 3 in the code (login)

ASSUME RequestsAssumption == IsFiniteSet(Requests)
ASSUME SizesAssumption ==
  PoolSize \in Nat \ {0} /\ Threads \in Nat \ {0} /\ MaxTx \in Nat

VARIABLES
  pc,      \* pc[r]
  calls,   \* calls[r]: calls to worker threads left, none for a feed
  left,    \* left[r]: transactions its handler may still begin
  gate,    \* requests whose middleware or feed session has a connection
  route    \* requests whose get_db session has a connection

control == <<pc, calls, left>>
vars    == <<control, gate, route>>

Kinds  == {"admin", "user", "skipped", "feed"}   \* "skipped": SKIP_PATHS
OnLoop == {"entering", "checking", "refreshing", "enforcing"}
Steps  == OnLoop \cup {"new", "parting", "queued", "running", "asking",
                       "finished", "closing", "over"}

InFlight == {r \in Requests : pc[r] \notin {"new", "over"}}
LoopFree == \A r \in Requests : pc[r] \notin OnLoop
Busy     == {r \in Requests : pc[r] \in {"running", "asking", "finished"}}
Waiting  == {r \in Requests : pc[r] \in {"entering", "refreshing", "asking"}}

InUse == Cardinality(gate) + Cardinality(route)
\* Variant: one connection too many.
FreeAtLimit == InUse <= PoolSize
Free == InUse < PoolSize

\* Who waits for a connection gives up after the pool's timeout.
\* Variant: the pool waits for ever.
NeverGivesUp == FALSE
GivesUp == ~Free

At(r, step)   == pc[r] = step
Goto(r, step) == pc' = [pc EXCEPT ![r] = step]

Init ==
  /\ pc = [r \in Requests |-> "new"]
  /\ calls = [r \in Requests |-> 0]
  /\ left = [r \in Requests |-> MaxTx]
  /\ gate = {} /\ route = {}

\* Calls to worker threads: get_admin_user and the handler, or the handler.
Calls(k) == CASE k = "admin" -> 2 [] k = "feed" -> 0 [] OTHER -> 1

\* Requests without a token, or with a bad one, take nothing.
Arrive(r, k) ==
  /\ LoopFree /\ At(r, "new")
  /\ Goto(r, IF k = "skipped" THEN "queued" ELSE "entering")
  /\ calls' = [calls EXCEPT ![r] = Calls(k)]
  /\ UNCHANGED <<left, gate, route>>

-----------------------------------------------------------------------------
(* The middleware and the feed, on the event loop                          *)

\* The first query, and the refresh of the row that the commit expired.
GateConnect(r) ==
  /\ Free
  /\ \/ At(r, "entering") /\ Goto(r, "checking")
     \/ At(r, "refreshing") /\ Goto(r, "enforcing")
  /\ gate' = gate \cup {r}
  /\ UNCHANGED <<calls, left, route>>

GateTimeout(r) ==
  /\ At(r, "entering") \/ At(r, "refreshing")
  /\ GivesUp
  /\ Goto(r, "over")
  /\ UNCHANGED <<calls, left, gate, route>>

\* db.close() in the finally clauses of dispatch and of the feed.
\* Variant: the session stays open beside the handler's.
KeptByGate(r) == gate
ClosedByGate(r) == gate \ {r}

\* No session, a pending login MFA, an exception; a feed that is let in.
GateLeave(r) ==
  /\ At(r, "checking")
  /\ Goto(r, "over")
  /\ gate' = ClosedByGate(r)
  /\ UNCHANGED <<calls, left, route>>

GateCommit(r) ==
  /\ At(r, "checking") /\ calls[r] > 0
  /\ Goto(r, "refreshing")
  /\ gate' = gate \ {r}
  /\ UNCHANGED <<calls, left, route>>

\* The verdict refuses the request, or call_next.
GateClose(r) ==
  /\ At(r, "enforcing")
  /\ Goto(r, "over") \/ Goto(r, "queued")
  /\ gate' = ClosedByGate(r)
  /\ UNCHANGED <<calls, left, route>>

\* Two awaits come before the finally clause: the feed's websocket.close(code),
\* and the gate's call_next of a path that only begins like a skipped one.  No
\* route serves such a path, so its answer takes no thread and no connection.
Part(r) ==
  /\ At(r, "checking")
  /\ Goto(r, "parting")
  /\ UNCHANGED <<calls, left, gate, route>>

PartClose(r) ==
  /\ LoopFree /\ At(r, "parting")
  /\ Goto(r, "over")
  /\ gate' = ClosedByGate(r)
  /\ UNCHANGED <<calls, left, route>>

-----------------------------------------------------------------------------
(* Dependencies and handlers, in worker threads                            *)

StartCall(r) ==
  /\ LoopFree /\ At(r, "queued")
  /\ Cardinality(Busy) < Threads
  /\ Goto(r, "running")
  /\ calls' = [calls EXCEPT ![r] = @ - 1]
  /\ UNCHANGED <<left, gate, route>>

\* A query outside a transaction.
Query(r) ==
  /\ At(r, "running") /\ r \notin route /\ left[r] > 0
  /\ Goto(r, "asking")
  /\ left' = [left EXCEPT ![r] = @ - 1]
  /\ UNCHANGED <<calls, gate, route>>

Connect(r) ==
  /\ At(r, "asking") /\ Free
  /\ Goto(r, "running")
  /\ route' = route \cup {r}
  /\ UNCHANGED <<calls, left, gate>>

\* The exception ends the call, and with it the request.
Timeout(r) ==
  /\ At(r, "asking") /\ GivesUp
  /\ Goto(r, "finished")
  /\ calls' = [calls EXCEPT ![r] = 0]
  /\ UNCHANGED <<left, gate, route>>

\* get_admin_user does not commit.
Commit(r) ==
  /\ At(r, "running") /\ calls[r] = 0
  /\ route' = route \ {r}
  /\ r \in route
  /\ UNCHANGED <<control, gate>>

\* The call returns, or raises an exception.
Return(r) ==
  /\ At(r, "running")
  /\ Goto(r, "finished")
  /\ calls' = [calls EXCEPT ![r] = 0] \/ UNCHANGED calls
  /\ UNCHANGED <<left, gate, route>>

\* The loop takes the result, which frees the thread.
Wake(r) ==
  /\ LoopFree /\ At(r, "finished")
  /\ Goto(r, IF calls[r] > 0 THEN "queued" ELSE "closing")
  /\ UNCHANGED <<calls, left, gate, route>>

\* The finally clause of get_db, in a thread of its own.
\* Variant: get_db does not close its session.
KeptByRoute(r) == route
ClosedByRoute(r) == route \ {r}

CloseDb(r) ==
  /\ At(r, "closing")
  /\ Goto(r, "over")
  /\ left' = [left EXCEPT ![r] = 0]
  /\ route' = ClosedByRoute(r)
  /\ UNCHANGED <<calls, gate>>

-----------------------------------------------------------------------------
Step(r) ==
  \/ GateConnect(r) \/ GateTimeout(r) \/ GateLeave(r) \/ GateCommit(r)
  \/ GateClose(r) \/ Part(r) \/ PartClose(r)
  \/ StartCall(r) \/ Query(r) \/ Connect(r) \/ Timeout(r) \/ Commit(r)
  \/ Return(r) \/ Wake(r) \/ CloseDb(r)

Next == \E r \in Requests : Step(r) \/ \E k \in Kinds : Arrive(r, k)

Spec == Init /\ [][Next]_vars

\* The loop and the threads go on, and the pool's timeout comes.
FairSpec == Spec /\ \A r \in Requests : WF_vars(Step(r))

-----------------------------------------------------------------------------
(* Properties                                                              *)

\* Every variable has its type, the pool and the threads keep their limits, and
\* one coroutine at most is between two awaits of the gate.
TypeOK ==
  /\ pc \in [Requests -> Steps]
  /\ calls \in [Requests -> 0..2]
  /\ left \in [Requests -> 0..MaxTx]
  /\ gate \subseteq Requests /\ route \subseteq Requests
  /\ InUse <= PoolSize /\ Cardinality(Busy) <= Threads
  /\ \A r, q \in Requests : pc[r] \in OnLoop /\ pc[q] \in OnLoop => r = q

\* A request waits for a connection, and so may be refused by the pool's timeout,
\* only while more requests are in flight than the pool has connections: none
\* has two, and a request that was answered has none.
ExhaustedByLoad ==
  Waiting # {} /\ ~Free => Cardinality(InFlight) > PoolSize

\* The requests use the pool as Pool demands: none asks for a connection while
\* it has one, on whatever path it got it, and none takes what is not free.
Holding == gate \cup route
Conns == INSTANCE Pool WITH Size <- PoolSize, holders <- Holding, waiting <- Waiting
PoolImplemented == Conns!Spec

\* Every request is answered, though the loop, the threads and the connections
\* may all wait for each other.
AllAnswered == \A r \in Requests : pc[r] # "new" ~> pc[r] = "over"
=============================================================================
