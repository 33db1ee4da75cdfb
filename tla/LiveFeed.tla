------------------------------- MODULE LiveFeed -------------------------------
(***************************************************************************)
(* The live feed of the admin dashboard: the endpoint /ws/admin            *)
(* (app/routes/ws.py), the table of connections it fills and the           *)
(* broadcasts the risk middleware schedules (app/core/websocket.py).       *)
(*                                                                         *)
(* Everything runs on one event loop: a coroutine keeps the loop until it  *)
(* waits for something that is not there, which a broadcast does only when *)
(* the buffer of the client it writes to is full.  The table is a dict of  *)
(* CPython: entries stay in the order of insertion, a removed entry leaves *)
(* a hole, an insertion may pack the table, and an iterator notices that   *)
(* the number of clients is not what it was, or that there is one more     *)
(* after it has handed out as many as there were.                          *)
(***************************************************************************)
EXTENDS Naturals, FiniteSets

CONSTANTS
  Clients,     \* connections; each has a client_id of its own
  Congested,   \* those whose buffer may fill up
  Broadcasts   \* the messages the middleware schedules

ASSUME ClientsAssumption == IsFiniteSet(Clients) /\ Congested \subseteq Clients

VARIABLES
  endpoint,  \* endpoint[c]: how far /ws/admin is with c
  link,      \* link[c]: the connection takes messages, is backed up or gone
  at,        \* at[c]: the entry of c in active_connections, 0 when it has none
  entries,   \* the entries of the table, holes included
  task,      \* task[b]: how far broadcast b is
  next,      \* next[b]: the entry its iterator looks at next
  size,      \* size[b]: the number of clients the iterator expects
  left,      \* left[b]: how many more of them it hands out
  waits,     \* waits[b]: the client whose buffer it waits for, in a set
  dead,      \* dead[b]: its list `disconnected`
  present,   \* history: the clients in the table when b began
  reached,   \* history: those b has written its message to
  calm       \* history: no other code has changed the table while b ran

table == <<at, entries>>
loop  == <<task, next, size, left, waits, dead, present, reached>>
vars  == <<endpoint, link, table, loop, calm>>

Connected == {c \in Clients : at[c] > 0}
Size      == Cardinality(Connected)
Begun     == {"running", "sending", "ready"}

Idle == \A b \in Broadcasts : task[b] # "running"

-----------------------------------------------------------------------------
Init ==
  /\ endpoint = [c \in Clients |-> "accepting"]
  /\ link = [c \in Clients |-> "open"]
  /\ at = [c \in Clients |-> 0]
  /\ entries = 0
  /\ task = [b \in Broadcasts |-> "idle"]
  /\ next = [b \in Broadcasts |-> 0]
  /\ size = [b \in Broadcasts |-> 0]
  /\ left = [b \in Broadcasts |-> 0]
  /\ waits = [b \in Broadcasts |-> {}]
  /\ dead = [b \in Broadcasts |-> {}]
  /\ present = [b \in Broadcasts |-> {}]
  /\ reached = [b \in Broadcasts |-> {}]
  /\ calm = [b \in Broadcasts |-> TRUE]

\* The table, packed: nobody moves back, and the order stays.
Packed(f) ==
  /\ \A c \in Clients : f[c] <= at[c] /\ (f[c] = 0 <=> at[c] = 0)
  /\ \A c, d \in Connected : at[c] < at[d] => f[c] < f[d]

Insert(c) ==
  \/ at' = [at EXCEPT ![c] = entries + 1] /\ entries' = entries + 1
  \/ \E f \in [Clients -> 0..Size] :
       Packed(f) /\ at' = [f EXCEPT ![c] = Size + 1] /\ entries' = Size + 1

Pop(C) ==
  /\ at' = [c \in Clients |-> IF c \in C THEN 0 ELSE at[c]]
  /\ UNCHANGED entries

\* The broadcasts in their loop see the table change.
Disturb ==
  calm' = [b \in Broadcasts |-> calm[b] /\ (task[b] \in Begun => at' = at)]

-----------------------------------------------------------------------------
(* The endpoint                                                            *)

\* A bad token, no session or a pending login MFA: close 4001, 4002 or 4003.
Refuse(c) ==
  /\ Idle /\ endpoint[c] = "accepting"
  /\ endpoint' = [endpoint EXCEPT ![c] = "ended"]
  /\ link' = [link EXCEPT ![c] = "gone"]
  /\ UNCHANGED <<table, loop, calm>>

\* From the check to the confirmation the endpoint does not wait for anything.
Join(c) ==
  /\ Idle /\ endpoint[c] = "accepting"
  /\ endpoint' = [endpoint EXCEPT ![c] = "listening"]
  /\ Insert(c)
  /\ Disturb
  /\ UNCHANGED <<link, loop>>

\* WebSocketDisconnect, from the confirmation, a receive or a pong.
\* Variant: the entry is left to the next broadcast.
LeaveListed(c) ==
  /\ Idle /\ endpoint[c] = "listening" /\ link[c] = "gone"
  /\ endpoint' = [endpoint EXCEPT ![c] = "ended"]
  /\ UNCHANGED <<link, table, loop, calm>>
Leave(c) ==
  /\ Idle /\ endpoint[c] = "listening" /\ link[c] = "gone"
  /\ endpoint' = [endpoint EXCEPT ![c] = "ended"]
  /\ Pop({c})
  /\ Disturb
  /\ UNCHANGED <<link, loop>>

\* Any other exception, as after a frame that is not text: the server closes
\* the connection and the entry stays.
Crash(c) ==
  /\ Idle /\ endpoint[c] = "listening" /\ link[c] # "gone"
  /\ endpoint' = [endpoint EXCEPT ![c] = "ended"]
  /\ link' = [link EXCEPT ![c] = "gone"]
  /\ UNCHANGED <<table, loop, calm>>

-----------------------------------------------------------------------------
(* The network                                                             *)

Slow(c) ==
  /\ c \in Congested /\ endpoint[c] = "listening" /\ link[c] = "open"
  /\ link' = [link EXCEPT ![c] = "slow"]
  /\ UNCHANGED <<endpoint, table, loop, calm>>

Drain(c) ==
  /\ link[c] = "slow"
  /\ link' = [link EXCEPT ![c] = "open"]
  /\ task' = [b \in Broadcasts |->
                IF c \in waits[b] THEN "ready" ELSE task[b]]
  /\ waits' = [b \in Broadcasts |-> waits[b] \ {c}]
  /\ UNCHANGED <<endpoint, table, next, size, left, dead, present, reached, calm>>

Vanish(c) ==
  /\ endpoint[c] # "ended" /\ link[c] # "gone"
  /\ link' = [link EXCEPT ![c] = "gone"]
  /\ UNCHANGED <<endpoint, table, loop, calm>>

-----------------------------------------------------------------------------
(* broadcast                                                               *)

\* asyncio.create_task, after the middleware's commit.
Schedule(b) ==
  /\ Idle /\ task[b] = "idle"
  /\ task' = [task EXCEPT ![b] = "scheduled"]
  /\ UNCHANGED <<endpoint, link, table, next, size, left, waits, dead, present, reached, calm>>

Start(b) ==
  /\ Idle /\ task[b] = "scheduled"
  /\ task' = [task EXCEPT ![b] = "running"]
  /\ next' = [next EXCEPT ![b] = 1]
  /\ size' = [size EXCEPT ![b] = Size]
  /\ left' = [left EXCEPT ![b] = Size]
  /\ present' = [present EXCEPT ![b] = Connected]
  /\ UNCHANGED <<endpoint, link, table, waits, dead, reached, calm>>

\* The buffer has drained, or the connection was lost first and the send raises.
Resume(b) ==
  /\ Idle
  /\ \/ task[b] = "ready" /\ UNCHANGED dead
     \/ /\ task[b] = "sending" /\ \A c \in waits[b] : link[c] = "gone"
        /\ dead' = [dead EXCEPT ![b] = @ \cup waits[b]]
  /\ task' = [task EXCEPT ![b] = "running"]
  /\ waits' = [waits EXCEPT ![b] = {}]
  /\ UNCHANGED <<endpoint, link, table, next, size, left, present, reached, calm>>

End(b) ==
  /\ task' = [task EXCEPT ![b] = "over"]
  /\ next' = [next EXCEPT ![b] = 0]
  /\ size' = [size EXCEPT ![b] = 0]
  /\ left' = [left EXCEPT ![b] = 0]
  /\ dead' = [dead EXCEPT ![b] = {}]
  /\ present' = [present EXCEPT ![b] = {}]
  /\ reached' = [reached EXCEPT ![b] = {}]
  /\ UNCHANGED waits

Ahead(b) == {c \in Connected : at[c] >= next[b]}

\* RuntimeError: "dictionary changed size during iteration", or "dictionary
\* keys changed during iteration".
\* Variant: the loop starts again.
Upset(b) == task[b] = "running" /\ (size[b] # Size \/ (Ahead(b) # {} /\ left[b] = 0))
Restarted(b) ==
  /\ Upset(b)
  /\ next' = [next EXCEPT ![b] = 1]
  /\ size' = [size EXCEPT ![b] = Size]
  /\ left' = [left EXCEPT ![b] = Size]
  /\ UNCHANGED <<endpoint, link, table, task, waits, dead, present, reached, calm>>
Stumble(b) ==
  /\ Upset(b)
  /\ End(b)
  /\ calm' = [calm EXCEPT ![b] = TRUE]
  /\ UNCHANGED <<endpoint, link, table>>

\* The iterator's next client, and the send to it.
Found(b, c) ==
  /\ task[b] = "running" /\ size[b] = Size /\ left[b] > 0
  /\ c \in Ahead(b) /\ \A d \in Ahead(b) : at[c] <= at[d]
Reach(b, c) ==
  /\ Found(b, c)
  /\ left' = [left EXCEPT ![b] = @ - 1]
  /\ UNCHANGED <<endpoint, link, table, size, present, calm>>

Send(b, c) ==
  /\ Reach(b, c) /\ link[c] # "gone"
  /\ next' = [next EXCEPT ![b] = at[c] + 1]
  /\ reached' = [reached EXCEPT ![b] = @ \cup {c}]
  /\ \/ link[c] = "open" /\ UNCHANGED <<task, waits>>
     \/ /\ link[c] = "slow"
        /\ task' = [task EXCEPT ![b] = "sending"]
        /\ waits' = [waits EXCEPT ![b] = {c}]
  /\ UNCHANGED dead

\* Variant: the send is tried again.
RetryForEver(b, c) ==
  /\ Found(b, c) /\ link[c] = "gone"
  /\ dead' = [dead EXCEPT ![b] = @ \cup {c}]
  /\ UNCHANGED <<endpoint, link, table, task, next, size, left, waits, present, reached, calm>>
\* Variant: the loop removes the client from the table itself.
FailedPop(b, c) ==
  /\ Found(b, c) /\ link[c] = "gone"
  /\ left' = [left EXCEPT ![b] = @ - 1]
  /\ next' = [next EXCEPT ![b] = at[c] + 1]
  /\ Pop({c})
  /\ UNCHANGED <<endpoint, link, task, size, waits, dead, present, reached, calm>>
SendFailed(b, c) ==
  /\ Reach(b, c) /\ link[c] = "gone"
  /\ next' = [next EXCEPT ![b] = at[c] + 1]
  /\ dead' = [dead EXCEPT ![b] = @ \cup {c}]
  /\ UNCHANGED <<task, waits, reached>>

\* Variant: what was not written to is taken for dead as well.
Unreached(b) == Connected \ reached[b]
Disconnected(b) == dead[b]

Finish(b) ==
  /\ task[b] = "running" /\ size[b] = Size
  /\ Ahead(b) = {}
  /\ Pop(Disconnected(b))
  /\ End(b)
  /\ calm' = [o \in Broadcasts |->
               o = b \/ (calm[o] /\ (task[o] \in Begun => at' = at))]
  /\ UNCHANGED <<endpoint, link>>

Run(b) ==
  \/ Start(b) \/ Resume(b) \/ Stumble(b) \/ Finish(b)
  \/ \E c \in Clients : Send(b, c) \/ SendFailed(b, c)

Next ==
  \/ \E c \in Clients :
       \/ Refuse(c) \/ Join(c) \/ Leave(c) \/ Crash(c)
       \/ Slow(c) \/ Drain(c) \/ Vanish(c)
  \/ \E b \in Broadcasts : Schedule(b) \/ Run(b)

Spec == Init /\ [][Next]_vars

\* The event loop runs what is ready in turn, and the server's keepalive ends
\* a connection that stays backed up.
FairSpec ==
  /\ Spec
  /\ \A b \in Broadcasts : WF_vars(Run(b))
  /\ \A c \in Clients : WF_vars(Leave(c))
  /\ \A c \in Congested : WF_vars(Drain(c) \/ (link[c] = "slow" /\ Vanish(c)))

-----------------------------------------------------------------------------
(* Properties                                                              *)

\* Every variable has its type.
TypeOK ==
  /\ endpoint \in [Clients -> {"accepting", "listening", "ended"}]
  /\ link \in [Clients -> {"open", "slow", "gone"}]
  /\ entries \in Nat /\ at \in [Clients -> 0..entries]
  /\ task \in [Broadcasts -> {"idle", "scheduled", "over"} \cup Begun]
  /\ next \in [Broadcasts -> Nat] /\ size \in [Broadcasts -> Nat]
  /\ left \in [Broadcasts -> Nat]
  /\ \A F \in {waits, dead, present, reached} : F \in [Broadcasts -> SUBSET Clients]
  /\ calm \in [Broadcasts -> BOOLEAN]

\* No broadcast removes a client that still listens on a live connection,
\* however joins, leaves and other broadcasts interleave with it.
ListenersStay ==
  \A c \in Clients : endpoint[c] = "listening" /\ link[c] # "gone" => at[c] > 0

\* A broadcast beside which nobody else changed the table does not raise, and
\* at its end it has written to each client of the table or, when that failed,
\* removes it.
CalmReachesAll ==
  [][\A b \in Broadcasts : calm[b] =>
       /\ ~Stumble(b)
       /\ Finish(b) => \A c \in present[b] :
                         c \in reached[b] \/ (c \in dead[b] /\ at'[c] = 0)]_vars

\* No client gets a message twice, even when the table is packed while the
\* broadcast waits for a slow client.
OncePerClient ==
  [][\A b \in Broadcasts, c \in Clients : Send(b, c) => c \notin reached[b]]_vars

\* Every scheduled broadcast ends.
BroadcastsEnd == \A b \in Broadcasts : task[b] = "scheduled" ~> task[b] = "over"

\* A listener whose connection is lost leaves the table, also when no broadcast
\* comes by or the one that does raises.
LostListenersLeave ==
  \A c \in Clients : endpoint[c] = "listening" /\ link[c] = "gone" ~> at[c] = 0
=============================================================================
