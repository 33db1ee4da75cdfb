---------------------------- MODULE LiveFeedProofs ----------------------------
(* Proofs about LiveFeed.  The clients a broadcast has dealt with lie behind *)
(* its iterator, in the dict's order, and packing the table moves no client  *)
(* back; so none is met twice, and while the table does not change the ones  *)
(* behind the iterator are exactly the ones dealt with, and it still hands   *)
(* out as many as lie ahead.                                                 *)
EXTENDS LiveFeed, FiniteSetTheorems, TLAPS

-----------------------------------------------------------------------------
\* The number of connected clients is a number.
LEMMA SizeNat == Size \in Nat
BY ClientsAssumption, FS_Subset, FS_CardinalityType DEF Size, Connected

\* The table never holds two clients in one entry, and a client is in it only
\* once its endpoint has joined.
TableInv ==
  /\ ListenersStay
  /\ \A c \in Clients : endpoint[c] = "accepting" => at[c] = 0
  /\ \A c, d \in Connected : at[c] = at[d] => c = d

\* What a broadcast knows of the clients.
LoopInv ==
  \A b \in Broadcasts :
    /\ \A c \in dead[b] : link[c] = "gone"
    /\ \A c \in reached[b] \cup dead[b] :
         endpoint[c] # "accepting" /\ at[c] < next[b]
    /\ waits[b] # {} => task[b] = "sending" /\ waits[b] \subseteq reached[b]
    /\ \A c, d \in waits[b] : c = d
    /\ task[b] \notin Begun => reached[b] \cup dead[b] = {}

\* While the table is as it was when the broadcast began.
CalmInv ==
  \A b \in Broadcasts : task[b] \in Begun /\ calm[b] =>
    /\ size[b] = Size /\ present[b] = Connected
    /\ \A c \in Connected : at[c] < next[b] => c \in reached[b] \cup dead[b]

FeedInv == TypeOK /\ TableInv /\ LoopInv /\ CalmInv

\* FeedInv holds at the start.
LEMMA InitFeed == Init => FeedInv
BY SizeNat DEF Init, FeedInv, TypeOK, TableInv, LoopInv, CalmInv, ListenersStay,
               Connected, Begun

\* No number lies between n and n + 1.
LEMMA NextNumber ==
  ASSUME NEW m \in Nat, NEW n \in Nat, m < n + 1, n <= m PROVE m = n
OBVIOUS

\* A step that leaves the table alone leaves its size alone.
LEMMA SameTable ==
  ASSUME at' = at PROVE Connected' = Connected /\ Size' = Size
BY DEF Connected, Size

-----------------------------------------------------------------------------
(* The endpoint and the network                                            *)

\* A joining client gets an entry behind all others, and no other moves back.
LEMMA InsertMovesNoneBack ==
  ASSUME FeedInv, NEW c \in Clients, at[c] = 0, Insert(c)
  PROVE  /\ entries' \in Nat /\ at' \in [Clients -> 0..entries']
         /\ at'[c] > 0 /\ at' # at
         /\ \A d \in Clients \ {c} : at'[d] <= at[d] /\ (at'[d] = 0 <=> at[d] = 0)
         /\ \A d, e \in Connected' : at'[d] = at'[e] => d = e
<1> USE SizeNat DEF FeedInv, TypeOK, TableInv, Connected
<1>1. CASE at' = [at EXCEPT ![c] = entries + 1] /\ entries' = entries + 1
  BY <1>1
<1>2. ASSUME NEW f \in [Clients -> 0..Size], Packed(f),
             at' = [f EXCEPT ![c] = Size + 1], entries' = Size + 1
      PROVE  /\ entries' \in Nat /\ at' \in [Clients -> 0..entries']
             /\ at'[c] > 0 /\ at' # at
             /\ \A d \in Clients \ {c} : at'[d] <= at[d] /\ (at'[d] = 0 <=> at[d] = 0)
             /\ \A d, e \in Connected' : at'[d] = at'[e] => d = e
  <2>1. entries' \in Nat /\ at' \in [Clients -> 0..entries'] /\ at'[c] > 0 /\ at' # at
    BY <1>2
  <2>2. \A d \in Clients \ {c} : at'[d] <= at[d] /\ (at'[d] = 0 <=> at[d] = 0)
    BY <1>2 DEF Packed
  <2>3. ASSUME NEW d \in Connected', NEW e \in Connected', at'[d] = at'[e] PROVE d = e
    <3>1. CASE d = c \/ e = c
      BY <3>1, <2>3, <1>2
    <3>2. CASE d # c /\ e # c
      <4>1. f[d] = f[e] /\ at[d] > 0 /\ at[e] > 0
        BY <3>2, <2>3, <2>2, <1>2
      <4>2. ~(at[d] < at[e]) /\ ~(at[e] < at[d])
        BY <4>1, <1>2 DEF Packed
      <4> QED
        BY <4>1, <4>2
    <3> QED
      BY <3>1, <3>2
  <2> QED
    BY <2>1, <2>2, <2>3
<1> QED
  BY <1>1, <1>2 DEF Insert

\* A step of the endpoint or of the network keeps the invariant.
LEMMA ClientStep ==
  ASSUME FeedInv, NEW c \in Clients,
         \/ Refuse(c) \/ Join(c) \/ Leave(c) \/ Crash(c)
         \/ Slow(c) \/ Drain(c) \/ Vanish(c)
  PROVE  FeedInv'
<1> USE SameTable DEF FeedInv, TypeOK, TableInv, LoopInv, CalmInv, ListenersStay,
                      Begun, table, loop
<1>1. CASE Refuse(c) \/ Crash(c) \/ Slow(c) \/ Vanish(c)
  BY <1>1 DEF Refuse, Crash, Slow, Vanish
<1>2. CASE Join(c)
  <2>1. /\ entries' \in Nat /\ at' \in [Clients -> 0..entries']
        /\ at'[c] > 0 /\ at' # at
        /\ \A d \in Clients \ {c} : at'[d] <= at[d] /\ (at'[d] = 0 <=> at[d] = 0)
        /\ \A d, e \in Connected' : at'[d] = at'[e] => d = e
    BY <1>2, InsertMovesNoneBack DEF Join
  <2>2. /\ endpoint[c] = "accepting"
        /\ endpoint' = [endpoint EXCEPT ![c] = "listening"]
        /\ calm' = [b \in Broadcasts |-> calm[b] /\ (task[b] \in Begun => at' = at)]
        /\ UNCHANGED <<link, loop>>
    BY <1>2 DEF Join, Disturb
  <2>3. TypeOK' /\ TableInv'
    BY <2>1, <2>2 DEF Connected
  <2>4. LoopInv'
    BY <2>1, <2>2
  <2>5. CalmInv'
    BY <2>1, <2>2
  <2> QED
    BY <2>3, <2>4, <2>5
<1>3. CASE Leave(c)
  <2>1. /\ endpoint[c] = "listening" /\ link[c] = "gone"
        /\ endpoint' = [endpoint EXCEPT ![c] = "ended"]
        /\ at' = [d \in Clients |-> IF d \in {c} THEN 0 ELSE at[d]]
        /\ entries' = entries
        /\ calm' = [b \in Broadcasts |-> calm[b] /\ (task[b] \in Begun => at' = at)]
        /\ UNCHANGED <<link, loop>>
    BY <1>3 DEF Leave, Disturb, Pop
  <2>2. TypeOK' /\ TableInv'
    BY <2>1 DEF Connected
  <2>3. LoopInv'
    BY <2>1
  <2>4. CalmInv'
    BY <2>1
  <2> QED
    BY <2>2, <2>3, <2>4
<1>4. CASE Drain(c)
  <2>1. /\ UNCHANGED <<endpoint, table, next, size, left, dead, present, reached, calm>>
        /\ link' = [link EXCEPT ![c] = "open"] /\ link[c] = "slow"
        /\ waits' = [b \in Broadcasts |-> waits[b] \ {c}]
        /\ task' = [b \in Broadcasts |-> IF c \in waits[b] THEN "ready" ELSE task[b]]
    BY <1>4 DEF Drain
  <2>2. TypeOK' /\ TableInv'
    BY <2>1
  <2>3. ASSUME NEW b \in Broadcasts, c \in waits[b]
        PROVE  task[b] = "sending" /\ waits'[b] \subseteq reached'[b] /\ task'[b] = "ready"
    BY <2>1, <2>3
  <2>4. LoopInv' /\ CalmInv'
    BY <2>1, <2>3
  <2> QED
    BY <2>2, <2>4
<1> QED
  BY <1>1, <1>2, <1>3, <1>4

-----------------------------------------------------------------------------
(* The broadcast                                                           *)

\* A step of a broadcast keeps the invariant.
LEMMA BroadcastStep ==
  ASSUME FeedInv, NEW b \in Broadcasts, Schedule(b) \/ Run(b)
  PROVE  FeedInv'
<1> USE SizeNat, SameTable
    DEF FeedInv, TypeOK, TableInv, LoopInv, CalmInv, ListenersStay, Begun, table, loop
<1>1. CASE Schedule(b)
  BY <1>1 DEF Schedule
<1>2. CASE Start(b)
  <2>1. TypeOK' /\ TableInv'
    BY <1>2 DEF Start, Connected
  <2>2. LoopInv'
    BY <1>2 DEF Start, Connected
  <2>3. CalmInv'
    BY <1>2 DEF Start, Connected
  <2> QED
    BY <2>1, <2>2, <2>3
<1>3. CASE Resume(b)
  BY <1>3 DEF Resume
<1>4. CASE Stumble(b)
  BY <1>4 DEF Stumble, Upset, End
<1>5. ASSUME NEW c \in Clients, Send(b, c) PROVE FeedInv'
  <2>0. left' \in [Broadcasts -> Nat]
    <3>1. left[b] - 1 \in Nat /\ left' = [left EXCEPT ![b] = left[b] - 1]
      BY <1>5 DEF Send, Reach, Found
    <3> QED
      BY <3>1
  <2>1. TypeOK' /\ TableInv'
    BY <1>5, <2>0 DEF Send, Reach, Found, Ahead, Connected
  <2>2. LoopInv'
    BY <1>5 DEF Send, Reach, Found, Ahead, Connected
  <2>3. /\ UNCHANGED <<at, size, present, calm>>
        /\ task[b] = "running" /\ \A o \in Broadcasts \ {b} : task'[o] = task[o]
        /\ next' = [next EXCEPT ![b] = at[c] + 1]
        /\ reached' = [reached EXCEPT ![b] = @ \cup {c}] /\ dead' = dead
        /\ c \in Connected /\ \A d \in Connected : at[d] >= next[b] => at[c] <= at[d]
    BY <1>5 DEF Send, Reach, Found, Ahead
  <2>4. \A d \in Connected : at[d] < next'[b] => at[d] < next[b] \/ d = c
    <3>1. next'[b] = at[c] + 1 /\ at[c] \in Nat /\ next[b] \in Nat
      BY <2>3
    <3>2. ASSUME NEW d \in Connected, at[d] < at[c] + 1, ~(at[d] < next[b]) PROVE d = c
      <4>1. at[d] \in Nat /\ at[c] <= at[d]
        BY <2>3, <3>1, <3>2 DEF Connected
      <4>2. at[d] = at[c]
        BY <3>1, <3>2, <4>1, NextNumber
      <4> QED
        BY <2>3, <4>2
    <3> QED
      BY <3>1, <3>2
  <2>5. CalmInv'
    BY <2>3, <2>4 DEF Connected
  <2> QED
    BY <2>1, <2>2, <2>5
<1>6. ASSUME NEW c \in Clients, SendFailed(b, c) PROVE FeedInv'
  <2>0. left' \in [Broadcasts -> Nat]
    <3>1. left[b] - 1 \in Nat /\ left' = [left EXCEPT ![b] = left[b] - 1]
      BY <1>6 DEF SendFailed, Reach, Found
    <3> QED
      BY <3>1
  <2>1. TypeOK' /\ TableInv'
    BY <1>6, <2>0 DEF SendFailed, Reach, Found, Ahead, Connected
  <2>2. LoopInv'
    BY <1>6 DEF SendFailed, Reach, Found, Ahead, Connected
  <2>3. /\ UNCHANGED <<at, size, present, calm, task, reached>>
        /\ task[b] = "running"
        /\ next' = [next EXCEPT ![b] = at[c] + 1]
        /\ dead' = [dead EXCEPT ![b] = @ \cup {c}]
        /\ c \in Connected /\ \A d \in Connected : at[d] >= next[b] => at[c] <= at[d]
    BY <1>6 DEF SendFailed, Reach, Found, Ahead
  <2>4. \A d \in Connected : at[d] < next'[b] => at[d] < next[b] \/ d = c
    <3>1. next'[b] = at[c] + 1 /\ at[c] \in Nat /\ next[b] \in Nat
      BY <2>3
    <3> QED
      BY <2>3, <3>1, NextNumber DEF Connected
  <2>5. CalmInv'
    BY <2>3, <2>4 DEF Connected
  <2> QED
    BY <2>1, <2>2, <2>5
<1>7. CASE Finish(b)
  <2>1. TypeOK' /\ TableInv'
    BY <1>7 DEF Finish, End, Pop, Disconnected, Connected
  <2>2. LoopInv'
    BY <1>7 DEF Finish, End, Pop, Disconnected, Connected
  <2>3. /\ task' = [task EXCEPT ![b] = "over"]
        /\ \A o \in Broadcasts \ {b} :
             /\ next'[o] = next[o] /\ size'[o] = size[o] /\ present'[o] = present[o]
             /\ dead'[o] = dead[o] /\ reached'[o] = reached[o]
    BY <1>7 DEF Finish, End
  <2>4. \A o \in Broadcasts \ {b} : calm'[o] = (calm[o] /\ (task[o] \in Begun => at' = at))
    BY <1>7 DEF Finish
  <2>5. ASSUME NEW o \in Broadcasts, task'[o] \in Begun, calm'[o]
        PROVE  /\ size'[o] = Size' /\ present'[o] = Connected'
               /\ \A c \in Connected' : at'[c] < next'[o] => c \in reached'[o] \cup dead'[o]
    <3>1. o # b
      BY <2>3, <2>5
    <3>2. task[o] \in Begun
      BY <2>3, <2>5, <3>1
    <3>3. calm[o] /\ at' = at
      BY <2>4, <2>5, <3>1, <3>2, Zenon
    <3>4. Connected' = Connected /\ Size' = Size
      BY <3>3, SameTable
    <3> QED
      BY <2>3, <3>1, <3>2, <3>3, <3>4
  <2> QED
    BY <2>1, <2>2, <2>5 DEF CalmInv
<1> QED
  BY <1>1, <1>2, <1>3, <1>4, <1>5, <1>6, <1>7 DEF Run

\* FeedInv holds throughout.
LEMMA FeedInvariant == Spec => []FeedInv
<1>1. FeedInv /\ [Next]_vars => FeedInv'
  <2> SUFFICES ASSUME FeedInv, [Next]_vars PROVE FeedInv'
    OBVIOUS
  <2>1. CASE UNCHANGED vars
    BY <2>1, SameTable DEF vars, table, loop, FeedInv, TypeOK, TableInv, LoopInv,
                           CalmInv, ListenersStay, Begun
  <2> QED
    BY <2>1, ClientStep, BroadcastStep DEF Next
<1> QED
  BY <1>1, InitFeed, PTL DEF Spec

-----------------------------------------------------------------------------
(* The iterator.  While the table is as it was when the broadcast began, it  *)
(* still hands out as many clients as lie ahead of it.                       *)

LeftInv ==
  \A b \in Broadcasts : task[b] \in Begun /\ calm[b] => left[b] = Cardinality(Ahead(b))

\* The clients ahead of an iterator are finitely many.
LEMMA AheadFinite ==
  ASSUME NEW b PROVE IsFiniteSet(Ahead(b))
<1>1. Ahead(b) \subseteq Clients
  BY DEF Ahead, Connected
<1> QED
  BY <1>1, ClientsAssumption, FS_Subset

\* The iterator hands out the first of the clients ahead of it.
LEMMA HandedOut ==
  ASSUME FeedInv, NEW b \in Broadcasts, NEW c \in Clients, Found(b, c), at' = at,
         next' = [next EXCEPT ![b] = at[c] + 1]
  PROVE  /\ Ahead(b)' = Ahead(b) \ {c} /\ c \in Ahead(b)
         /\ Cardinality(Ahead(b))' = Cardinality(Ahead(b)) - 1
<1>1. /\ c \in Ahead(b) /\ \A d \in Ahead(b) : at[c] <= at[d]
      /\ next'[b] = at[c] + 1 /\ next[b] <= at[c]
      /\ \A d \in Clients : at[d] \in Nat
      /\ Connected' = Connected /\ next[b] \in Nat
      /\ \A d, e \in Connected : at[d] = at[e] => d = e
  BY DEF Found, Ahead, Connected, FeedInv, TypeOK, TableInv
<1>2. ASSUME NEW d \in Connected PROVE d \in Ahead(b)' <=> d \in Ahead(b) \ {c}
  <2>1. d \in Ahead(b)' <=> at[d] >= at[c] + 1
    BY <1>1 DEF Ahead
  <2>2. d \in Ahead(b) <=> at[d] >= next[b]
    BY DEF Ahead
  <2>3. at[d] \in Nat /\ at[c] \in Nat /\ c \in Connected
    BY <1>1 DEF Ahead, Connected
  <2>4. d # c => at[d] # at[c]
    BY <1>1, <2>3
  <2>5. d \in Ahead(b) => at[c] <= at[d]
    BY <1>1
  <2> QED
    BY <1>1, <2>1, <2>2, <2>3, <2>4, <2>5
<1>3. Ahead(b)' = Ahead(b) \ {c}
  BY <1>1, <1>2 DEF Ahead
<1>4. IsFiniteSet(Ahead(b))
  BY AheadFinite
<1>5. Cardinality(Ahead(b) \ {c}) = Cardinality(Ahead(b)) - 1
  BY <1>1, <1>4, FS_RemoveElement
<1> QED
  BY <1>1, <1>3, <1>5

\* Any other step leaves the iterator of a broadcast in its loop where it is,
\* and if it changes the table the broadcast is not calm any more.
LEMMA OthersLeave ==
  ASSUME FeedInv, NEW b \in Broadcasts, [Next]_vars, task'[b] \in Begun, calm'[b],
         ~Start(b), \A c \in Clients : ~Send(b, c) /\ ~SendFailed(b, c)
  PROVE  task[b] \in Begun /\ calm[b] /\ UNCHANGED <<at, next[b], left[b]>>
<1> USE DEF FeedInv, TypeOK, Begun, table, loop
<1>1. ASSUME NEW c \in Clients,
             Refuse(c) \/ Crash(c) \/ Slow(c) \/ Vanish(c)
      PROVE  task[b] \in Begun /\ calm[b] /\ UNCHANGED <<at, next[b], left[b]>>
  BY <1>1 DEF Refuse, Crash, Slow, Vanish
<1>2. ASSUME NEW c \in Clients, Join(c) \/ Leave(c)
      PROVE  task[b] \in Begun /\ calm[b] /\ UNCHANGED <<at, next[b], left[b]>>
  <2>1. /\ UNCHANGED loop
        /\ calm'[b] = (calm[b] /\ (task[b] \in Begun => at' = at))
    BY <1>2 DEF Join, Leave, Disturb
  <2> QED
    BY <2>1
<1>3. ASSUME NEW c \in Clients, Drain(c)
      PROVE  task[b] \in Begun /\ calm[b] /\ UNCHANGED <<at, next[b], left[b]>>
  BY <1>3 DEF Drain, LoopInv
<1>4. ASSUME NEW o \in Broadcasts, Schedule(o) \/ Start(o) \/ Resume(o)
      PROVE  task[b] \in Begun /\ calm[b] /\ UNCHANGED <<at, next[b], left[b]>>
  <2>1. CASE o = b
    BY <1>4, <2>1 DEF Schedule, Resume
  <2>2. CASE o # b
    BY <1>4, <2>2 DEF Schedule, Start, Resume
  <2> QED
    BY <2>1, <2>2
<1>5. ASSUME NEW o \in Broadcasts, Stumble(o) \/ Finish(o)
      PROVE  task[b] \in Begun /\ calm[b] /\ UNCHANGED <<at, next[b], left[b]>>
  <2>1. o # b
    BY <1>5 DEF Stumble, Finish, End
  <2>2. task'[b] = task[b] /\ UNCHANGED <<next[b], left[b]>>
    BY <1>5, <2>1 DEF Stumble, Finish, End
  <2>3. CASE Stumble(o)
    BY <2>1, <2>2, <2>3 DEF Stumble
  <2>4. CASE Finish(o)
    <3>1. calm'[b] = (calm[b] /\ (task[b] \in Begun => at' = at))
      BY <2>1, <2>4 DEF Finish
    <3> QED
      BY <2>2, <3>1
  <2> QED
    BY <1>5, <2>3, <2>4
<1>6. ASSUME NEW o \in Broadcasts, NEW c \in Clients, Send(o, c) \/ SendFailed(o, c)
      PROVE  task[b] \in Begun /\ calm[b] /\ UNCHANGED <<at, next[b], left[b]>>
  BY <1>6 DEF Send, SendFailed, Reach, Found
<1>7. CASE UNCHANGED vars
  BY <1>7 DEF vars
<1> QED
  BY <1>1, <1>2, <1>3, <1>4, <1>5, <1>6, <1>7 DEF Next, Run

\* LeftInv holds throughout.
LEMMA LeftInvariant == Spec => []LeftInv
<1>1. Init => LeftInv
  BY DEF Init, LeftInv, Begun
<1>2. FeedInv /\ LeftInv /\ [Next]_vars => LeftInv'
  <2> SUFFICES ASSUME FeedInv, LeftInv, [Next]_vars, NEW b \in Broadcasts,
                      task'[b] \in Begun, calm'[b]
               PROVE  left'[b] = Cardinality(Ahead(b))'
    BY DEF LeftInv
  <2>1. CASE Start(b)
    <3>1. left'[b] = Size /\ next'[b] = 1 /\ at' = at
      BY <2>1 DEF Start, FeedInv, TypeOK, table
    <3>2. \A c \in Clients : at[c] > 0 <=> at[c] >= 1
      BY DEF FeedInv, TypeOK
    <3>3. Ahead(b)' = Connected
      BY <3>1, <3>2 DEF Ahead, Connected
    <3> QED
      BY <3>1, <3>3 DEF Size
  <2>2. ASSUME NEW c \in Clients, Send(b, c) \/ SendFailed(b, c)
        PROVE  left'[b] = Cardinality(Ahead(b))'
    <3>1. /\ Found(b, c) /\ at' = at /\ next' = [next EXCEPT ![b] = at[c] + 1]
          /\ left'[b] = left[b] - 1 /\ calm[b] /\ task[b] \in Begun
      BY <2>2 DEF Send, SendFailed, Reach, Found, FeedInv, TypeOK, table, Begun
    <3> QED
      BY <3>1, HandedOut DEF LeftInv
  <2>3. CASE ~Start(b) /\ \A c \in Clients : ~Send(b, c) /\ ~SendFailed(b, c)
    <3>1. task[b] \in Begun /\ calm[b] /\ UNCHANGED <<at, next[b], left[b]>>
      BY <2>3, OthersLeave
    <3>2. Ahead(b)' = Ahead(b)
      BY <3>1 DEF Ahead, Connected
    <3> QED
      BY <3>1, <3>2 DEF LeftInv
  <2> QED
    BY <2>1, <2>2, <2>3
<1> QED
  BY <1>1, <1>2, FeedInvariant, PTL DEF Spec

-----------------------------------------------------------------------------
(* Results                                                                 *)

\* Every variable always has its type.
THEOREM TypeCorrect == Spec => []TypeOK
BY FeedInvariant, PTL DEF FeedInv

\* A client that listens on a live connection is in the table.
THEOREM LiveListenersStay == Spec => []ListenersStay
BY FeedInvariant, PTL DEF FeedInv, TableInv

\* A broadcast that nobody disturbs reaches or removes every client.
THEOREM CalmBroadcastsReachAll == Spec => CalmReachesAll
<1>1. FeedInv /\ LeftInv /\ [Next]_vars =>
        [\A b \in Broadcasts : calm[b] =>
           /\ ~Stumble(b)
           /\ Finish(b) => \A c \in present[b] :
                c \in reached[b] \/ (c \in dead[b] /\ at'[c] = 0)]_vars
  <2> SUFFICES ASSUME FeedInv, LeftInv, NEW b \in Broadcasts, calm[b]
               PROVE  /\ ~Stumble(b)
                      /\ Finish(b) => \A c \in present[b] :
                           c \in reached[b] \/ (c \in dead[b] /\ at'[c] = 0)
    OBVIOUS
  <2>1. ~Stumble(b)
    BY AheadFinite, FS_EmptySet DEF FeedInv, CalmInv, LeftInv, Stumble, Upset, Begun
  <2>2. ASSUME Finish(b), NEW c \in present[b]
        PROVE  c \in reached[b] \/ (c \in dead[b] /\ at'[c] = 0)
    <3>1. c \in Connected /\ ~(at[c] >= next[b])
      BY <2>2 DEF FeedInv, CalmInv, Finish, Ahead, Begun
    <3>2. c \in reached[b] \cup dead[b]
      BY <2>2, <3>1 DEF FeedInv, TypeOK, CalmInv, Finish, Begun, Connected
    <3>3. c \in dead[b] => at'[c] = 0
      BY <2>2, <3>1 DEF Finish, Pop, Disconnected, Connected
    <3> QED
      BY <3>2, <3>3
  <2> QED
    BY <2>1, <2>2
<1> QED
  BY <1>1, FeedInvariant, LeftInvariant, PTL DEF Spec, CalmReachesAll

\* No broadcast writes to a client twice.
THEOREM NoClientTwice == Spec => OncePerClient
<1>1. FeedInv /\ [Next]_vars =>
        [\A b \in Broadcasts, c \in Clients : Send(b, c) => c \notin reached[b]]_vars
  BY DEF FeedInv, TypeOK, LoopInv, Send, Reach, Found, Ahead, Connected
<1> QED
  BY <1>1, FeedInvariant, PTL DEF Spec, OncePerClient

-----------------------------------------------------------------------------
(* Progress.  That every broadcast ends is liveness and stays with TLC;    *)
(* what it rests on is proved: a broadcast sleeps only for a client whose  *)
(* buffer is full or whose connection is lost, and it has only so many     *)
(* steps.                                                                  *)

\* Only clients whose buffer may fill up are backed up, and a broadcast sleeps
\* in a send to one client that was.
SleepInv ==
  /\ \A c \in Clients : link[c] = "slow" => c \in Congested
  /\ \A b \in Broadcasts :
       /\ task[b] = "sending" => waits[b] # {}
       /\ \A c \in waits[b] : c \in Congested /\ link[c] \in {"slow", "gone"}

\* SleepInv holds throughout.
LEMMA SleepInvariant == Spec => []SleepInv
<1>1. Init => SleepInv
  BY DEF Init, SleepInv
<1>2. FeedInv /\ SleepInv /\ [Next]_vars => SleepInv'
  <2> SUFFICES ASSUME FeedInv, SleepInv, [Next]_vars PROVE SleepInv'
    OBVIOUS
  <2> USE DEF FeedInv, TypeOK, SleepInv, loop
  <2>1. ASSUME NEW c \in Clients,
               Refuse(c) \/ Join(c) \/ Leave(c) \/ Crash(c) \/ Slow(c) \/ Vanish(c)
        PROVE  SleepInv'
    BY <2>1 DEF Refuse, Join, Leave, Crash, Slow, Vanish
  <2>2. ASSUME NEW c \in Clients, Drain(c) PROVE SleepInv'
    <3>1. \A b \in Broadcasts : \A d, e \in waits[b] : d = e
      BY DEF LoopInv
    <3> QED
      BY <2>2, <3>1 DEF Drain
  <2>3. ASSUME NEW b \in Broadcasts, Schedule(b) \/ Start(b) \/ Resume(b)
        PROVE  SleepInv'
    BY <2>3 DEF Schedule, Start, Resume
  <2>4. ASSUME NEW b \in Broadcasts, Stumble(b) \/ Finish(b) PROVE SleepInv'
    <3>1. task' = [task EXCEPT ![b] = "over"] /\ UNCHANGED <<waits, link>>
      BY <2>4 DEF Stumble, Finish, End
    <3> QED
      BY <3>1
  <2>5. ASSUME NEW b \in Broadcasts, NEW c \in Clients, Send(b, c) \/ SendFailed(b, c)
        PROVE  SleepInv'
    <3>1. /\ link' = link
          /\ \/ UNCHANGED <<task, waits>>
             \/ /\ link[c] = "slow" /\ task' = [task EXCEPT ![b] = "sending"]
                /\ waits' = [waits EXCEPT ![b] = {c}]
      BY <2>5 DEF Send, SendFailed, Reach
    <3>2. CASE UNCHANGED <<task, waits>>
      BY <3>1, <3>2
    <3>3. CASE /\ link[c] = "slow" /\ task' = [task EXCEPT ![b] = "sending"]
               /\ waits' = [waits EXCEPT ![b] = {c}]
      <4>1. \A o \in Broadcasts : o # b => task'[o] = task[o] /\ waits'[o] = waits[o]
        BY <3>3
      <4>2. waits'[b] = {c} /\ c \in Congested
        BY <3>3
      <4> QED
        BY <3>1, <3>3, <4>1, <4>2
    <3> QED
      BY <3>1, <3>2, <3>3
  <2>6. CASE UNCHANGED vars
    BY <2>6 DEF vars
  <2> QED
    BY <2>1, <2>2, <2>3, <2>4, <2>5, <2>6 DEF Next, Run
<1> QED
  BY <1>1, <1>2, FeedInvariant, PTL DEF Spec

\* No wake-up is lost: a broadcast that sleeps waits for a client that is still
\* backed up, and so wakes it when it drains, or that is gone, and then the
\* send raises.
THEOREM SleepsForOneClient ==
  Spec => [](\A b \in Broadcasts : task[b] = "sending" =>
               \E c \in Congested : waits[b] = {c} /\ link[c] \in {"slow", "gone"})
<1>1. FeedInv /\ SleepInv =>
        \A b \in Broadcasts : task[b] = "sending" =>
          \E c \in Congested : waits[b] = {c} /\ link[c] \in {"slow", "gone"}
  <2> SUFFICES ASSUME FeedInv, SleepInv, NEW b \in Broadcasts, task[b] = "sending"
               PROVE  \E c \in Congested : waits[b] = {c} /\ link[c] \in {"slow", "gone"}
    OBVIOUS
  <2>1. PICK c \in waits[b] : TRUE
    BY DEF SleepInv
  <2>2. waits[b] = {c}
    BY <2>1 DEF FeedInv, LoopInv
  <2> QED
    BY <2>1, <2>2 DEF SleepInv
<1> QED
  BY <1>1, FeedInvariant, SleepInvariant, PTL

\* The clients broadcast b may still write to, and the steps it has at most:
\* three for each of them, and those of its own course.
Untried(b) == Clients \ (reached[b] \cup dead[b])
Course == [idle |-> 5, scheduled |-> 4, sending |-> 3, ready |-> 2, running |-> 1,
           over |-> 0]
Measure(b) ==
  IF task[b] = "over" THEN 0 ELSE 3 * Cardinality(Untried(b)) + Course[task[b]]

\* The clients left are some of finitely many.
LEMMA UntriedFinite ==
  ASSUME NEW b
  PROVE  IsFiniteSet(Untried(b)) /\ Cardinality(Untried(b)) \in Nat
BY ClientsAssumption, FS_Subset, FS_CardinalityType DEF Untried

\* A client that a send deals with was left, and is not any more.
LEMMA OneFewer ==
  ASSUME FeedInv, NEW b \in Broadcasts, NEW c \in Clients, Send(b, c) \/ SendFailed(b, c)
  PROVE  Cardinality(Untried(b))' = Cardinality(Untried(b)) - 1
<1>1. c \in Untried(b)
  BY DEF Untried, FeedInv, TypeOK, LoopInv, Send, SendFailed, Reach, Found, Ahead, Connected
<1>2. Untried(b)' = Untried(b) \ {c}
  BY DEF Untried, FeedInv, TypeOK, Send, SendFailed, Reach, Found
<1> QED
  BY <1>1, <1>2, UntriedFinite, FS_RemoveElement

\* A step of a broadcast leaves it fewer steps, however the table has changed
\* in between.
LEMMA RunShortens ==
  ASSUME FeedInv, NEW b \in Broadcasts, Run(b)
  PROVE  Measure(b)' < Measure(b)
<1> USE DEF FeedInv, TypeOK, Begun, Course
<1>0. Cardinality(Untried(b)) \in Nat
  BY UntriedFinite
<1>1. CASE Start(b)
  <2>1. Untried(b)' = Untried(b) /\ task[b] = "scheduled" /\ task'[b] = "running"
    BY <1>1 DEF Start, Untried
  <2> QED
    BY <1>0, <2>1 DEF Measure
<1>2. CASE Resume(b)
  <2>1. /\ task[b] \in {"ready", "sending"} /\ task'[b] = "running"
        /\ reached' = reached /\ dead'[b] \subseteq dead[b] \cup reached[b]
        /\ dead[b] \subseteq dead'[b]
    BY <1>2 DEF Resume, LoopInv
  <2>2. Untried(b)' = Untried(b)
    BY <2>1 DEF Untried
  <2> QED
    BY <1>0, <2>1, <2>2 DEF Measure
<1>3. CASE Stumble(b) \/ Finish(b)
  BY <1>0, <1>3 DEF Stumble, Upset, Finish, End, Measure
<1>4. ASSUME NEW c \in Clients, Send(b, c) \/ SendFailed(b, c)
      PROVE  Measure(b)' < Measure(b)
  <2>1. Cardinality(Untried(b))' = Cardinality(Untried(b)) - 1
    BY <1>4, OneFewer
  <2>2. task[b] = "running" /\ task'[b] \in {"running", "sending"}
    BY <1>4 DEF Send, SendFailed, Reach, Found
  <2> QED
    BY <1>0, <2>1, <2>2 DEF Measure
<1> QED
  BY <1>1, <1>2, <1>3, <1>4 DEF Run

\* Another step leaves a broadcast where it is, or wakes it.
LEMMA OthersKeep ==
  ASSUME FeedInv, NEW b \in Broadcasts, task[b] # "idle", [Next]_vars, ~Run(b)
  PROVE  /\ UNCHANGED <<reached[b], dead[b]>>
         /\ task'[b] = task[b] \/ (task[b] = "sending" /\ task'[b] = "ready")
<1> USE DEF FeedInv, TypeOK, loop
<1>1. ASSUME NEW c \in Clients,
             Refuse(c) \/ Join(c) \/ Leave(c) \/ Crash(c) \/ Slow(c) \/ Vanish(c)
      PROVE  UNCHANGED <<reached, dead, task>>
  BY <1>1 DEF Refuse, Join, Leave, Crash, Slow, Vanish
<1>2. ASSUME NEW c \in Clients, Drain(c)
      PROVE  /\ UNCHANGED <<reached, dead>>
             /\ task'[b] = task[b] \/ (task[b] = "sending" /\ task'[b] = "ready")
  BY <1>2 DEF Drain, LoopInv
<1>3. ASSUME NEW o \in Broadcasts, Schedule(o) \/ Run(o)
      PROVE  UNCHANGED <<reached[b], dead[b], task[b]>>
  <2>1. CASE o = b
    BY <1>3, <2>1 DEF Schedule
  <2>2. CASE o # b
    BY <1>3, <2>2 DEF Schedule, Run, Start, Resume, Stumble, Upset, Finish, End, Send,
                      SendFailed, Reach, Found
  <2> QED
    BY <2>1, <2>2
<1>4. CASE UNCHANGED vars
  BY <1>4 DEF vars
<1> QED
  BY <1>1, <1>2, <1>3, <1>4 DEF Next

\* No broadcast runs for ever, though clients join and leave while it runs: each
\* of its steps brings it nearer its end, and nobody else's takes it back.
THEOREM StepsRunOut ==
  Spec => [][\A b \in Broadcasts :
               /\ Run(b) => Measure(b)' < Measure(b)
               /\ task[b] # "idle" => Measure(b)' <= Measure(b)]_vars
<1>1. FeedInv /\ [Next]_vars =>
        [\A b \in Broadcasts :
           /\ Run(b) => Measure(b)' < Measure(b)
           /\ task[b] # "idle" => Measure(b)' <= Measure(b)]_vars
  <2> SUFFICES ASSUME FeedInv, [Next]_vars, NEW b \in Broadcasts
               PROVE  /\ Run(b) => Measure(b)' < Measure(b)
                      /\ task[b] # "idle" => Measure(b)' <= Measure(b)
    OBVIOUS
  <2>1. Run(b) => Measure(b)' < Measure(b)
    BY RunShortens
  <2>2. Measure(b) \in Nat
    BY UntriedFinite DEF FeedInv, TypeOK, Begun, Measure, Course
  <2>3. CASE Run(b)
    <3>1. FeedInv'
      BY <2>3, BroadcastStep
    <3>2. Cardinality(Untried(b))' \in Nat
      <4>1. Untried(b)' \subseteq Clients
        BY DEF Untried
      <4> QED
        BY <4>1, ClientsAssumption, FS_Subset, FS_CardinalityType
    <3>3. Measure(b)' \in Nat
      BY <3>1, <3>2 DEF FeedInv, TypeOK, Begun, Measure, Course
    <3> QED
      BY <2>1, <2>2, <2>3, <3>3
  <2>4. ASSUME ~Run(b), task[b] # "idle" PROVE Measure(b)' <= Measure(b)
    <3>1. /\ UNCHANGED <<reached[b], dead[b]>>
          /\ task'[b] = task[b] \/ (task[b] = "sending" /\ task'[b] = "ready")
      BY <2>4, OthersKeep
    <3>2. Untried(b)' = Untried(b)
      BY <3>1 DEF Untried
    <3>3. Cardinality(Untried(b)) \in Nat
      BY UntriedFinite
    <3> QED
      BY <2>2, <3>1, <3>2, <3>3 DEF Measure, Course
  <2> QED
    BY <2>1, <2>3, <2>4
<1> QED
  BY <1>1, FeedInvariant, PTL DEF Spec
=============================================================================
