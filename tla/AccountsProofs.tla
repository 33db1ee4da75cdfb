---------------------------- MODULE AccountsProofs ----------------------------
(* Proofs about Accounts.  A save changes only the columns its handler works *)
(* on, so a row loaded before another save undoes nothing of it; and while   *)
(* the handlers of a column do not overlap, each loaded what is stored.      *)
EXTENDS Accounts, FiniteSetTheorems, TLAPS

-----------------------------------------------------------------------------
(* The save of a row                                                       *)

\* A column that the handler left as it loaded it keeps its stored value.
LEMMA Untouched ==
  ASSUME NEW row \in Row, NEW old \in Row, NEW new \in Row
  PROVE  /\ Flush(row, old, new) \in Row
         /\ new.active = old.active => Flush(row, old, new).active = row.active
         /\ new.enabled = old.enabled => Flush(row, old, new).enabled = row.enabled
         /\ new.secret = old.secret => Flush(row, old, new).secret = row.secret
         /\ new.blob = old.blob => Flush(row, old, new).blob = row.blob
         /\ new.resolved = old.resolved =>
              Flush(row, old, new).resolved = row.resolved
BY DEF Flush, Column, Row

\* A column that the handler changed is stored; one that it set to what it had
\* loaded and what is still stored has that value too.
LEMMA Touched ==
  ASSUME NEW row \in Row, NEW old \in Row, NEW new \in Row
  PROVE  /\ new.active # old.active \/ old.active = row.active =>
              Flush(row, old, new).active = new.active
         /\ new.enabled # old.enabled \/ old.enabled = row.enabled =>
              Flush(row, old, new).enabled = new.enabled
         /\ new.secret # old.secret \/ old.secret = row.secret =>
              Flush(row, old, new).secret = new.secret
         /\ new.blob # old.blob \/ old.blob = row.blob =>
              Flush(row, old, new).blob = new.blob
         /\ new.resolved # old.resolved \/ old.resolved = row.resolved =>
              Flush(row, old, new).resolved = new.resolved
BY DEF Flush, Column, Row

-----------------------------------------------------------------------------
(* Types                                                                   *)

\* The secrets in the rows and in their loaded copies were handed out, and a
\* verification loaded one.
SecretInv ==
  /\ \A u \in Users : rows[u].secret \in issued \cup {None}
  /\ \A r \in Requests : req[r].row.secret \in issued \cup {None}
  /\ \A r \in Requests : req[r].pc = "loaded" /\ req[r].kind = "verify" =>
       req[r].row.secret # None

\* A request that has begun has a user and a handler; the later steps are a
\* login's.
RequestInv ==
  /\ \A r \in Requests : req[r].pc # "idle" =>
       req[r].user \in Users /\ req[r].kind \in Kinds
  /\ \A r \in Requests : req[r].pc \notin {"idle", "loaded", "over"} =>
       req[r].kind = "login"
  /\ \A r \in Requests : req[r].pc = "idle" => req[r] = NoRequest
  /\ \A r \in audit : req[r].pc = "over"
  /\ \A r \in learnt : req[r].pc # "idle"

TypeInv == TypeOK /\ SecretInv /\ RequestInv

\* The defaults have their types.
LEMMA Defaults == Blank \in Row /\ NotFound \in Found /\ NoRequest \in Request
<1>1. Blank \in Row /\ NotFound \in Found
  BY DEF Blank, Row, NotFound, Found
<1> QED
  BY <1>1 DEF NoRequest, Request, Steps

\* The requests after the last step of r ...
LEMMA Ends ==
  ASSUME TypeInv, NEW r \in Requests, Over(r)
  PROVE  /\ req' \in [Requests -> Request]
         /\ req'[r] = [NoRequest EXCEPT !.pc = "over", !.kind = req[r].kind,
                                        !.user = req[r].user]
         /\ req'[r].pc = "over" /\ req'[r].row = Blank
         /\ req'[r].kind = req[r].kind /\ req'[r].user = req[r].user
         /\ \A q \in Requests \ {r} : req'[q] = req[q]
<1>1. req \in [Requests -> Request]
  BY DEF TypeInv, TypeOK
<1>2. [NoRequest EXCEPT !.pc = "over", !.kind = req[r].kind, !.user = req[r].user]
        \in Request
  BY <1>1, Defaults DEF Request, NoRequest, Steps
<1> QED
  BY <1>1, <1>2, Defaults DEF Over, NoRequest

\* What Save does to the row of the request's user.
LEMMA Saved ==
  ASSUME TypeInv, NEW r \in Requests, req[r].user \in Users, NEW new \in Row,
         Save(r, new)
  PROVE  /\ rows' \in [Users -> Row]
         /\ rows'[req[r].user] = Flush(rows[req[r].user], req[r].row, new)
         /\ \A u \in Users \ {req[r].user} : rows'[u] = rows[u]
<1>1. rows \in [Users -> Row] /\ req \in [Requests -> Request]
  BY DEF TypeInv, TypeOK
<1>2. rows[req[r].user] \in Row /\ req[r].row \in Row
  BY <1>1 DEF Request
<1>3. Flush(rows[req[r].user], req[r].row, new) \in Row
  BY <1>2, Untouched
<1> QED
  BY <1>1, <1>3 DEF Save

\* The row that a commit of handler kind saves has its type and, as the loaded
\* one, a secret that was handed out.
LEMMA Committed ==
  ASSUME TypeInv, NEW r \in Requests, NEW kind \in Kinds, NEW new \in Row,
         Commit(r, kind, new), new.secret \in issued' \cup {None},
         issued \subseteq issued', issued' \subseteq Secrets,
         confirmed \subseteq confirmed', confirmed' \subseteq issued',
         forced' \subseteq Users
  PROVE  TypeInv'
<1>1. /\ At(r, "loaded") /\ req[r].kind = kind /\ Over(r) /\ Save(r, new)
      /\ audit' = audit \cup ({r} \cap {q \in Requests : kind \in AdminKinds})
      /\ UNCHANGED <<sessions, devices, engine, learnt, serial>>
  BY DEF Commit
<1>2. req[r].user \in Users
  BY <1>1 DEF TypeInv, RequestInv, At
<1>3. /\ rows' \in [Users -> Row]
      /\ rows'[req[r].user] = Flush(rows[req[r].user], req[r].row, new)
      /\ \A u \in Users \ {req[r].user} : rows'[u] = rows[u]
  BY <1>1, <1>2, Saved
<1>4. /\ req' \in [Requests -> Request]
      /\ req'[r].pc = "over" /\ req'[r].row = Blank
      /\ req'[r].kind = req[r].kind /\ req'[r].user = req[r].user
      /\ \A q \in Requests \ {r} : req'[q] = req[q]
  BY <1>1, Ends
<1>5. TypeOK'
  BY <1>1, <1>3, <1>4 DEF TypeInv, TypeOK
<1>6. rows'[req[r].user].secret \in {new.secret, rows[req[r].user].secret}
  <2>1. rows'[req[r].user].secret
          = Column(rows[req[r].user].secret, req[r].row.secret, new.secret)
    BY <1>3 DEF Flush
  <2> QED
    BY <2>1 DEF Column
<1>7. SecretInv'
  BY <1>2, <1>3, <1>4, <1>6 DEF TypeInv, SecretInv, Blank
<1>8. RequestInv'
  BY <1>1, <1>2, <1>4 DEF TypeInv, TypeOK, RequestInv, At
<1> QED
  BY <1>5, <1>7, <1>8 DEF TypeInv

\* The handlers of administrators and of enrolment keep the types.
LEMMA AdminTypes ==
  ASSUME TypeInv, NEW r \in Requests,
         \/ Deactivate(r) \/ Acknowledge(r) \/ ForceMfa(r) \/ ResetMfa(r)
         \/ \E s \in Secrets : MfaSetup(r, s)
         \/ MfaVerify(r)
  PROVE  TypeInv'
<1>1. /\ req[r].row \in Row /\ req[r].row.secret \in issued \cup {None}
      /\ At(r, "loaded") => req[r].user \in Users
      /\ At(r, "loaded") /\ req[r].kind = "verify" => req[r].row.secret \in issued
      /\ issued \subseteq Secrets /\ confirmed \subseteq issued /\ forced \subseteq Users
  BY DEF TypeInv, TypeOK, Request, SecretInv, RequestInv, At
<1>2. CASE Deactivate(r)
  <2> DEFINE new == [req[r].row EXCEPT !.active = FALSE]
  <2>1. new \in Row /\ new.secret = req[r].row.secret
    BY <1>1 DEF Row
  <2> QED
    BY <1>1, <1>2, <2>1, Committed DEF Deactivate, Kinds, AdminKinds
<1>3. CASE Acknowledge(r)
  <2> DEFINE new == [req[r].row EXCEPT !.resolved = r]
  <2>1. new \in Row /\ new.secret = req[r].row.secret
    BY <1>1 DEF Row
  <2> QED
    BY <1>1, <1>3, <2>1, Committed DEF Acknowledge, Kinds, AdminKinds
<1>4. CASE ForceMfa(r)
  <2> DEFINE new == [req[r].row EXCEPT !.enabled = TRUE]
  <2>1. new \in Row /\ new.secret = req[r].row.secret
    BY <1>1 DEF Row
  <2>2. Commit(r, "force", new) /\ forced' = forced \cup {req[r].user}
        /\ UNCHANGED <<issued, confirmed>>
    BY <1>4 DEF ForceMfa
  <2>3. forced' \subseteq Users
    BY <1>1, <2>2 DEF Commit
  <2> QED
    BY <1>1, <2>1, <2>2, <2>3, Committed DEF Kinds, AdminKinds
<1>5. CASE ResetMfa(r)
  <2> DEFINE new == [req[r].row EXCEPT !.secret = None, !.enabled = FALSE]
  <2>1. new \in Row /\ new.secret = None
    BY <1>1 DEF Row
  <2> QED
    BY <1>1, <1>5, <2>1, Committed DEF ResetMfa, Kinds, AdminKinds
<1>6. ASSUME NEW s \in Secrets, MfaSetup(r, s) PROVE TypeInv'
  <2> DEFINE new == [req[r].row EXCEPT !.secret = s]
  <2>1. new \in Row /\ new.secret = s
    BY <1>1 DEF Row
  <2> QED
    <3>1. /\ Commit(r, "setup", new) /\ issued' = issued \cup {s}
          /\ UNCHANGED <<confirmed, forced>>
      BY <1>6 DEF MfaSetup
    <3>2. issued \subseteq issued' /\ issued' \subseteq Secrets
          /\ confirmed' = confirmed /\ confirmed' \subseteq issued'
      BY <1>1, <3>1
    <3>3. "setup" \in Kinds
      BY DEF Kinds, MfaKinds
    <3> HIDE DEF new
    <3>4. forced' \subseteq Users
      BY <1>1, <3>1
    <3>5. new.secret \in issued' \cup {None}
      BY <2>1, <3>1
    <3> QED
      BY <2>1, <3>1, <3>2, <3>3, <3>4, <3>5, Committed
<1>7. CASE MfaVerify(r)
  <2> DEFINE new == [req[r].row EXCEPT !.enabled = TRUE]
  <2>1. new \in Row /\ new.secret = req[r].row.secret
    BY <1>1 DEF Row
  <2>2. Commit(r, "verify", new) /\ confirmed' = confirmed \cup {req[r].row.secret}
        /\ UNCHANGED <<issued, forced>>
    BY <1>7 DEF MfaVerify
  <2>3. confirmed' \subseteq issued'
    BY <1>1, <2>2 DEF Commit
  <2> QED
    BY <1>1, <2>1, <2>2, <2>3, Committed DEF Kinds, MfaKinds
<1> QED
  BY <1>2, <1>3, <1>4, <1>5, <1>6, <1>7

\* A step of r within the server: nothing but pc, got and found changes in it.
LEMMA Moves ==
  ASSUME TypeInv, NEW r \in Requests, NEW step \in Steps, NEW got \in SUBSET Requests,
         NEW found \in Found,
         \/ req' = [req EXCEPT ![r].pc = step]
         \/ req' = [req EXCEPT ![r].pc = step, ![r].got = got]
         \/ req' = [req EXCEPT ![r].pc = step, ![r].found = found]
  PROVE  /\ req' \in [Requests -> Request]
         /\ req'[r].pc = step /\ req'[r].row = req[r].row
         /\ req'[r].kind = req[r].kind /\ req'[r].user = req[r].user
         /\ \A q \in Requests \ {r} : req'[q] = req[q]
<1>1. req \in [Requests -> Request]
  BY DEF TypeInv, TypeOK
<1> QED
  BY <1>1 DEF Request

\* Every step of a login keeps the types.
LEMMA LoginTypes ==
  ASSUME TypeInv, NEW r \in Requests, Login(r)
  PROVE  TypeInv'
<1> DEFINE u == req[r].user
<1>1. /\ req \in [Requests -> Request] /\ engine \in [Users -> SUBSET Requests]
      /\ req[r].row \in Row /\ req[r].got \subseteq Requests /\ req[r].found \in Found
      /\ devices \in [Requests -> Nat]
  BY DEF TypeInv, TypeOK, Request
<1>2. req[r].pc # "idle" /\ req[r].pc # "over" /\ req[r].kind = "login" /\ u \in Users
  BY DEF TypeInv, RequestInv, Login, Restore, RestoreFails, Evaluate, Serialize, SaveLogin,
     FindDevice, CountDevice, At
<1> SUFFICES ASSUME r \notin audit
             PROVE  TypeInv'
  BY <1>2 DEF TypeInv, RequestInv
<1>3. CASE Restore(r) \/ RestoreFails(r)
  <2>1. /\ req' \in [Requests -> Request]
        /\ req'[r].pc = "restored" /\ req'[r].row = req[r].row
        /\ req'[r].kind = req[r].kind /\ req'[r].user = req[r].user
        /\ \A q \in Requests \ {r} : req'[q] = req[q]
    BY <1>1, <1>3, Moves DEF Restore, RestoreFails, Goto, Steps
  <2>2. engine' \in [Users -> SUBSET Requests]
    BY <1>1, <1>3 DEF Restore, RestoreFails, Restored, Row
  <2> QED
    BY <1>2, <1>3, <2>1, <2>2
       DEF TypeInv, TypeOK, SecretInv, RequestInv, Restore, RestoreFails, tables, history
<1>4. CASE Evaluate(r)
  <2>1. /\ req' \in [Requests -> Request]
        /\ req'[r].pc = "scored" /\ req'[r].row = req[r].row
        /\ req'[r].kind = req[r].kind /\ req'[r].user = req[r].user
        /\ \A q \in Requests \ {r} : req'[q] = req[q]
    BY <1>1, <1>4, Moves DEF Evaluate, Goto, Steps
  <2>2. engine' \in [Users -> SUBSET Requests]
    BY <1>1, <1>4 DEF Evaluate
  <2> QED
    BY <1>2, <1>4, <2>1, <2>2
       DEF TypeInv, TypeOK, SecretInv, RequestInv, Evaluate, tables, history
<1>5. CASE Serialize(r)
  <2>1. PICK bytes \in {engine[u], {}} :
          req' = [req EXCEPT ![r].pc = "saving", ![r].got = bytes]
    BY <1>5 DEF Serialize
  <2>2. /\ req' \in [Requests -> Request]
        /\ req'[r].pc = "saving" /\ req'[r].row = req[r].row
        /\ req'[r].kind = req[r].kind /\ req'[r].user = req[r].user
        /\ \A q \in Requests \ {r} : req'[q] = req[q]
    <3>1. bytes \in SUBSET Requests
      BY <1>1, <1>2
    <3> QED
      BY <1>1, <2>1, <3>1, Moves DEF Steps
  <2> QED
    BY <1>2, <1>5, <2>2
       DEF TypeInv, TypeOK, SecretInv, RequestInv, Serialize, tables, history
<1>6. CASE SaveLogin(r)
  <2> DEFINE new == [req[r].row EXCEPT !.blob = IF req[r].got = {} THEN @ ELSE req[r].got]
  <2>1. new \in Row /\ new.secret = req[r].row.secret
    BY <1>1 DEF Row
  <2>2. Save(r, new)
    BY <1>6 DEF SaveLogin
  <2>3. /\ rows' \in [Users -> Row]
        /\ rows'[u] = Flush(rows[u], req[r].row, new)
        /\ \A v \in Users \ {u} : rows'[v] = rows[v]
    BY <1>2, <2>1, <2>2, Saved
  <2>4. rows'[u].secret = rows[u].secret
    <3>1. rows[u] \in Row
      BY <1>2 DEF TypeInv, TypeOK
    <3> HIDE DEF new, u
    <3> QED
      BY <1>1, <2>1, <2>3, <3>1, Untouched
  <2>5. /\ req' \in [Requests -> Request]
        /\ req'[r].pc \in {"device", "over"}
        /\ req'[r].row.secret \in {req[r].row.secret, None}
        /\ req'[r].kind = req[r].kind /\ req'[r].user = req[r].user
        /\ \A q \in Requests \ {r} : req'[q] = req[q]
    <3>1. CASE Goto(r, "device")
      BY <1>1, <3>1, Moves DEF Goto, Steps
    <3>2. CASE Over(r)
      <4>1. Blank.secret = None
        BY DEF Blank
      <4> QED
        BY <3>2, <4>1, Ends
    <3> QED
      BY <1>6, <3>1, <3>2 DEF SaveLogin
  <2>6. /\ learnt' \subseteq learnt \cup {r} /\ sessions' \subseteq sessions \cup {r}
        /\ UNCHANGED <<audit, devices, engine, issued, confirmed, forced, serial>>
    BY <1>6 DEF SaveLogin
  <2>7. TypeOK'
    BY <2>3, <2>5, <2>6 DEF TypeInv, TypeOK
  <2>8. SecretInv'
    BY <1>2, <2>3, <2>4, <2>5, <2>6 DEF TypeInv, SecretInv
  <2>9. RequestInv'
    BY <1>2, <2>5, <2>6 DEF TypeInv, TypeOK, RequestInv
  <2> QED
    BY <2>7, <2>8, <2>9 DEF TypeInv
<1>7. CASE FindDevice(r)
  <2>1. PICK f \in Lookup(u) : req' = [req EXCEPT ![r].pc = "counting", ![r].found = f]
    BY <1>7 DEF FindDevice
  <2>2. f \in Found
    BY <1>1, <2>1, Defaults DEF Lookup, DeviceRows, By, Found
  <2>3. /\ req' \in [Requests -> Request]
        /\ req'[r].pc = "counting" /\ req'[r].row = req[r].row
        /\ req'[r].kind = req[r].kind /\ req'[r].user = req[r].user
        /\ \A q \in Requests \ {r} : req'[q] = req[q]
    BY <1>1, <2>1, <2>2, Moves DEF Steps
  <2> QED
    BY <1>2, <1>7, <2>3
       DEF TypeInv, TypeOK, SecretInv, RequestInv, FindDevice, tables, history
<1>8. CASE CountDevice(r)
  <2>1. /\ req' \in [Requests -> Request]
        /\ req'[r].pc = "over" /\ req'[r].row = Blank
        /\ req'[r].kind = req[r].kind /\ req'[r].user = req[r].user
        /\ \A q \in Requests \ {r} : req'[q] = req[q]
    BY <1>8, Ends DEF CountDevice
  <2>2. devices' \in [Requests -> Nat]
    <3>1. req[r].found.count \in Nat /\ devices' = Counted(r)
      BY <1>1, <1>8 DEF CountDevice, Found
    <3>2. devices' = [devices EXCEPT ![r] = 1]
          \/ devices' = [devices EXCEPT ![req[r].found.login] = req[r].found.count + 1]
      BY <3>1 DEF Counted
    <3>3. req[r].found.count + 1 \in Nat
      BY <3>1
    <3> QED
      BY <1>1, <3>2, <3>3
  <2>3. Blank.secret = None
    BY DEF Blank
  <2> QED
    BY <1>2, <1>8, <2>1, <2>2, <2>3
       DEF TypeInv, TypeOK, SecretInv, RequestInv, CountDevice, history
<1> QED
  BY <1>3, <1>4, <1>5, <1>6, <1>7, <1>8 DEF Login

\* The requests in flight after the process died and started again: none.
LEMMA Restarted ==
  ASSUME TypeInv, Restart
  PROVE  /\ req' \in [Requests -> Request]
         /\ \A r \in Requests :
              \/ req'[r] = req[r] /\ req[r].pc \in {"idle", "over"}
              \/ req'[r].pc = "over" /\ req'[r].row = Blank
                 /\ req[r].pc \notin {"idle", "over"}
                 /\ req'[r].kind = req[r].kind /\ req'[r].user = req[r].user
<1>1. req \in [Requests -> Request]
  BY DEF TypeInv, TypeOK
<1> DEFINE ended(r) == [NoRequest EXCEPT !.pc = "over", !.kind = req[r].kind,
                                         !.user = req[r].user]
<1>2. ASSUME NEW r \in Requests
      PROVE  /\ ended(r) \in Request
             /\ ended(r).pc = "over" /\ ended(r).row = Blank
             /\ ended(r).kind = req[r].kind /\ ended(r).user = req[r].user
  BY <1>1, Defaults DEF Request, NoRequest, Steps
<1>3. req' = [r \in Requests |->
                IF r \notin InFlight(req[r].user) THEN req[r] ELSE ended(r)]
  BY DEF Restart
<1>4. ASSUME NEW r \in Requests
      PROVE  r \in InFlight(req[r].user) <=> req[r].pc \notin {"idle", "over"}
  BY DEF InFlight, By
<1> HIDE DEF ended
<1> QED
  BY <1>1, <1>2, <1>3, <1>4

\* A request that begins.
LEMMA Loads ==
  ASSUME TypeInv, NEW r \in Requests, NEW u \in Users, NEW kind \in Kinds,
         Load(r, u, kind)
  PROVE  /\ req' \in [Requests -> Request]
         /\ req[r].pc = "idle" /\ req'[r].pc = "loaded" /\ req'[r].kind = kind
         /\ req'[r].user = u /\ req'[r].row = rows[u] /\ req'[r].got = {}
         /\ \A q \in Requests \ {r} : req'[q] = req[q]
         /\ Admits(kind, rows[u])
         /\ serial' \in [Users -> SUBSET Kinds]
         /\ UNCHANGED <<tables, engine, history>>
<1>1. /\ req \in [Requests -> Request] /\ rows[u] \in Row
      /\ serial \in [Users -> SUBSET Kinds]
  BY DEF TypeInv, TypeOK
<1> DEFINE begun == [NoRequest EXCEPT !.pc = "loaded", !.kind = kind, !.user = u,
                                      !.row = rows[u]]
<1>2. /\ begun \in Request /\ begun.pc = "loaded" /\ begun.kind = kind
      /\ begun.user = u /\ begun.row = rows[u] /\ begun.got = {}
  BY <1>1, Defaults DEF Request, NoRequest, Steps
<1>3. /\ req' = [req EXCEPT ![r] = begun] /\ req[r].pc = "idle" /\ Admits(kind, rows[u])
      /\ UNCHANGED <<tables, engine, history>>
  BY DEF Load, At
<1>4. serial' \in [Users -> SUBSET Kinds]
  BY <1>1 DEF Load
<1> HIDE DEF begun
<1> QED
  BY <1>1, <1>2, <1>3, <1>4

\* Every step keeps the types.
LEMMA TypeNext == TypeInv /\ [Next]_vars => TypeInv'
<1> SUFFICES ASSUME TypeInv, [Next]_vars PROVE TypeInv'
  OBVIOUS
<1>0. Blank.secret = None
  BY DEF Blank
<1>1. ASSUME NEW r \in Requests, NEW u \in Users, NEW kind \in Kinds, Load(r, u, kind)
      PROVE  TypeInv'
  <2>1. /\ req' \in [Requests -> Request]
        /\ req[r].pc = "idle" /\ req'[r].pc = "loaded" /\ req'[r].kind = kind
        /\ req'[r].user = u /\ req'[r].row = rows[u]
        /\ \A q \in Requests \ {r} : req'[q] = req[q]
        /\ Admits(kind, rows[u]) /\ serial' \in [Users -> SUBSET Kinds]
        /\ UNCHANGED <<tables, engine, history>>
    BY <1>1, Loads
  <2>2. TypeOK'
    BY <2>1 DEF TypeInv, TypeOK, tables, history
  <2>3. SecretInv'
    BY <2>1 DEF TypeInv, SecretInv, tables, history, Admits
  <2>4. RequestInv'
    BY <2>1 DEF TypeInv, TypeOK, RequestInv, tables, history
  <2> QED
    BY <2>2, <2>3, <2>4 DEF TypeInv
<1>2. ASSUME NEW r \in Requests, Fail(r) PROVE TypeInv'
  <2>1. /\ req' \in [Requests -> Request]
        /\ req'[r].pc = "over" /\ req'[r].row = Blank
        /\ req'[r].kind = req[r].kind /\ req'[r].user = req[r].user
        /\ \A q \in Requests \ {r} : req'[q] = req[q]
        /\ req[r].pc # "idle"
        /\ UNCHANGED <<tables, engine, history, serial>>
    BY <1>2, Ends DEF Fail, InFlight
  <2> QED
    BY <1>0, <2>1 DEF TypeInv, TypeOK, SecretInv, RequestInv, tables, history
<1>3. CASE Restart
  <2>1. engine' \in [Users -> SUBSET Requests] /\ UNCHANGED <<tables, history, serial>>
    BY <1>3 DEF Restart
  <2>2. TypeOK'
    BY <1>3, <2>1, Restarted DEF TypeInv, TypeOK, tables, history
  <2>3. SecretInv'
    BY <1>0, <1>3, <2>1, Restarted DEF TypeInv, SecretInv, tables, history
  <2>4. RequestInv'
    BY <1>3, <2>1, Restarted DEF TypeInv, TypeOK, RequestInv, tables, history
  <2> QED
    BY <2>2, <2>3, <2>4 DEF TypeInv
<1>4. CASE UNCHANGED vars
  BY <1>4 DEF TypeInv, TypeOK, SecretInv, RequestInv, vars, tables, history
<1> QED
  BY <1>1, <1>2, <1>3, <1>4, AdminTypes, LoginTypes DEF Next

\* The types hold at the start.
LEMMA TypeInit == Init => TypeInv
<1> SUFFICES ASSUME Init PROVE TypeInv
  OBVIOUS
<1> DEFINE enrolled(s) == [Blank EXCEPT !.enabled = TRUE, !.secret = s]
<1>1. ASSUME NEW s \in Secrets PROVE enrolled(s) \in Row /\ enrolled(s).secret = s
  BY Defaults DEF Blank, Row
<1>2. /\ rows \in [Users -> Row]
      /\ \A u \in Users : rows[u].secret \in Secrets \cup {None}
  <2>1. rows \in [Users -> {Blank} \cup {enrolled(s) : s \in Secrets}]
    BY DEF Init
  <2>2. Blank.secret = None
    BY DEF Blank
  <2> HIDE DEF enrolled
  <2> QED
    BY <1>1, <2>1, <2>2, Defaults
<1>3. issued = {rows[u].secret : u \in Users} \ {None}
  BY DEF Init
<1>4. NoRequest.pc = "idle" /\ NoRequest.row.secret = None
  BY DEF NoRequest, Blank
<1>5. TypeOK
  BY <1>2, <1>3, Defaults DEF Init, TypeOK
<1>6. SecretInv
  BY <1>2, <1>3, <1>4 DEF Init, SecretInv
<1>7. RequestInv
  BY <1>4 DEF Init, RequestInv
<1> QED
  BY <1>5, <1>6, <1>7 DEF TypeInv

\* The types hold in every reachable state.
LEMMA TypeInvariant == Spec => []TypeInv
BY TypeInit, TypeNext, PTL DEF Spec

\* Every variable has its type; what was confirmed was handed out.
THEOREM TypeCorrect == Spec => []TypeOK
<1>1. TypeInv => TypeOK
  BY DEF TypeInv
<1> QED
  BY <1>1, TypeInvariant, PTL

-----------------------------------------------------------------------------
(* What a step does to the requests, and what a save does to the tables    *)

Going(r) == req[r].pc \notin {"idle", "over"}
Same(r)  == req'[r].kind = req[r].kind /\ req'[r].user = req[r].user

Begins(r) ==
  /\ \E u \in Users, kind \in Kinds : Load(r, u, kind)
  /\ req[r].pc = "idle" /\ req'[r].pc = "loaded"
  /\ req'[r].user \in Users /\ req'[r].kind \in Kinds
  /\ req'[r].row = rows[req'[r].user] /\ Admits(req'[r].kind, req'[r].row)
  /\ rows' = rows
Proceeds(r) ==
  /\ Going(r) /\ Going(r)' /\ Same(r) /\ req'[r].row = req[r].row
Finishes(r) == Going(r) /\ req'[r].pc = "over" /\ Same(r)

\* Each request begins, proceeds, ends or stays.
Shape == \A r \in Requests :
  req'[r] = req[r] \/ Begins(r) \/ Proceeds(r) \/ Finishes(r)

\* The commit of r, which saves the row new.
Saving(r, new) ==
  LET old == req[r].row  k == req[r].kind  u == req[r].user IN
  /\ req[r].pc = IF k = "login" THEN "saving" ELSE "loaded"
  /\ u \in Users /\ Save(r, new)
  /\ new.active = IF k = "deactivate" THEN FALSE ELSE old.active
  /\ new.resolved = IF k = "acknowledge" THEN r ELSE old.resolved
  /\ new.enabled = IF k \in {"force", "verify"} THEN TRUE
                   ELSE IF k = "reset" THEN FALSE ELSE old.enabled
  /\ IF k = "setup" THEN new.secret \in Secrets
     ELSE new.secret = IF k = "reset" THEN None ELSE old.secret
  /\ new.blob = IF k = "login" /\ req[r].got # {} THEN req[r].got ELSE old.blob
  /\ audit' = IF k \in AdminKinds THEN audit \cup {r} ELSE audit
  /\ forced' = IF k = "force" THEN forced \cup {u}
               ELSE IF k = "reset" THEN forced \ {u} ELSE forced
  /\ confirmed' = IF k = "verify" THEN confirmed \cup {old.secret} ELSE confirmed
  /\ learnt' = IF k = "login" /\ req[r].got # {} THEN learnt \cup {r} ELSE learnt
  /\ engine' = engine /\ serial' = serial
  /\ req'[r].pc \in {"device", "over"} /\ Same(r)
  /\ \A q \in Requests \ {r} : req'[q] = req[q]

Quiet == UNCHANGED <<rows, audit, forced, confirmed>> /\ learnt' \subseteq learnt

\* Commit ends as Saving says.
LEMMA CommitSaves ==
  ASSUME TypeInv, NEW r \in Requests, NEW kind \in Kinds, NEW new, Commit(r, kind, new)
  PROVE  /\ req[r].pc = "loaded" /\ req[r].kind = kind /\ req[r].user \in Users
         /\ Save(r, new)
         /\ audit' = IF kind \in AdminKinds THEN audit \cup {r} ELSE audit
         /\ learnt' = learnt /\ engine' = engine /\ serial' = serial
         /\ req'[r].pc = "over" /\ Same(r)
         /\ \A q \in Requests \ {r} : req'[q] = req[q]
<1>1. /\ req[r].pc = "loaded" /\ req[r].kind = kind /\ Save(r, new) /\ Over(r)
      /\ audit' = audit \cup ({r} \cap {q \in Requests : kind \in AdminKinds})
      /\ learnt' = learnt /\ engine' = engine /\ serial' = serial
  BY DEF Commit, At
<1>2. audit' = IF kind \in AdminKinds THEN audit \cup {r} ELSE audit
  <2>1. CASE kind \in AdminKinds
    <3>1. {r} \cap {q \in Requests : kind \in AdminKinds} = {r}
      BY <2>1
    <3> QED
      BY <1>1, <2>1, <3>1
  <2>2. CASE kind \notin AdminKinds
    BY <1>1, <2>2
  <2> QED
    BY <2>1, <2>2
<1>3. req[r].user \in Users
  BY <1>1 DEF TypeInv, RequestInv
<1>4. req'[r].pc = "over" /\ Same(r) /\ \A q \in Requests \ {r} : req'[q] = req[q]
  BY <1>1, Ends DEF Same
<1> QED
  BY <1>1, <1>2, <1>3, <1>4

\* Each of these handlers saves a row, its own request's, in one commit.
LEMMA AdminSaves ==
  ASSUME TypeInv, NEW r \in Requests,
         \/ Deactivate(r) \/ Acknowledge(r) \/ ForceMfa(r) \/ ResetMfa(r)
         \/ \E s \in Secrets : MfaSetup(r, s)
         \/ MfaVerify(r)
  PROVE  \E new \in Row : Saving(r, new)
<1>1. req[r].row \in Row
  BY DEF TypeInv, TypeOK, Request
<1> DEFINE old == req[r].row
<1>2. CASE Deactivate(r)
  <2> DEFINE new == [old EXCEPT !.active = FALSE]
  <2>1. new \in Row /\ Commit(r, "deactivate", new) /\ UNCHANGED <<issued, confirmed, forced>>
    BY <1>1, <1>2 DEF Row, Deactivate
  <2>2. /\ new.active = FALSE /\ new.enabled = old.enabled /\ new.secret = old.secret
        /\ new.blob = old.blob /\ new.resolved = old.resolved
    BY <1>1 DEF Row
  <2> HIDE DEF new
  <2>3. "deactivate" \in Kinds /\ (IF "deactivate" \in AdminKinds THEN audit \cup {r} ELSE audit) = audit \cup {r}
    BY DEF Kinds, AdminKinds, MfaKinds
  <2>4. /\ req[r].pc = "loaded" /\ req[r].kind = "deactivate" /\ req[r].user \in Users
        /\ Save(r, new) /\ audit' = audit \cup {r}
        /\ learnt' = learnt /\ engine' = engine /\ serial' = serial
        /\ req'[r].pc = "over" /\ Same(r)
        /\ \A q \in Requests \ {r} : req'[q] = req[q]
    BY <2>1, <2>3, CommitSaves
  <2>5. Saving(r, new)
    BY <2>1, <2>2, <2>3, <2>4 DEF Saving
  <2> QED
    BY <2>1, <2>5
<1>3. CASE Acknowledge(r)
  <2> DEFINE new == [old EXCEPT !.resolved = r]
  <2>1. new \in Row /\ Commit(r, "acknowledge", new) /\ UNCHANGED <<issued, confirmed, forced>>
    BY <1>1, <1>3 DEF Row, Acknowledge
  <2>2. /\ new.active = old.active /\ new.enabled = old.enabled /\ new.secret = old.secret
        /\ new.blob = old.blob /\ new.resolved = r
    BY <1>1 DEF Row
  <2> HIDE DEF new
  <2>3. "acknowledge" \in Kinds /\ (IF "acknowledge" \in AdminKinds THEN audit \cup {r} ELSE audit) = audit \cup {r}
    BY DEF Kinds, AdminKinds, MfaKinds
  <2>4. /\ req[r].pc = "loaded" /\ req[r].kind = "acknowledge" /\ req[r].user \in Users
        /\ Save(r, new) /\ audit' = audit \cup {r}
        /\ learnt' = learnt /\ engine' = engine /\ serial' = serial
        /\ req'[r].pc = "over" /\ Same(r)
        /\ \A q \in Requests \ {r} : req'[q] = req[q]
    BY <2>1, <2>3, CommitSaves
  <2>5. Saving(r, new)
    BY <2>1, <2>2, <2>3, <2>4 DEF Saving
  <2> QED
    BY <2>1, <2>5
<1>4. CASE ForceMfa(r)
  <2> DEFINE new == [old EXCEPT !.enabled = TRUE]
  <2>1. /\ new \in Row /\ Commit(r, "force", new)
        /\ forced' = forced \cup {req[r].user} /\ UNCHANGED <<issued, confirmed>>
    BY <1>1, <1>4 DEF Row, ForceMfa
  <2>2. /\ new.active = old.active /\ new.enabled = TRUE /\ new.secret = old.secret
        /\ new.blob = old.blob /\ new.resolved = old.resolved
    BY <1>1 DEF Row
  <2> HIDE DEF new
  <2>3. "force" \in Kinds /\ (IF "force" \in AdminKinds THEN audit \cup {r} ELSE audit) = audit \cup {r}
    BY DEF Kinds, AdminKinds, MfaKinds
  <2>4. /\ req[r].pc = "loaded" /\ req[r].kind = "force" /\ req[r].user \in Users
        /\ Save(r, new) /\ audit' = audit \cup {r}
        /\ learnt' = learnt /\ engine' = engine /\ serial' = serial
        /\ req'[r].pc = "over" /\ Same(r)
        /\ \A q \in Requests \ {r} : req'[q] = req[q]
    BY <2>1, <2>3, CommitSaves
  <2>5. Saving(r, new)
    BY <2>1, <2>2, <2>3, <2>4 DEF Saving
  <2> QED
    BY <2>1, <2>5
<1>5. CASE ResetMfa(r)
  <2> DEFINE new == [old EXCEPT !.secret = None, !.enabled = FALSE]
  <2>1. /\ new \in Row /\ Commit(r, "reset", new)
        /\ forced' = forced \ {req[r].user} /\ UNCHANGED <<issued, confirmed>>
    BY <1>1, <1>5 DEF Row, ResetMfa
  <2>2. /\ new.active = old.active /\ new.enabled = FALSE /\ new.secret = None
        /\ new.blob = old.blob /\ new.resolved = old.resolved
    BY <1>1 DEF Row
  <2> HIDE DEF new
  <2>3. "reset" \in Kinds /\ (IF "reset" \in AdminKinds THEN audit \cup {r} ELSE audit) = audit \cup {r}
    BY DEF Kinds, AdminKinds, MfaKinds
  <2>4. /\ req[r].pc = "loaded" /\ req[r].kind = "reset" /\ req[r].user \in Users
        /\ Save(r, new) /\ audit' = audit \cup {r}
        /\ learnt' = learnt /\ engine' = engine /\ serial' = serial
        /\ req'[r].pc = "over" /\ Same(r)
        /\ \A q \in Requests \ {r} : req'[q] = req[q]
    BY <2>1, <2>3, CommitSaves
  <2>5. Saving(r, new)
    BY <2>1, <2>2, <2>3, <2>4 DEF Saving
  <2> QED
    BY <2>1, <2>5
<1>6. ASSUME NEW s \in Secrets, MfaSetup(r, s) PROVE \E new \in Row : Saving(r, new)
  <2> DEFINE new == [old EXCEPT !.secret = s]
  <2>1. new \in Row /\ Commit(r, "setup", new) /\ UNCHANGED <<confirmed, forced>>
    BY <1>1, <1>6 DEF Row, MfaSetup
  <2>2. /\ new.active = old.active /\ new.enabled = old.enabled /\ new.secret = s
        /\ new.blob = old.blob /\ new.resolved = old.resolved
    BY <1>1 DEF Row
  <2> HIDE DEF new
  <2>3. "setup" \in Kinds /\ (IF "setup" \in AdminKinds THEN audit \cup {r} ELSE audit) = audit
    BY DEF Kinds, AdminKinds, MfaKinds
  <2>4. /\ req[r].pc = "loaded" /\ req[r].kind = "setup" /\ req[r].user \in Users
        /\ Save(r, new) /\ audit' = audit
        /\ learnt' = learnt /\ engine' = engine /\ serial' = serial
        /\ req'[r].pc = "over" /\ Same(r)
        /\ \A q \in Requests \ {r} : req'[q] = req[q]
    BY <2>1, <2>3, CommitSaves
  <2>5. Saving(r, new)
    BY <2>1, <2>2, <2>3, <2>4 DEF Saving
  <2> QED
    BY <2>1, <2>5
<1>7. CASE MfaVerify(r)
  <2> DEFINE new == [old EXCEPT !.enabled = TRUE]
  <2>1. /\ new \in Row /\ Commit(r, "verify", new)
        /\ confirmed' = confirmed \cup {old.secret} /\ UNCHANGED <<issued, forced>>
    BY <1>1, <1>7 DEF Row, MfaVerify
  <2>2. /\ new.active = old.active /\ new.enabled = TRUE /\ new.secret = old.secret
        /\ new.blob = old.blob /\ new.resolved = old.resolved
    BY <1>1 DEF Row
  <2> HIDE DEF new
  <2>3. "verify" \in Kinds /\ (IF "verify" \in AdminKinds THEN audit \cup {r} ELSE audit) = audit
    BY DEF Kinds, AdminKinds, MfaKinds
  <2>4. /\ req[r].pc = "loaded" /\ req[r].kind = "verify" /\ req[r].user \in Users
        /\ Save(r, new) /\ audit' = audit
        /\ learnt' = learnt /\ engine' = engine /\ serial' = serial
        /\ req'[r].pc = "over" /\ Same(r)
        /\ \A q \in Requests \ {r} : req'[q] = req[q]
    BY <2>1, <2>3, CommitSaves
  <2>5. Saving(r, new)
    BY <2>1, <2>2, <2>3, <2>4 DEF Saving
  <2> QED
    BY <2>1, <2>5
<1> QED
  BY <1>2, <1>3, <1>4, <1>5, <1>6, <1>7

\* A login saves a row.
LEMMA LoginSaves ==
  ASSUME TypeInv, NEW r \in Requests, SaveLogin(r)
  PROVE  \E new \in Row : Saving(r, new)
<1> DEFINE old == req[r].row
           new == [old EXCEPT !.blob = IF req[r].got = {} THEN @ ELSE req[r].got]
<1>1. old \in Row /\ req[r].got \subseteq Requests
  BY DEF TypeInv, TypeOK, Request
<1>2. /\ req[r].pc = "saving" /\ req[r].kind = "login" /\ req[r].user \in Users
  BY DEF TypeInv, RequestInv, SaveLogin, At
<1>3. /\ new \in Row
      /\ new.active = old.active /\ new.enabled = old.enabled /\ new.secret = old.secret
      /\ new.blob = (IF req[r].got = {} THEN old.blob ELSE req[r].got)
      /\ new.resolved = old.resolved
  BY <1>1 DEF Row
<1>4. /\ Save(r, new)
      /\ learnt' = learnt \cup {q \in {r} : req[r].got # {}}
      /\ UNCHANGED <<audit, devices, engine, issued, confirmed, forced, serial>>
      /\ Goto(r, "device") \/ Over(r)
  BY DEF SaveLogin
<1>5. learnt' = IF req[r].got # {} THEN learnt \cup {r} ELSE learnt
  BY <1>4
<1>6. /\ req'[r].pc \in {"device", "over"} /\ Same(r)
      /\ \A q \in Requests \ {r} : req'[q] = req[q]
  <2>1. CASE Goto(r, "device")
    BY <2>1, <1>1, Moves DEF Goto, Steps, Same, TypeInv, TypeOK, Request
  <2>2. CASE Over(r)
    BY <2>2, Ends DEF Same
  <2> QED
    BY <1>4, <2>1, <2>2
<1> HIDE DEF new
<1>7. Saving(r, new)
  BY <1>2, <1>3, <1>4, <1>5, <1>6 DEF Saving, AdminKinds
<1> QED
  BY <1>3, <1>7

\* The steps that save nothing.
LEMMA Effects ==
  ASSUME TypeInv, [Next]_vars
  PROVE  Quiet \/ \E r \in Requests : \E new \in Row : Saving(r, new)
<1>1. ASSUME NEW r \in Requests, NEW u \in Users, NEW kind \in Kinds, Load(r, u, kind)
      PROVE  Quiet
  BY <1>1 DEF Load, Quiet, tables, history
<1>2. ASSUME NEW r \in Requests,
             Restore(r) \/ RestoreFails(r) \/ Evaluate(r) \/ Serialize(r) \/ FindDevice(r) \/ CountDevice(r)
             \/ Fail(r)
      PROVE  Quiet
  BY <1>2 DEF Restore, RestoreFails, Evaluate, Serialize, FindDevice, CountDevice, Fail, Quiet,
     tables, history
<1>3. CASE Restart \/ UNCHANGED vars
  BY <1>3 DEF Restart, vars, Quiet, tables, history
<1> QED
  BY <1>1, <1>2, <1>3, AdminSaves, LoginSaves DEF Next, Login

\* Every step has one of the shapes.
LEMMA Shapes == ASSUME TypeInv, [Next]_vars PROVE Shape
<1>0. \A r \in Requests : req[r].got \in SUBSET Requests /\ req[r].found \in Found
  BY DEF TypeInv, TypeOK, Request
<1>1. ASSUME NEW r \in Requests, NEW u \in Users, NEW kind \in Kinds, Load(r, u, kind)
      PROVE  Shape
  BY <1>1, Loads DEF Shape, Begins, tables
<1>2. ASSUME NEW r \in Requests, Going(r), Over(r) PROVE Shape
  BY <1>2, Ends DEF Shape, Finishes, Same
<1>3. ASSUME NEW r \in Requests, Going(r), NEW step \in Steps \ {"idle", "over"},
             NEW got \in SUBSET Requests, NEW found \in Found,
             \/ req' = [req EXCEPT ![r].pc = step]
             \/ req' = [req EXCEPT ![r].pc = step, ![r].got = got]
             \/ req' = [req EXCEPT ![r].pc = step, ![r].found = found]
      PROVE  Shape
  BY <1>3, Moves DEF Shape, Proceeds, Going, Same
<1>4. ASSUME NEW r \in Requests,
             \/ Deactivate(r) \/ Acknowledge(r) \/ ForceMfa(r) \/ ResetMfa(r)
             \/ \E s \in Secrets : MfaSetup(r, s)
             \/ MfaVerify(r) \/ CountDevice(r) \/ Fail(r)
      PROVE  Shape
  <2>1. Going(r) /\ Over(r)
    BY <1>4 DEF Deactivate, Acknowledge, ForceMfa, ResetMfa, MfaSetup, MfaVerify, Commit,
       CountDevice, Fail, InFlight, At, Going
  <2> QED
    BY <1>2, <2>1
<1>5. ASSUME NEW r \in Requests, Restore(r) \/ RestoreFails(r) \/ Evaluate(r) PROVE Shape
  <2>1. PICK step \in {"restored", "scored"} : Going(r) /\ req' = [req EXCEPT ![r].pc = step]
    BY <1>5 DEF Restore, RestoreFails, Evaluate, At, Goto, Going
  <2> QED
    BY <1>0, <1>3, <2>1 DEF Steps
<1>6. ASSUME NEW r \in Requests, SaveLogin(r) PROVE Shape
  <2>1. Going(r) /\ (Goto(r, "device") \/ Over(r))
    BY <1>6 DEF SaveLogin, At, Going
  <2>2. CASE Goto(r, "device")
    BY <1>0, <1>3, <2>1, <2>2 DEF Goto, Steps
  <2> QED
    BY <1>2, <2>1, <2>2
<1>7. ASSUME NEW r \in Requests, Serialize(r) PROVE Shape
  <2>1. Going(r) /\ req[r].user \in Users
    BY <1>7 DEF Serialize, At, Going, TypeInv, RequestInv
  <2>2. PICK bytes \in {engine[req[r].user], {}} :
          req' = [req EXCEPT ![r].pc = "saving", ![r].got = bytes]
    BY <1>7 DEF Serialize
  <2>3. bytes \in SUBSET Requests
    BY <2>1, <2>2 DEF TypeInv, TypeOK
  <2> QED
    BY <1>0, <1>3, <2>1, <2>2, <2>3 DEF Steps
<1>8. ASSUME NEW r \in Requests, FindDevice(r) PROVE Shape
  <2>1. Going(r)
    BY <1>8 DEF FindDevice, At, Going
  <2>2. PICK f \in Lookup(req[r].user) :
          req' = [req EXCEPT ![r].pc = "counting", ![r].found = f]
    BY <1>8 DEF FindDevice
  <2>3. f \in Found
    BY <2>2, Defaults DEF Lookup, DeviceRows, By, Found, TypeInv, TypeOK
  <2> QED
    BY <1>0, <1>3, <2>1, <2>2, <2>3 DEF Steps
<1>9. CASE Restart
  BY <1>9, Restarted DEF Shape, Finishes, Going, Same
<1>10. CASE UNCHANGED vars
  BY <1>10 DEF vars, Shape
<1> QED
  BY <1>1, <1>4, <1>5, <1>6, <1>7, <1>8, <1>9, <1>10 DEF Next, Login

\* The rows seed_admin.py made, and no request yet.
LEMMA Initially ==
  ASSUME Init
  PROVE  /\ \A u \in Users :
              /\ rows[u].active /\ rows[u].resolved = None /\ rows[u].blob = {}
              /\ rows[u].enabled => rows[u].secret \in confirmed
         /\ \A r \in Requests : ~Going(r)
         /\ audit = {} /\ learnt = {} /\ forced = {}
<1> DEFINE enrolled(s) == [Blank EXCEPT !.enabled = TRUE, !.secret = s]
<1>1. ASSUME NEW s \in Secrets
      PROVE  /\ enrolled(s).active /\ enrolled(s).resolved = None /\ enrolled(s).blob = {}
             /\ enrolled(s).secret = s
  BY DEF Blank
<1>2. Blank.active /\ Blank.resolved = None /\ Blank.blob = {} /\ ~Blank.enabled
  BY DEF Blank
<1>3. /\ rows \in [Users -> {Blank} \cup {enrolled(s) : s \in Secrets}]
      /\ confirmed = {rows[u].secret : u \in Users} \ {None}
      /\ \A r \in Requests : req[r] = NoRequest
      /\ audit = {} /\ learnt = {} /\ forced = {}
  BY DEF Init
<1>4. NoRequest.pc = "idle"
  BY DEF NoRequest
<1> HIDE DEF enrolled
<1>5. ASSUME NEW u \in Users
      PROVE  /\ rows[u].active /\ rows[u].resolved = None /\ rows[u].blob = {}
             /\ rows[u].enabled => rows[u].secret \in confirmed
  <2>1. CASE rows[u] = Blank
    BY <1>2, <2>1
  <2>2. ASSUME NEW s \in Secrets, rows[u] = enrolled(s)
        PROVE  /\ rows[u].active /\ rows[u].resolved = None /\ rows[u].blob = {}
               /\ rows[u].secret \in confirmed
    BY <1>1, <1>3, <2>2, NoneAssumption
  <2> QED
    BY <1>3, <2>1, <2>2
<1> QED
  BY <1>3, <1>4, <1>5 DEF Going

\* The stored columns after a save.
LEMMA Stored ==
  ASSUME TypeInv, NEW r \in Requests, NEW new \in Row, Saving(r, new)
  PROVE  LET u == req[r].user  old == req[r].row IN
         /\ rows[u] \in Row /\ old \in Row
         /\ rows'[u].active = Column(rows[u].active, old.active, new.active)
         /\ rows'[u].enabled = Column(rows[u].enabled, old.enabled, new.enabled)
         /\ rows'[u].secret = Column(rows[u].secret, old.secret, new.secret)
         /\ rows'[u].blob = Column(rows[u].blob, old.blob, new.blob)
         /\ rows'[u].resolved = Column(rows[u].resolved, old.resolved, new.resolved)
         /\ \A v \in Users \ {u} : rows'[v] = rows[v]
<1> DEFINE u == req[r].user
<1>1. u \in Users /\ Save(r, new)
  BY DEF Saving
<1>2. rows[u] \in Row /\ req[r].row \in Row
  BY <1>1 DEF TypeInv, TypeOK, Request
<1>3. /\ rows'[u] = Flush(rows[u], req[r].row, new)
      /\ \A v \in Users \ {u} : rows'[v] = rows[v]
  BY <1>1, Saved
<1> QED
  BY <1>1, <1>2, <1>3 DEF Flush

-----------------------------------------------------------------------------
(* Deactivation                                                            *)

\* A row loaded inactive is still inactive.
ActiveInv ==
  /\ InactiveAudited
  /\ \A r \in Requests : Going(r) /\ ~req[r].row.active =>
       ~rows[req[r].user].active

\* Every step keeps ActiveInv.
LEMMA ActiveNext == TypeInv /\ ActiveInv /\ [Next]_vars => ActiveInv'
<1> SUFFICES ASSUME TypeInv, ActiveInv, [Next]_vars PROVE ActiveInv'
  OBVIOUS
<1>1. /\ rows \in [Users -> Row] /\ req \in [Requests -> Request] /\ audit \subseteq Requests
      /\ \A r \in audit : req[r].pc = "over"
      /\ \A r \in Requests : Going(r) => req[r].user \in Users
  BY DEF TypeInv, TypeOK, RequestInv, Going
<1>2. Shape
  BY Shapes
<1>3. \A r \in audit : req'[r] = req[r]
  BY <1>1, <1>2 DEF Shape, Begins, Proceeds, Finishes, Going
<1>4. CASE Quiet
  <2>1. InactiveAudited'
    BY <1>1, <1>3, <1>4 DEF Quiet, ActiveInv, InactiveAudited, By
  <2> QED
    BY <1>1, <1>2, <1>4, <2>1
       DEF Quiet, ActiveInv, Shape, Begins, Proceeds, Finishes, Going, Same
<1>5. ASSUME NEW r \in Requests, NEW new \in Row, Saving(r, new)
      PROVE  ActiveInv'
  <2> DEFINE u == req[r].user
  <2>1. /\ u \in Users /\ Going(r) /\ req'[r].user = u /\ req'[r].kind = req[r].kind
        /\ new.active = IF req[r].kind = "deactivate" THEN FALSE ELSE req[r].row.active
        /\ audit' = IF req[r].kind \in AdminKinds THEN audit \cup {r} ELSE audit
    BY <1>5 DEF Saving, Going, Same
  <2>2. /\ rows'[u].active = Column(rows[u].active, req[r].row.active, new.active)
        /\ \A v \in Users \ {u} : rows'[v] = rows[v]
        /\ req[r].row.active \in BOOLEAN
    BY <1>5, Stored DEF Row
  <2>3. ~req[r].row.active => ~rows[u].active
    BY <2>1 DEF ActiveInv
  <2>4. rows'[u].active = IF req[r].kind = "deactivate" THEN FALSE ELSE rows[u].active
    <3>1. CASE req[r].kind = "deactivate" /\ req[r].row.active
      BY <2>1, <2>2, <3>1 DEF Column
    <3>2. CASE req[r].kind = "deactivate" /\ ~req[r].row.active
      <4>1. rows[u].active = FALSE
        BY <1>1, <2>1, <2>3, <3>2 DEF Row
      <4> QED
        BY <2>1, <2>2, <3>2, <4>1 DEF Column
    <3>3. CASE req[r].kind # "deactivate"
      BY <2>1, <2>2, <3>3 DEF Column
    <3> QED
      BY <2>2, <3>1, <3>2, <3>3
  <2>5. "deactivate" \in AdminKinds
    BY DEF AdminKinds
  <2>6. InactiveAudited'
    <3> SUFFICES ASSUME NEW v \in Users
                 PROVE  ~rows'[v].active <=>
                          \E q \in audit' : req'[q].user = v /\ req'[q].kind = "deactivate"
      BY DEF InactiveAudited, By
    <3>1. ~rows[v].active <=>
            \E q \in audit : req[q].user = v /\ req[q].kind = "deactivate"
      BY DEF ActiveInv, InactiveAudited, By
    <3> QED
      BY <1>3, <2>1, <2>2, <2>4, <2>5, <3>1
  <2>7. \A v \in Users : ~rows[v].active => ~rows'[v].active
    BY <2>2, <2>4
  <2> QED
    BY <1>1, <1>2, <2>6, <2>7
       DEF ActiveInv, Shape, Begins, Proceeds, Finishes, Going, Same
<1> QED
  BY <1>4, <1>5, Effects

\* ActiveInv holds at the start.
LEMMA ActiveInit == Init => ActiveInv
BY Initially DEF ActiveInv, InactiveAudited, By

\* An account is inactive exactly when its deactivation is audited.
THEOREM DeactivationStands == Spec => []InactiveAudited
<1>1. ActiveInv => InactiveAudited
  BY DEF ActiveInv
<1> QED
  BY <1>1, ActiveInit, ActiveNext, TypeInvariant, PTL DEF Spec

-----------------------------------------------------------------------------
(* Requests that do not overlap                                            *)

\* Of two rivals in flight neither kind is serial.
SerialInv ==
  \A r, q \in Requests :
    /\ r # q /\ Going(r) /\ Going(q) /\ req[r].user = req[q].user
    /\ req[q].kind \in Rivals(req[r].kind)
    => req[r].kind \notin serial[req[r].user]

\* What was serial later was serial before.
LEMMA SerialShrinks ==
  ASSUME TypeInv, [Next]_vars
  PROVE  \A u \in Users : serial'[u] \subseteq serial[u]
<1>1. serial \in [Users -> SUBSET Kinds]
  BY DEF TypeInv, TypeOK
<1>2. ASSUME NEW r \in Requests, NEW u \in Users, NEW kind \in Kinds, Load(r, u, kind)
      PROVE  \A v \in Users : serial'[v] \subseteq serial[v]
  BY <1>1, <1>2 DEF Load
<1>3. CASE serial' = serial
  BY <1>3
<1> QED
  BY <1>2, <1>3 DEF Next, Deactivate, Acknowledge, ForceMfa, ResetMfa, MfaSetup, MfaVerify,
     Commit, Login, Restore, RestoreFails, Evaluate, Serialize, SaveLogin, FindDevice, CountDevice,
     Fail, Restart, vars

\* Rivalry splits the kinds of requests into classes.
LEMMA RivalsSymmetric ==
  ASSUME NEW k \in Kinds, NEW l \in Kinds, l \in Rivals(k)
  PROVE  k \in Rivals(k) /\ k \in Rivals(l) /\ Rivals(l) = Rivals(k)
BY DEF Rivals

\* Every step keeps SerialInv.
LEMMA SerialNext == TypeInv /\ SerialInv /\ [Next]_vars => SerialInv'
<1> SUFFICES ASSUME TypeInv, SerialInv, [Next]_vars PROVE SerialInv'
  OBVIOUS
<1>1. \A r \in Requests : Going(r) => req[r].user \in Users /\ req[r].kind \in Kinds
  BY DEF TypeInv, RequestInv, Going
<1>2. \A u \in Users : serial'[u] \subseteq serial[u]
  BY SerialShrinks
<1>3. ASSUME NEW r \in Requests, NEW u \in Users, NEW kind \in Kinds, Load(r, u, kind)
      PROVE  SerialInv'
  <2>1. /\ req[r].pc = "idle" /\ req'[r].pc = "loaded" /\ req'[r].kind = kind
        /\ req'[r].user = u
        /\ \A q \in Requests \ {r} : req'[q] = req[q]
    BY <1>3, Loads
  <2>2. ASSUME NEW q \in Requests \ {r}, Going(q), req[q].user = u,
               req[q].kind \in Rivals(kind)
        PROVE  serial'[u] \cap Rivals(kind) = {}
    <3>1. q \in InFlight(u)
      BY <2>2 DEF InFlight, By, Going
    <3>2. serial' = [serial EXCEPT ![u] = @ \ Rivals(kind)]
      BY <1>3, <2>2, <3>1 DEF Load
    <3> QED
      BY <3>2 DEF TypeInv, TypeOK
  <2> SUFFICES ASSUME NEW p \in Requests, NEW q \in Requests, p # q, Going(p)', Going(q)',
                      req'[p].user = req'[q].user, req'[q].kind \in Rivals(req'[p].kind)
               PROVE  req'[p].kind \notin serial'[req'[p].user]
    BY DEF SerialInv
  <2>3. CASE p = r
    <3>1. Going(q) /\ req[q].user = u /\ req[q].kind \in Rivals(kind) /\ req[q].kind \in Kinds
      BY <1>1, <2>1, <2>3 DEF Going
    <3>2. kind \in Rivals(kind)
      BY <3>1, RivalsSymmetric
    <3> QED
      BY <2>1, <2>2, <2>3, <3>1, <3>2
  <2>4. CASE q = r
    <3>1. Going(p) /\ req[p].user = u /\ kind \in Rivals(req[p].kind) /\ req[p].kind \in Kinds
      BY <1>1, <2>1, <2>4 DEF Going
    <3>2. req[p].kind \in Rivals(kind)
      BY <3>1, RivalsSymmetric
    <3> QED
      BY <2>1, <2>2, <2>4, <3>1, <3>2
  <2>5. CASE p # r /\ q # r
    BY <1>1, <1>2, <2>1, <2>5 DEF SerialInv, Going
  <2> QED
    BY <2>3, <2>4, <2>5
<1>4. CASE ~\E r \in Requests, u \in Users, kind \in Kinds : Load(r, u, kind)
  <2>1. \A r \in Requests : Going(r)' => Going(r) /\ Same(r)
    <3>1. \A r \in Requests : ~Begins(r)
      BY <1>4 DEF Begins
    <3> QED
      BY <3>1, Shapes DEF Shape, Proceeds, Finishes, Going, Same
  <2> QED
    BY <1>1, <1>2, <2>1 DEF SerialInv, Same
<1> QED
  BY <1>3, <1>4

\* SerialInv holds at the start.
LEMMA SerialInit == Init => SerialInv
BY Initially DEF SerialInv

-----------------------------------------------------------------------------
(* Acknowledgement                                                         *)

Acks(u) == {r \in audit : req[r].user = u /\ req[r].kind = "acknowledge"}

\* Who acknowledges loaded the alert unresolved; when serial, it still is.
AckInv ==
  \A u \in Users :
    /\ IF Acks(u) = {} THEN rows[u].resolved = None ELSE rows[u].resolved \in Acks(u)
    /\ "acknowledge" \in serial[u] => \A r, q \in Acks(u) : r = q
    /\ \A r \in Requests :
         Going(r) /\ req[r].user = u /\ req[r].kind = "acknowledge" =>
           /\ req[r].row.resolved = None
           /\ "acknowledge" \in serial[u] => Acks(u) = {}

\* Every step keeps AckInv.
LEMMA AckNext == TypeInv /\ SerialInv /\ AckInv /\ [Next]_vars => AckInv'
<1> SUFFICES ASSUME TypeInv, SerialInv, AckInv, [Next]_vars PROVE AckInv'
  OBVIOUS
<1>1. /\ audit \subseteq Requests
      /\ \A r \in audit : req[r].pc = "over"
      /\ \A r \in Requests : Going(r) => req[r].user \in Users
  BY DEF TypeInv, TypeOK, RequestInv, Going
<1>2. Shape /\ \A u \in Users : serial'[u] \subseteq serial[u]
  BY Shapes, SerialShrinks
<1>3. \A r \in audit : req'[r] = req[r]
  BY <1>1, <1>2 DEF Shape, Begins, Proceeds, Finishes, Going
<1>4. CASE Quiet
  <2>1. \A u \in Users : Acks(u)' = Acks(u) /\ rows'[u] = rows[u]
    BY <1>3, <1>4 DEF Quiet, Acks
  <2> SUFFICES ASSUME NEW u \in Users, NEW r \in Requests, Going(r)', req'[r].user = u,
                      req'[r].kind = "acknowledge"
               PROVE  /\ req'[r].row.resolved = None
                      /\ "acknowledge" \in serial'[u] => Acks(u) = {}
    BY <1>2, <2>1 DEF AckInv
  <2>2. CASE Begins(r)
    <3>1. req'[r].row = rows[u] /\ rows[u].resolved = None
      BY <2>2 DEF Begins, Admits
    <3>2. Acks(u) = {}
      BY <1>1, <3>1, NoneAssumption DEF AckInv, Acks
    <3> QED
      BY <3>1, <3>2
  <2>3. CASE req'[r] = req[r] \/ Proceeds(r)
    BY <1>2, <2>3 DEF AckInv, Proceeds, Going, Same
  <2> QED
    BY <1>2, <2>2, <2>3 DEF Shape, Finishes, Going
<1>5. ASSUME NEW r \in Requests, NEW new \in Row, Saving(r, new)
      PROVE  AckInv'
  <2> DEFINE u == req[r].user
  <2>1. /\ u \in Users /\ Going(r) /\ req'[r].user = u /\ req'[r].kind = req[r].kind
        /\ new.resolved = IF req[r].kind = "acknowledge" THEN r ELSE req[r].row.resolved
        /\ audit' = IF req[r].kind \in AdminKinds THEN audit \cup {r} ELSE audit
        /\ req'[r].pc \in {"device", "over"}
        /\ \A q \in Requests \ {r} : req'[q] = req[q]
        /\ serial' = serial
    BY <1>5 DEF Saving, Going, Same
  <2>2. /\ rows'[u].resolved = Column(rows[u].resolved, req[r].row.resolved, new.resolved)
        /\ \A v \in Users \ {u} : rows'[v] = rows[v]
    BY <1>5, Stored
  <2>3. \A v \in Users \ {u} : Acks(v)' = Acks(v)
    BY <1>3, <2>1 DEF Acks
  <2>4. CASE req[r].kind = "acknowledge"
    <3>1. Acks(u)' = Acks(u) \cup {r}
      BY <1>3, <2>1, <2>4 DEF Acks, AdminKinds
    <3>2. req[r].row.resolved = None /\ ("acknowledge" \in serial[u] => Acks(u) = {})
      BY <2>1, <2>4 DEF AckInv
    <3>3. rows'[u].resolved = r
      BY <2>1, <2>2, <2>4, <3>2, NoneAssumption DEF Column
    <3>4. req'[r].pc = "over"
      <4>1. TypeInv'
        BY TypeNext
      <4> QED
        BY <2>1, <2>4, <4>1 DEF TypeInv, RequestInv
    <3>5. ASSUME NEW q \in Requests, Going(q)', req'[q].user = u,
                 req'[q].kind = "acknowledge"
          PROVE  req'[q].row.resolved = None /\ "acknowledge" \notin serial[u]
      <4>1. q # r /\ req'[q] = req[q]
        BY <2>1, <3>4, <3>5 DEF Going
      <4>2. "acknowledge" \in Rivals("acknowledge")
        BY DEF Rivals, MfaKinds
      <4> QED
        BY <2>1, <2>4, <3>5, <4>1, <4>2 DEF AckInv, SerialInv, Going
    <3>6. ASSUME NEW v \in Users \ {u}, NEW q \in Requests, Going(q)', req'[q].user = v,
                 req'[q].kind = "acknowledge"
          PROVE  Going(q) /\ req'[q] = req[q]
      BY <2>1, <3>6 DEF Going
    <3>7. r \in Acks(u)' /\ ("acknowledge" \in serial[u] => Acks(u)' = {r})
      BY <3>1, <3>2
    <3> QED
      BY <2>1, <2>2, <2>3, <3>3, <3>5, <3>6, <3>7 DEF AckInv
  <2>5. CASE req[r].kind # "acknowledge"
    <3>1. \A v \in Users : Acks(v)' = Acks(v)
      BY <1>3, <2>1, <2>5 DEF Acks
    <3>2. \A v \in Users : rows'[v].resolved = rows[v].resolved
      BY <2>1, <2>2, <2>5 DEF Column
    <3>3. ASSUME NEW q \in Requests, Going(q)', req'[q].kind = "acknowledge"
          PROVE  Going(q) /\ req'[q] = req[q]
      BY <2>1, <2>5, <3>3 DEF Going
    <3> QED
      BY <2>1, <3>1, <3>2, <3>3 DEF AckInv
  <2> QED
    BY <2>4, <2>5
<1> QED
  BY <1>4, <1>5, Effects

\* AckInv holds at the start.
LEMMA AckInit == Init => AckInv
BY Initially DEF AckInv, Acks

\* The administrator an alert names has an audit row for it, and there is one
\* such row unless two acknowledgements overlapped.
THEOREM AcknowledgedOnce == Spec => []AcknowledgedAudited
<1>1. TypeInv /\ AckInv => AcknowledgedAudited
  <2> SUFFICES ASSUME TypeInv, AckInv, NEW u \in Users
               PROVE  LET acks == {r \in By(u, audit) : req[r].kind = "acknowledge"} IN
                      /\ acks # {} => rows[u].resolved \in acks
                      /\ "acknowledge" \in serial[u] => \A r, q \in acks : r = q
    BY DEF AcknowledgedAudited
  <2>1. {r \in By(u, audit) : req[r].kind = "acknowledge"} = Acks(u)
    BY DEF By, Acks
  <2> QED
    BY <2>1 DEF AckInv
<1>2. Spec => []SerialInv
  BY SerialInit, SerialNext, TypeInvariant, PTL DEF Spec
<1> QED
  BY <1>1, <1>2, AckInit, AckNext, TypeInvariant, PTL DEF Spec

-----------------------------------------------------------------------------
(* Enrolment                                                               *)

\* Of MFA requests that do not overlap each has loaded what is stored.
MfaInv ==
  \A u \in Users : MfaKinds \subseteq serial[u] =>
    /\ u \notin forced /\ rows[u].enabled => rows[u].secret \in confirmed
    /\ \A r \in Requests :
         Going(r) /\ req[r].user = u /\ req[r].kind \in MfaKinds =>
           /\ req[r].row.enabled = rows[u].enabled
           /\ req[r].row.secret = rows[u].secret
           /\ req[r].kind = "setup" =>
                ~(req[r].row.enabled /\ req[r].row.secret # None)

\* Every step keeps MfaInv.
LEMMA MfaNext == TypeInv /\ SerialInv /\ MfaInv /\ [Next]_vars => MfaInv'
<1> SUFFICES ASSUME TypeInv, SerialInv, MfaInv, [Next]_vars PROVE MfaInv'
  OBVIOUS
<1>1. \A r \in Requests : Going(r) => req[r].user \in Users
  BY DEF TypeInv, RequestInv, Going
<1>2. Shape /\ \A u \in Users : serial'[u] \subseteq serial[u]
  BY Shapes, SerialShrinks
<1>3. TypeInv'
  BY TypeNext
<1>4. CASE Quiet
  <2> SUFFICES ASSUME NEW u \in Users, MfaKinds \subseteq serial'[u]
               PROVE  /\ u \notin forced /\ rows[u].enabled => rows[u].secret \in confirmed
                      /\ \A r \in Requests :
                           Going(r)' /\ req'[r].user = u /\ req'[r].kind \in MfaKinds =>
                             /\ req'[r].row.enabled = rows[u].enabled
                             /\ req'[r].row.secret = rows[u].secret
                             /\ req'[r].kind = "setup" =>
                                  ~(req'[r].row.enabled /\ req'[r].row.secret # None)
    BY <1>4 DEF MfaInv, Quiet
  <2>1. MfaKinds \subseteq serial[u]
    BY <1>2
  <2> SUFFICES ASSUME NEW r \in Requests, Going(r)', req'[r].user = u,
                      req'[r].kind \in MfaKinds
               PROVE  /\ req'[r].row.enabled = rows[u].enabled
                      /\ req'[r].row.secret = rows[u].secret
                      /\ req'[r].kind = "setup" =>
                           ~(req'[r].row.enabled /\ req'[r].row.secret # None)
    BY <2>1 DEF MfaInv
  <2>2. CASE Begins(r)
    BY <2>2 DEF Begins, Admits
  <2>3. CASE req'[r] = req[r] \/ Proceeds(r)
    BY <2>1, <2>3 DEF MfaInv, Proceeds, Going, Same
  <2> QED
    BY <1>2, <2>2, <2>3 DEF Shape, Finishes, Going
<1>5. ASSUME NEW r \in Requests, NEW new \in Row, Saving(r, new)
      PROVE  MfaInv'
  <2> DEFINE u == req[r].user
             old == req[r].row
             k == req[r].kind
  <2>1. /\ u \in Users /\ Going(r) /\ req'[r].user = u /\ req'[r].kind = k
        /\ new.enabled = IF k \in {"force", "verify"} THEN TRUE
                         ELSE IF k = "reset" THEN FALSE ELSE old.enabled
        /\ IF k = "setup" THEN new.secret \in Secrets
           ELSE new.secret = IF k = "reset" THEN None ELSE old.secret
        /\ forced' = IF k = "force" THEN forced \cup {u}
                     ELSE IF k = "reset" THEN forced \ {u} ELSE forced
        /\ confirmed' = IF k = "verify" THEN confirmed \cup {old.secret} ELSE confirmed
        /\ req'[r].pc \in {"device", "over"}
        /\ \A q \in Requests \ {r} : req'[q] = req[q]
        /\ serial' = serial
    BY <1>5 DEF Saving, Going, Same
  <2>2. /\ rows'[u].enabled = Column(rows[u].enabled, old.enabled, new.enabled)
        /\ rows'[u].secret = Column(rows[u].secret, old.secret, new.secret)
        /\ \A v \in Users \ {u} : rows'[v] = rows[v]
        /\ rows[u] \in Row /\ old \in Row
    BY <1>5, Stored
  <2>3. confirmed \subseteq Secrets /\ confirmed \subseteq confirmed'
    BY <2>1 DEF TypeInv, TypeOK
  <2>4. CASE k \notin MfaKinds
    <3>1. /\ \A v \in Users : rows'[v].enabled = rows[v].enabled /\ rows'[v].secret = rows[v].secret
          /\ forced' = forced /\ confirmed' = confirmed
      BY <2>1, <2>2, <2>4 DEF Column, MfaKinds
    <3>2. ASSUME NEW q \in Requests, Going(q)', req'[q].kind \in MfaKinds
          PROVE  Going(q) /\ req'[q] = req[q]
      BY <2>1, <2>4, <3>2 DEF Going
    <3> QED
      BY <2>1, <3>1, <3>2 DEF MfaInv
  <2>5. CASE k \in MfaKinds
    <3>1. req'[r].pc = "over"
      BY <1>3, <2>1, <2>5 DEF TypeInv, RequestInv, MfaKinds
    <3>2. ASSUME NEW q \in Requests, Going(q)', req'[q].kind \in MfaKinds, req'[q].user = u,
                 MfaKinds \subseteq serial[u]
          PROVE  FALSE
      <4>1. q # r /\ req'[q] = req[q]
        BY <2>1, <3>1, <3>2 DEF Going
      <4>2. req[q].kind \in Rivals(k)
        BY <2>5, <3>2, <4>1 DEF Rivals
      <4> QED
        BY <2>1, <2>5, <3>2, <4>1, <4>2 DEF SerialInv, Going
    <3>3. ASSUME NEW v \in Users \ {u}, NEW q \in Requests, Going(q)', req'[q].user = v
          PROVE  Going(q) /\ req'[q] = req[q]
      BY <2>1, <3>3 DEF Going
    <3>4. ASSUME MfaKinds \subseteq serial[u], u \notin forced', rows'[u].enabled
          PROVE  rows'[u].secret \in confirmed'
      <4>1. /\ old.enabled = rows[u].enabled /\ old.secret = rows[u].secret
            /\ k = "setup" => ~(old.enabled /\ old.secret # None)
            /\ u \notin forced /\ rows[u].enabled => rows[u].secret \in confirmed
        BY <2>1, <2>5, <3>4 DEF MfaInv
      <4>2. rows'[u].enabled = new.enabled /\ rows'[u].secret = new.secret
        BY <2>2, <4>1 DEF Column
      <4>3. CASE k = "setup"
        <5>1. old.enabled /\ u \notin forced
          BY <2>1, <3>4, <4>2, <4>3
        <5>2. old.secret \in Secrets
          BY <2>3, <4>1, <5>1
        <5> QED
          BY <4>1, <4>3, <5>1, <5>2, NoneAssumption
      <4>4. CASE k = "verify"
        BY <2>1, <4>2, <4>4
      <4>5. CASE k = "force" \/ k = "reset"
        BY <2>1, <3>4, <4>2, <4>5
      <4> QED
        BY <2>5, <4>3, <4>4, <4>5 DEF MfaKinds
    <3>5. \A v \in Users \ {u} : v \in forced' <=> v \in forced
      BY <2>1
    <3> SUFFICES ASSUME NEW v \in Users, MfaKinds \subseteq serial[v]
                 PROVE  /\ v \notin forced' /\ rows'[v].enabled => rows'[v].secret \in confirmed'
                        /\ \A q \in Requests :
                             Going(q)' /\ req'[q].user = v /\ req'[q].kind \in MfaKinds =>
                               /\ req'[q].row.enabled = rows'[v].enabled
                               /\ req'[q].row.secret = rows'[v].secret
                               /\ req'[q].kind = "setup" =>
                                    ~(req'[q].row.enabled /\ req'[q].row.secret # None)
      BY <2>1 DEF MfaInv
    <3>6. CASE v = u
      BY <3>2, <3>4, <3>6
    <3>7. CASE v # u
      <4>1. v \in Users \ {u} /\ rows'[v] = rows[v]
        BY <2>2, <3>7
      <4>2. v \notin forced' /\ rows'[v].enabled => rows'[v].secret \in confirmed'
        BY <2>3, <3>5, <4>1 DEF MfaInv
      <4> QED
        BY <3>3, <4>1, <4>2 DEF MfaInv
    <3> QED
      BY <3>6, <3>7
  <2> QED
    BY <2>4, <2>5
<1> QED
  BY <1>4, <1>5, Effects

\* MfaInv holds at the start.
LEMMA MfaInit == Init => MfaInv
BY Initially DEF MfaInv

\* While the MFA requests to a user do not overlap, MFA is enabled only with a
\* confirmed secret, unless it was forced.
THEOREM SerialEnrolmentConfirmed == Spec => []SerialEnrolment
<1>1. TypeInv /\ MfaInv => SerialEnrolment
  BY DEF MfaInv, SerialEnrolment
<1>2. Spec => []SerialInv
  BY SerialInit, SerialNext, TypeInvariant, PTL DEF Spec
<1> QED
  BY <1>1, <1>2, MfaInit, MfaNext, TypeInvariant, PTL DEF Spec

-----------------------------------------------------------------------------
(* The behavioural profile                                                 *)

\* What a login does to the engine's profile of its user.
Rewrites(r) ==
  \/ /\ req[r].pc = "loaded" /\ req'[r].pc = "restored"
     /\ engine' = [engine EXCEPT ![req[r].user] = Restored(req[r].row, @)]
  \/ /\ req[r].pc = "loaded" /\ req'[r].pc = "restored" /\ engine' = engine
     /\ \A q \in learnt' : req[q].user = req[r].user => q \in engine[req[r].user]
  \/ /\ req[r].pc = "restored" /\ req'[r].pc = "scored"
     /\ engine' = [engine EXCEPT ![req[r].user] = @ \cup {r}]
  \/ /\ req[r].pc = "scored" /\ req'[r].pc = "saving"
     /\ req'[r].got \in {engine[req[r].user], {}} /\ engine' = engine

\* A login that does not overlap another of its user loaded the stored profile,
\* and hands back the logins learnt and itself.
Owed(u) == {r \in learnt : req[r].user = u}
ProfileInv ==
  \A u \in Users : "login" \in serial[u] =>
    /\ Owed(u) \subseteq rows[u].blob
    /\ \A r \in Requests : Going(r) /\ req[r].user = u /\ req[r].kind = "login" =>
         /\ req[r].pc \in {"loaded", "restored", "scored", "saving"} =>
              req[r].row.blob = rows[u].blob
         /\ req[r].pc \in {"restored", "scored"} => Owed(u) \subseteq engine[u]
         /\ req[r].pc = "scored" => r \in engine[u]
         /\ req[r].pc = "saving" =>
              req[r].got = {} \/ Owed(u) \cup {r} \subseteq req[r].got

\* The engine changes only in a login's steps; a login's later steps leave
\* the profile alone.
LEMMA Engine ==
  ASSUME TypeInv, [Next]_vars
  PROVE  \/ \E r \in Requests :
              /\ Rewrites(r) /\ Quiet /\ Proceeds(r) /\ req[r].kind = "login"
              /\ \A q \in Requests \ {r} : req'[q] = req[q]
         \/ /\ engine' = engine
            /\ \A r \in Requests : Proceeds(r) =>
                 req'[r] = req[r] \/ req'[r].pc \in {"device", "counting"}
         \/ \A r \in Requests : ~Going(r)' /\ Quiet
<1>0. /\ \A r \in Requests : req[r] \in Request
      /\ \A r \in Requests : Going(r) => req[r].user \in Users
      /\ \A u \in Users : engine[u] \in SUBSET Requests
      /\ \A r \in Requests : req[r].pc \notin {"idle", "loaded", "over"} => req[r].kind = "login"
  BY DEF TypeInv, TypeOK, RequestInv, Going
<1>1. ASSUME NEW r \in Requests, NEW step \in {"restored", "scored", "device"},
             Going(r), Goto(r, step)
      PROVE  Proceeds(r) /\ req'[r].pc = step /\ \A q \in Requests \ {r} : req'[q] = req[q]
  <2>1. req' = [req EXCEPT ![r].pc = step] /\ step \in Steps
        /\ req[r].got \in SUBSET Requests /\ req[r].found \in Found
    BY <1>0, <1>1 DEF Goto, Steps, Request
  <2> QED
    BY <1>1, <2>1, Moves DEF Proceeds, Going, Same
<1>2. ASSUME NEW r \in Requests, Restore(r) \/ RestoreFails(r) \/ Evaluate(r)
      PROVE  /\ Rewrites(r) /\ Quiet /\ Proceeds(r) /\ req[r].kind = "login"
             /\ \A q \in Requests \ {r} : req'[q] = req[q]
  <2>1. CASE Restore(r) \/ Evaluate(r)
    BY <1>0, <1>1, <2>1 DEF Restore, Evaluate, Rewrites, At, Going, Quiet, tables, history
  <2>2. CASE RestoreFails(r)
    <3>1. \A q \in learnt' : req[q].user = req[r].user => q \in engine[req[r].user]
      BY <2>2 DEF RestoreFails, By
    <3>2. Quiet
      BY <2>2 DEF RestoreFails, Quiet, tables
    <3> QED
      BY <1>0, <1>1, <2>2, <3>1, <3>2 DEF RestoreFails, Rewrites, At, Going
  <2> QED
    BY <1>2, <2>1, <2>2
<1>3. ASSUME NEW r \in Requests, Serialize(r)
      PROVE  /\ Rewrites(r) /\ Quiet /\ Proceeds(r) /\ req[r].kind = "login"
             /\ \A q \in Requests \ {r} : req'[q] = req[q]
  <2>1. Going(r) /\ req[r].pc = "scored" /\ req[r].kind = "login" /\ engine' = engine /\ Quiet
    BY <1>0, <1>3 DEF Serialize, At, Going, Quiet, tables, history
  <2>2. PICK bytes \in {engine[req[r].user], {}} :
          req' = [req EXCEPT ![r].pc = "saving", ![r].got = bytes]
    BY <1>3 DEF Serialize
  <2>3. bytes \in SUBSET Requests
    BY <1>0, <2>1, <2>2
  <2>4. req[r].found \in Found /\ "saving" \in Steps
    BY <1>0 DEF Request, Steps
  <2>5. /\ req'[r].pc = "saving" /\ req'[r].row = req[r].row
        /\ req'[r].kind = req[r].kind /\ req'[r].user = req[r].user
        /\ \A q \in Requests \ {r} : req'[q] = req[q]
    BY <2>2, <2>3, <2>4, Moves
  <2>6. req'[r].got = bytes
    BY <1>0, <2>2 DEF TypeInv, TypeOK, Request
  <2> QED
    BY <2>1, <2>2, <2>5, <2>6 DEF Rewrites, Proceeds, Going, Same
<1>4. ASSUME NEW r \in Requests,
             \/ \E u \in Users, kind \in Kinds : Load(r, u, kind)
             \/ Deactivate(r) \/ Acknowledge(r) \/ ForceMfa(r) \/ ResetMfa(r)
             \/ \E s \in Secrets : MfaSetup(r, s)
             \/ MfaVerify(r) \/ SaveLogin(r) \/ FindDevice(r) \/ CountDevice(r) \/ Fail(r)
      PROVE  /\ engine' = engine
             /\ \A q \in Requests : Proceeds(q) =>
                  req'[q] = req[q] \/ req'[q].pc \in {"device", "counting"}
  <2>1. engine' = engine
    BY <1>4 DEF Load, Deactivate, Acknowledge, ForceMfa, ResetMfa, MfaSetup, MfaVerify,
       Commit, SaveLogin, FindDevice, CountDevice, Fail
  <2>2. CASE \E u \in Users, kind \in Kinds : Load(r, u, kind)
    BY <2>1, <2>2, Loads DEF Proceeds, Going
  <2>3. CASE Over(r)
    BY <2>1, <2>3, Ends DEF Proceeds, Going
  <2>4. CASE SaveLogin(r) /\ Goto(r, "device")
    <3>1. Going(r)
      BY <2>4 DEF SaveLogin, At, Going
    <3> QED
      BY <1>1, <2>1, <2>4, <3>1
  <2>5. CASE FindDevice(r)
    <3>1. PICK f \in Lookup(req[r].user) :
            req' = [req EXCEPT ![r].pc = "counting", ![r].found = f]
      BY <2>5 DEF FindDevice
    <3>2. f \in Found
      BY <3>1, Defaults DEF Lookup, DeviceRows, By, Found, TypeInv, TypeOK
    <3>3. req[r].got \in SUBSET Requests /\ "counting" \in Steps
      BY <1>0 DEF Request, Steps
    <3>4. req'[r].pc = "counting" /\ \A q \in Requests \ {r} : req'[q] = req[q]
      BY <3>1, <3>2, <3>3, Moves
    <3> QED
      BY <2>1, <3>4
  <2> QED
    BY <1>4, <2>2, <2>3, <2>4, <2>5
       DEF Deactivate, Acknowledge, ForceMfa, ResetMfa, MfaSetup, MfaVerify, Commit,
       SaveLogin, CountDevice, Fail
<1>5. CASE Restart
  BY <1>5, Restarted DEF Restart, Going, Quiet, tables, history
<1>6. CASE UNCHANGED vars
  BY <1>6 DEF vars
<1> QED
  BY <1>2, <1>3, <1>4, <1>5, <1>6 DEF Next, Login

\* What ProfileInv says of a login r of u.
Fresh(r, u) ==
  /\ req[r].pc \in {"loaded", "restored", "scored", "saving"} =>
       req[r].row.blob = rows[u].blob
  /\ req[r].pc \in {"restored", "scored"} => Owed(u) \subseteq engine[u]
  /\ req[r].pc = "scored" => r \in engine[u]
  /\ req[r].pc = "saving" => req[r].got = {} \/ Owed(u) \cup {r} \subseteq req[r].got

\* Every step keeps ProfileInv.
LEMMA ProfileNext == TypeInv /\ SerialInv /\ ProfileInv /\ [Next]_vars => ProfileInv'
<1> SUFFICES ASSUME TypeInv, SerialInv, ProfileInv, [Next]_vars PROVE ProfileInv'
  OBVIOUS
<1>1. /\ \A r \in Requests : Going(r) => req[r].user \in Users
      /\ \A r \in learnt : r \in Requests /\ req[r].pc # "idle"
      /\ engine \in [Users -> SUBSET Requests]
  BY DEF TypeInv, TypeOK, RequestInv, Going
<1>2. Shape /\ \A u \in Users : serial'[u] \subseteq serial[u]
  BY Shapes, SerialShrinks
<1>3. \A r \in learnt : req'[r].user = req[r].user
  BY <1>1, <1>2 DEF Shape, Begins, Proceeds, Finishes, Same
<1> DEFINE Debts == \A u \in Users : learnt' \subseteq learnt => Owed(u)' \subseteq Owed(u)
<1>d. Debts
  BY <1>3 DEF Owed
<1>4. \A u \in Users : "login" \in serial[u] =>
        /\ Owed(u) \subseteq rows[u].blob
        /\ \A r \in Requests :
             Going(r) /\ req[r].user = u /\ req[r].kind = "login" => Fresh(r, u)
  BY DEF ProfileInv, Fresh
\* Two logins of u in flight would not be serial.
<1>5. ASSUME NEW u \in Users, "login" \in serial[u], NEW r \in Requests, NEW q \in Requests,
             Going(r), Going(q), req[r].user = u, req[q].user = u,
             req[r].kind = "login", req[q].kind = "login"
      PROVE  r = q
  <2>1. "login" \in Rivals("login")
    BY DEF Rivals, MfaKinds
  <2> QED
    BY <1>5, <2>1 DEF SerialInv
<1>6. ASSUME Quiet,
             \A u \in Users, q \in Requests :
               "login" \in serial'[u] /\ Going(q)' /\ req'[q].user = u
               /\ req'[q].kind = "login" => Fresh(q, u)'
      PROVE  ProfileInv'
  <2>1. \A u \in Users : "login" \in serial'[u] => Owed(u)' \subseteq rows'[u].blob
    BY <1>2, <1>4, <1>6, <1>d DEF Quiet
  <2> QED
    BY <1>6, <2>1 DEF ProfileInv, Fresh
<1>7. ASSUME NEW r \in Requests, Rewrites(r), Quiet, Proceeds(r), req[r].kind = "login",
             \A q \in Requests \ {r} : req'[q] = req[q]
      PROVE  ProfileInv'
  <2> SUFFICES ASSUME NEW u \in Users, NEW q \in Requests, "login" \in serial'[u],
                      Going(q)', req'[q].user = u, req'[q].kind = "login"
               PROVE  Fresh(q, u)'
    BY <1>6, <1>7
  <2>1. /\ "login" \in serial[u] /\ Going(q) /\ Going(r) /\ req[q].user = u
        /\ req[q].kind = "login" /\ Fresh(q, u) /\ rows' = rows
    BY <1>2, <1>4, <1>7 DEF Proceeds, Same, Going, Quiet
  <2>2. CASE q = r
    <3>1. req'[r].row = req[r].row /\ req[r].user = u
      BY <1>7, <2>1, <2>2 DEF Proceeds
    <3>0. Owed(u)' \subseteq Owed(u) /\ Owed(u) \subseteq rows[u].blob
      BY <1>4, <1>7, <1>d, <2>1 DEF Quiet
    <3>5. CASE req[r].pc = "loaded" /\ req'[r].pc = "restored" /\ engine' = engine
               /\ \A p \in learnt' : req[p].user = req[r].user => p \in engine[req[r].user]
      <4>1. Owed(u)' \subseteq engine[u]
        <5>1. \A p \in learnt' : p \in learnt /\ req'[p].user = req[p].user
          BY <1>3, <1>7 DEF Quiet
        <5> QED
          BY <3>1, <3>5, <5>1 DEF Owed
      <4> QED
        BY <2>1, <2>2, <3>1, <3>5, <4>1 DEF Fresh
    <3>2. CASE req[r].pc = "loaded" /\ req'[r].pc = "restored"
               /\ engine' = [engine EXCEPT ![u] = Restored(req[r].row, @)]
      <4>1. req[r].row.blob = rows[u].blob
        BY <2>1, <2>2, <3>2 DEF Fresh
      <4>2. engine'[u] = Restored(req[r].row, engine[u])
        BY <1>1, <3>2
      <4>3. Owed(u)' \subseteq engine'[u]
        BY <3>0, <4>1, <4>2 DEF Restored
      <4> QED
        BY <2>1, <2>2, <3>1, <3>2, <4>1, <4>3 DEF Fresh
    <3>3. CASE req[r].pc = "restored" /\ req'[r].pc = "scored"
               /\ engine' = [engine EXCEPT ![u] = @ \cup {r}]
      <4>1. engine'[u] = engine[u] \cup {r}
        BY <1>1, <3>3
      <4> QED
        BY <2>1, <2>2, <3>0, <3>1, <3>3, <4>1 DEF Fresh
    <3>4. CASE req[r].pc = "scored" /\ req'[r].pc = "saving"
               /\ req'[r].got \in {engine[u], {}} /\ engine' = engine
      BY <2>1, <2>2, <3>0, <3>1, <3>4 DEF Fresh
    <3> QED
      BY <1>7, <3>1, <3>2, <3>3, <3>4, <3>5 DEF Rewrites
  <2>3. CASE q # r
    <3>1. req[r].user # u
      BY <1>5, <1>7, <2>1, <2>3
    <3>2. engine'[u] = engine[u]
      BY <1>1, <1>7, <3>1 DEF Rewrites
    <3> QED
      BY <1>7, <1>d, <2>1, <2>3, <3>2 DEF Fresh, Quiet
  <2> QED
    BY <2>2, <2>3
<1>8. ASSUME Quiet, engine' = engine,
             \A r \in Requests : Proceeds(r) =>
               req'[r] = req[r] \/ req'[r].pc \in {"device", "counting"}
      PROVE  ProfileInv'
  <2> SUFFICES ASSUME NEW u \in Users, NEW q \in Requests, "login" \in serial'[u],
                      Going(q)', req'[q].user = u, req'[q].kind = "login"
               PROVE  Fresh(q, u)'
    BY <1>6, <1>8
  <2>1. rows' = rows /\ "login" \in serial[u]
    BY <1>2, <1>8 DEF Quiet
  <2>2. CASE Begins(q)
    BY <2>1, <2>2 DEF Begins, Fresh
  <2>3. CASE req'[q] = req[q]
    <3>1. Fresh(q, u)
      BY <1>4, <2>1, <2>3 DEF Going
    <3> QED
      BY <1>8, <1>d, <2>1, <2>3, <3>1 DEF Fresh, Quiet
  <2>4. CASE req'[q].pc \in {"device", "counting"}
    BY <2>4 DEF Fresh
  <2> QED
    BY <1>2, <1>8, <2>2, <2>3, <2>4 DEF Shape, Finishes, Going
<1>9. ASSUME NEW r \in Requests, NEW new \in Row, Saving(r, new)
      PROVE  ProfileInv'
  <2> DEFINE u == req[r].user
             old == req[r].row
             saves == req[r].kind = "login" /\ req[r].got # {}
  <2>1. /\ u \in Users /\ Going(r) /\ req'[r].user = u /\ req'[r].kind = req[r].kind
        /\ new.blob = (IF saves THEN req[r].got ELSE old.blob)
        /\ learnt' = (IF saves THEN learnt \cup {r} ELSE learnt)
        /\ req[r].kind = "login" => req[r].pc = "saving"
        /\ req'[r].pc \in {"device", "over"}
        /\ \A q \in Requests \ {r} : req'[q] = req[q]
        /\ serial' = serial /\ engine' = engine
    BY <1>9 DEF Saving, Going, Same
  <2>2. /\ rows'[u].blob = Column(rows[u].blob, old.blob, new.blob)
        /\ \A v \in Users \ {u} : rows'[v] = rows[v]
    BY <1>9, Stored
  <2>3. ~saves => rows'[u].blob = rows[u].blob
    BY <2>1, <2>2 DEF Column
  <2>4. ASSUME saves, "login" \in serial[u]
        PROVE  Owed(u) \cup {r} \subseteq rows'[u].blob
    <3>1. Fresh(r, u)
      BY <1>4, <2>1, <2>4
    <3>2. old.blob = rows[u].blob /\ Owed(u) \cup {r} \subseteq req[r].got
      BY <2>1, <2>4, <3>1 DEF Fresh
    <3>3. rows'[u].blob = req[r].got
      BY <2>1, <2>2, <2>4, <3>2 DEF Column
    <3> QED
      BY <3>2, <3>3
  <2> SUFFICES ASSUME NEW v \in Users, "login" \in serial[v]
               PROVE  /\ Owed(v)' \subseteq rows'[v].blob
                      /\ \A q \in Requests :
                           Going(q)' /\ req'[q].user = v /\ req'[q].kind = "login" =>
                             Fresh(q, v)'
    BY <2>1 DEF ProfileInv, Fresh
  <2>5. ASSUME NEW q \in Owed(v)' PROVE q \in rows'[v].blob
    <3>0. q \in learnt' /\ req'[q].user = v
      BY <2>5 DEF Owed
    <3>1. CASE q \in learnt
      <4>1. q \in Owed(v) /\ q \in rows[v].blob
        BY <1>3, <1>4, <3>0, <3>1 DEF Owed
      <4> QED
        BY <2>2, <2>3, <2>4, <4>1
    <3>2. CASE q = r /\ saves
      BY <2>1, <2>4, <3>0, <3>2
    <3> QED
      BY <2>1, <3>0, <3>1, <3>2
  <2>6. ASSUME NEW q \in Requests, Going(q)', req'[q].user = v, req'[q].kind = "login"
        PROVE  Fresh(q, v)'
    <3>1. CASE q = r
      BY <2>1, <3>1 DEF Fresh
    <3>2. CASE q # r
      <4>1. req'[q] = req[q] /\ Going(q) /\ Fresh(q, v)
        BY <1>4, <2>1, <2>6, <3>2 DEF Going
      <4>2. CASE v = u
        <5>1. req[r].kind # "login"
          BY <1>5, <2>1, <2>6, <3>2, <4>1, <4>2
        <5>2. rows'[v].blob = rows[v].blob /\ learnt' = learnt
          BY <2>1, <2>3, <4>2, <5>1
        <5> QED
          BY <1>d, <2>1, <4>1, <5>2 DEF Fresh
      <4>3. CASE v # u
        <5>1. Owed(v)' \subseteq Owed(v)
          BY <1>3, <2>1, <4>3 DEF Owed
        <5> QED
          BY <2>1, <2>2, <4>1, <4>3, <5>1 DEF Fresh
      <4> QED
        BY <4>2, <4>3
    <3> QED
      BY <3>1, <3>2
  <2> QED
    BY <2>5, <2>6
<1>10. CASE Quiet
  <2>1. CASE \A r \in Requests : ~Going(r)' /\ Quiet
    BY <1>6, <1>10, <2>1
  <2> QED
    BY <1>7, <1>8, <1>10, <2>1, Engine
<1> QED
  BY <1>9, <1>10, Effects

\* ProfileInv holds at the start.
LEMMA ProfileInit == Init => ProfileInv
BY Initially DEF ProfileInv, Owed

\* While the logins of a user do not overlap, the stored profile keeps every
\* login that was saved in it, but for those that the engine had lost when it
\* refused to load the stored one.
THEOREM SerialProfileKept == Spec => []SerialProfile
<1>1. TypeInv /\ ProfileInv => SerialProfile
  BY DEF ProfileInv, Owed, SerialProfile, By
<1>2. Spec => []SerialInv
  BY SerialInit, SerialNext, TypeInvariant, PTL DEF Spec
<1> QED
  BY <1>1, <1>2, ProfileInit, ProfileNext, TypeInvariant, PTL DEF Spec

-----------------------------------------------------------------------------
(* The device registry                                                     *)

Counting(r) == req[r].pc \in {"device", "counting"}

\* The user's sessions whose login has no device left to count.
Settled(u) == {r \in sessions : req[r].user = u /\ ~Counting(r)}

\* The row of a login counts settled sessions only.
Bounded(d) == devices[d] > 0 =>
  req[d].pc = "over" /\ devices[d] <= Cardinality(Settled(req[d].user))

\* So does the count that a login found and is about to add one to.
Known(r) == req[r].pc = "counting" /\ req[r].found # NotFound =>
  LET d == req[r].found.login IN
  /\ d \in Requests /\ devices[d] > 0 /\ req[d].user = req[r].user
  /\ req[r].found.count <= Cardinality(Settled(req[r].user))

\* A login that found no row is the first to insert one.
First(r) ==
  /\ req[r].pc = "counting" /\ req[r].found = NotFound /\ "login" \in serial[req[r].user]
  => \A d \in Requests : devices[d] > 0 => req[d].user # req[r].user

OneDevice(u) == "login" \in serial[u] =>
  \A d, e \in Requests :
    devices[d] > 0 /\ devices[e] > 0 /\ req[d].user = u /\ req[e].user = u => d = e

\* Only sessions are counted, in at most one row while logins do not overlap.
DeviceInv ==
  /\ \A r \in Requests : Counting(r) => r \in sessions
  /\ \A r \in sessions : Counting(r) \/ req[r].pc = "over"
  /\ \A d \in Requests : Bounded(d)
  /\ \A r \in Requests : Known(r) /\ First(r)
  /\ \A u \in Users : OneDevice(u)

\* A step that neither saves a session nor touches a device.
Elsewhere ==
  /\ devices' = devices /\ sessions' = sessions
  /\ \A r \in Requests :
       \/ req'[r] = req[r]
       \/ req'[r].pc \in {"loaded", "restored", "scored", "saving"} /\ ~Counting(r)
       \/ req'[r].pc = "over"

\* The last step of a login that found what it found.
Counts(r) ==
  /\ req[r].pc = "counting" /\ devices' = Counted(r) /\ sessions' = sessions
  /\ req'[r].pc = "over" /\ Same(r)
  /\ \A q \in Requests \ {r} : req'[q] = req[q]

\* A session is saved, a device is found, a device is counted, or none of it.
LEMMA DeviceSteps ==
  ASSUME TypeInv, [Next]_vars
  PROVE  \/ Elsewhere
         \/ \E r \in Requests :
              /\ req[r].pc = "saving" /\ req'[r].pc = "device" /\ Same(r)
              /\ \A q \in Requests \ {r} : req'[q] = req[q]
              /\ sessions' = sessions \cup {r} /\ devices' = devices
         \/ \E r \in Requests :
              /\ req[r].pc = "device" /\ req'[r].pc = "counting" /\ Same(r)
              /\ req'[r].found \in Lookup(req[r].user)
              /\ \A q \in Requests \ {r} : req'[q] = req[q]
              /\ sessions' = sessions /\ devices' = devices
         \/ \E r \in Requests : Counts(r)
<1>0. /\ \A r \in Requests : req[r].got \in SUBSET Requests /\ req[r].found \in Found
      /\ \A r \in Requests : req[r].pc # "idle" => req[r].user \in Users
      /\ req \in [Requests -> Request]
  BY DEF TypeInv, TypeOK, Request, RequestInv
<1>1. ASSUME NEW r \in Requests, NEW u \in Users, NEW kind \in Kinds, Load(r, u, kind)
      PROVE  Elsewhere
  BY <1>1, Loads DEF Elsewhere, tables, Counting
<1>2. ASSUME NEW r \in Requests, Over(r), UNCHANGED <<devices, sessions>>
      PROVE  Elsewhere
  BY <1>2, Ends DEF Elsewhere
<1>3. ASSUME NEW r \in Requests,
             \/ Deactivate(r) \/ Acknowledge(r) \/ ForceMfa(r) \/ ResetMfa(r)
             \/ \E s \in Secrets : MfaSetup(r, s)
             \/ MfaVerify(r) \/ Fail(r)
      PROVE  Elsewhere
  BY <1>2, <1>3 DEF Deactivate, Acknowledge, ForceMfa, ResetMfa, MfaSetup, MfaVerify,
     Commit, Fail, tables
<1>4. ASSUME NEW r \in Requests, Restore(r) \/ RestoreFails(r) \/ Evaluate(r) PROVE Elsewhere
  <2>1. PICK step \in {"restored", "scored"} : req' = [req EXCEPT ![r].pc = step]
    BY <1>4 DEF Restore, RestoreFails, Evaluate, Goto
  <2>2. ~Counting(r) /\ devices' = devices /\ sessions' = sessions
    BY <1>4 DEF Restore, RestoreFails, Evaluate, At, Counting, tables
  <2>3. req'[r].pc = step /\ \A q \in Requests \ {r} : req'[q] = req[q]
    BY <1>0, <2>1, Moves DEF Steps
  <2> QED
    BY <2>2, <2>3 DEF Elsewhere
<1>5. ASSUME NEW r \in Requests, Serialize(r) PROVE Elsewhere
  <2>1. PICK bytes \in {engine[req[r].user], {}} :
          req' = [req EXCEPT ![r].pc = "saving", ![r].got = bytes]
    BY <1>5 DEF Serialize
  <2>2. bytes \in SUBSET Requests
    BY <1>0, <1>5, <2>1 DEF Serialize, At, TypeInv, TypeOK
  <2>3. req'[r].pc = "saving" /\ \A q \in Requests \ {r} : req'[q] = req[q]
    BY <1>0, <2>1, <2>2, Moves DEF Steps
  <2> QED
    BY <1>5, <2>3 DEF Elsewhere, Serialize, At, Counting, tables
<1>6. ASSUME NEW r \in Requests, SaveLogin(r), ~Elsewhere
      PROVE  /\ req[r].pc = "saving" /\ req'[r].pc = "device" /\ Same(r)
             /\ \A q \in Requests \ {r} : req'[q] = req[q]
             /\ sessions' = sessions \cup {r} /\ devices' = devices
  <2>1. /\ sessions' = sessions \cup {r} /\ devices' = devices /\ req[r].pc = "saving"
        /\ req' = [req EXCEPT ![r].pc = "device"]
    BY <1>2, <1>6 DEF SaveLogin, At, Goto
  <2> QED
    BY <1>0, <2>1, Moves DEF Steps, Same
<1>7. ASSUME NEW r \in Requests, FindDevice(r)
      PROVE  /\ req[r].pc = "device" /\ req'[r].pc = "counting" /\ Same(r)
             /\ req'[r].found \in Lookup(req[r].user)
             /\ \A q \in Requests \ {r} : req'[q] = req[q]
             /\ sessions' = sessions /\ devices' = devices
  <2>1. PICK f \in Lookup(req[r].user) :
          req' = [req EXCEPT ![r].pc = "counting", ![r].found = f]
    BY <1>7 DEF FindDevice
  <2>2. f \in Found
    BY <2>1, Defaults DEF Lookup, DeviceRows, By, Found, TypeInv, TypeOK
  <2>3. req'[r].pc = "counting" /\ Same(r) /\ \A q \in Requests \ {r} : req'[q] = req[q]
    BY <1>0, <2>1, <2>2, Moves DEF Steps, Same
  <2>4. req'[r].found = f
    BY <1>0, <2>1 DEF Request
  <2> QED
    BY <1>7, <2>3, <2>4 DEF FindDevice, At, tables
<1>8. ASSUME NEW r \in Requests, CountDevice(r) PROVE Counts(r)
  BY <1>8, Ends DEF CountDevice, Counts, At, Same
<1>9. CASE Restart
  BY <1>9, Restarted DEF Restart, Elsewhere, tables
<1>10. CASE UNCHANGED vars
  BY <1>10 DEF vars, tables, Elsewhere
<1> QED
  BY <1>1, <1>3, <1>4, <1>5, <1>6, <1>7, <1>8, <1>9, <1>10 DEF Next, Login

\* What is over stays over, and settled sessions only become more.
LEMMA SettledGrows ==
  ASSUME TypeInv, DeviceInv, [Next]_vars
  PROVE  /\ \A r \in Requests : req[r].pc = "over" => req'[r] = req[r]
         /\ \A u \in Users :
              /\ Settled(u) \subseteq Settled(u)'
              /\ IsFiniteSet(Settled(u)) /\ IsFiniteSet(Settled(u)')
              /\ Cardinality(Settled(u)) \in Nat /\ Cardinality(Settled(u)') \in Nat
              /\ Cardinality(Settled(u)) <= Cardinality(Settled(u)')
<1>1. \A r \in Requests : req[r].pc = "over" => req'[r] = req[r]
  BY Shapes DEF Shape, Begins, Proceeds, Finishes, Going
<1>2. sessions \subseteq sessions'
  BY DeviceSteps DEF Elsewhere, Counts
<1>3. sessions \in SUBSET Requests /\ sessions' \in SUBSET Requests
  BY TypeNext DEF TypeInv, TypeOK
<1>4. ASSUME NEW u \in Users
      PROVE  /\ Settled(u) \subseteq Settled(u)'
             /\ Settled(u) \in SUBSET Requests /\ Settled(u)' \in SUBSET Requests
  BY <1>1, <1>2, <1>3 DEF Settled, Counting, DeviceInv
<1> QED
  BY <1>1, <1>4, RequestsAssumption, FS_Subset, FS_CardinalityType

\* Every step keeps DeviceInv.
LEMMA DeviceNext == TypeInv /\ SerialInv /\ DeviceInv /\ [Next]_vars => DeviceInv'
<1> SUFFICES ASSUME TypeInv, SerialInv, DeviceInv, [Next]_vars PROVE DeviceInv'
  OBVIOUS
<1>1. /\ \A r \in Requests : req[r].pc = "over" => req'[r] = req[r]
      /\ \A u \in Users :
           /\ Cardinality(Settled(u)) \in Nat /\ Cardinality(Settled(u)') \in Nat
           /\ Cardinality(Settled(u)) <= Cardinality(Settled(u)')
  BY SettledGrows
<1>2. /\ devices \in [Requests -> Nat] /\ sessions \in SUBSET Requests
      /\ \A r \in Requests : req[r].pc # "idle" => req[r].user \in Users
      /\ \A r \in Requests : req[r].found \in Found
      /\ \A r \in Requests : Counting(r) => Going(r) /\ req[r].kind = "login"
  BY DEF TypeInv, TypeOK, RequestInv, Request, Counting, Going
<1>3. \A u \in Users : serial'[u] \subseteq serial[u]
  BY SerialShrinks
\* A device row as it was.
<1>4. ASSUME NEW d \in Requests, devices[d] > 0
      PROVE  /\ req[d].pc = "over" /\ req'[d] = req[d] /\ req[d].user \in Users
             /\ \A u \in Users : req[d].user = u =>
                  /\ devices[d] <= Cardinality(Settled(u))
                  /\ devices[d] <= Cardinality(Settled(u)')
  <2>1. /\ req[d].pc = "over" /\ req'[d] = req[d] /\ req[d].user \in Users
        /\ devices[d] <= Cardinality(Settled(req[d].user))
    BY <1>1, <1>2, <1>4 DEF DeviceInv, Bounded
  <2>2. ASSUME NEW u \in Users, req[d].user = u
        PROVE  /\ devices[d] <= Cardinality(Settled(u))
               /\ devices[d] <= Cardinality(Settled(u)')
    BY <1>1, <1>2, <2>1, <2>2
  <2> QED
    BY <2>1, <2>2
<1>5. ASSUME NEW d \in Requests, devices'[d] = devices[d] PROVE Bounded(d)'
  <2> SUFFICES ASSUME devices[d] > 0
               PROVE  req'[d].pc = "over" /\ devices[d] <= Cardinality(Settled(req[d].user))'
    BY <1>5 DEF Bounded
  <2>1. PICK u \in Users : u = req[d].user
    BY <1>4
  <2>2. req'[d].user = u /\ req'[d].pc = "over" /\ devices[d] <= Cardinality(Settled(u)')
    BY <1>4, <2>1
  <2> QED
    BY <2>2
\* A login that still counts what it found before.
<1>6. ASSUME NEW r \in Requests, req'[r] = req[r],
             \A d \in Requests : devices[d] > 0 => devices'[d] > 0
      PROVE  Known(r)'
  <2> SUFFICES ASSUME req[r].pc = "counting", req[r].found # NotFound
               PROVE  /\ req[r].found.login \in Requests
                      /\ devices'[req[r].found.login] > 0
                      /\ req'[req[r].found.login].user = req[r].user
                      /\ req[r].found.count <= Cardinality(Settled(req[r].user))'
    BY <1>6 DEF Known
  <2>1. PICK u \in Users : u = req[r].user
    BY <1>2
  <2>2. PICK d \in Requests :
          /\ d = req[r].found.login /\ devices[d] > 0 /\ req[d].user = u
          /\ req[r].found.count <= Cardinality(Settled(u))
    BY <2>1 DEF DeviceInv, Known
  <2>3. req[r].found.count <= Cardinality(Settled(u)')
    BY <1>1, <1>2, <2>2 DEF Found
  <2>4. Settled(u)' = Settled(req[r].user)'
    BY <1>6, <2>1
  <2> QED
    BY <1>4, <1>6, <2>1, <2>2, <2>3, <2>4
<1>7. ASSUME NEW r \in Requests, req'[r] = req[r], devices' = devices
      PROVE  First(r)'
  <2> SUFFICES ASSUME req[r].pc = "counting", req[r].found = NotFound,
                      "login" \in serial'[req[r].user],
                      NEW d \in Requests, devices[d] > 0
               PROVE  req'[d].user # req[r].user
    BY <1>7 DEF First
  <2>1. req[r].user \in Users /\ "login" \in serial[req[r].user]
    BY <1>2, <1>3
  <2> QED
    BY <1>4, <2>1 DEF DeviceInv, First
\* No device changed, and the logins F have just looked theirs up.
<1>8. ASSUME devices' = devices,
             \A r \in Requests : Counting(r)' => r \in sessions',
             \A r \in sessions' : Counting(r)' \/ req'[r].pc = "over",
             NEW F \in SUBSET Requests,
             \A r \in Requests \ F : req'[r].pc = "counting" => req'[r] = req[r],
             \A r \in F :
               /\ req[r].user \in Users /\ req'[r].user = req[r].user
               /\ req'[r].found \in Lookup(req[r].user)
      PROVE  DeviceInv'
  <2>1. ASSUME NEW u \in Users PROVE OneDevice(u)'
    BY <1>3, <1>4, <1>8 DEF DeviceInv, OneDevice
  <2>2. ASSUME NEW r \in Requests \ F PROVE Known(r)' /\ First(r)'
    <3>1. CASE req'[r].pc = "counting"
      BY <1>6, <1>7, <1>8, <3>1
    <3>2. CASE req'[r].pc # "counting"
      BY <3>2 DEF Known, First
    <3> QED
      BY <3>1, <3>2
  <2>3. ASSUME NEW r \in F PROVE Known(r)' /\ First(r)'
    <3>1. PICK u \in Users : u = req[r].user /\ req'[r].user = u
                             /\ req'[r].found \in Lookup(u)
      BY <1>8
    <3>2. CASE DeviceRows(u) = {}
      <4>1. req'[r].found = NotFound
        BY <3>1, <3>2 DEF Lookup
      <4>2. \A d \in Requests : devices'[d] > 0 => req'[d].user # u
        BY <1>4, <1>8, <3>2 DEF DeviceRows, By
      <4> QED
        BY <3>1, <4>1, <4>2 DEF Known, First
    <3>3. CASE DeviceRows(u) # {}
      <4>1. PICK d \in DeviceRows(u) : req'[r].found = [login |-> d, count |-> devices[d]]
        BY <3>1, <3>3 DEF Lookup
      <4>2. d \in Requests /\ devices[d] > 0 /\ req[d].user = u
        BY <4>1 DEF DeviceRows, By
      <4>3. req'[r].found # NotFound
        BY <4>1, <4>2, NoneAssumption DEF NotFound
      <4>4. req'[r].found.login = d /\ req'[r].found.count = devices[d]
        BY <4>1
      <4>5. req'[d].user = u /\ devices'[d] > 0 /\ devices[d] <= Cardinality(Settled(u)')
        BY <1>4, <1>8, <4>2
      <4>6. Settled(u)' = Settled(req[r].user)'
        BY <3>1
      <4> QED
        BY <3>1, <4>2, <4>3, <4>4, <4>5, <4>6 DEF Known, First
    <3> QED
      BY <3>2, <3>3
  <2>4. \A d \in Requests : Bounded(d)'
    BY <1>5, <1>8
  <2> QED
    BY <1>8, <2>1, <2>2, <2>3, <2>4 DEF DeviceInv
<1>9. CASE Elsewhere
  <2>1. \A r \in Requests : Counting(r)' => r \in sessions'
    BY <1>9 DEF Elsewhere, Counting, DeviceInv
  <2>2. \A r \in sessions' : Counting(r)' \/ req'[r].pc = "over"
    BY <1>1, <1>2, <1>9 DEF Elsewhere, Counting, DeviceInv
  <2>3. devices' = devices
        /\ \A r \in Requests \ {} : req'[r].pc = "counting" => req'[r] = req[r]
    BY <1>9 DEF Elsewhere
  <2>4. {} \in SUBSET Requests
    OBVIOUS
  <2> QED
    BY <1>8, <2>1, <2>2, <2>3, <2>4
<1>10. ASSUME NEW r \in Requests, req[r].pc = "saving", req'[r].pc = "device", Same(r),
              \A q \in Requests \ {r} : req'[q] = req[q],
              sessions' = sessions \cup {r}, devices' = devices
       PROVE  DeviceInv'
  <2>1. \A q \in Requests : Counting(q)' => q \in sessions'
    BY <1>10 DEF Counting, DeviceInv
  <2>2. \A q \in sessions' : Counting(q)' \/ req'[q].pc = "over"
    BY <1>2, <1>10 DEF Counting, DeviceInv
  <2>3. {} \in SUBSET Requests
        /\ \A q \in Requests \ {} : req'[q].pc = "counting" => req'[q] = req[q]
    BY <1>10
  <2> QED
    BY <1>8, <1>10, <2>1, <2>2, <2>3
<1>11. ASSUME NEW r \in Requests, req[r].pc = "device", req'[r].pc = "counting", Same(r),
              req'[r].found \in Lookup(req[r].user),
              \A q \in Requests \ {r} : req'[q] = req[q],
              sessions' = sessions, devices' = devices
       PROVE  DeviceInv'
  <2>1. \A q \in Requests : Counting(q)' => q \in sessions'
    BY <1>11 DEF Counting, DeviceInv
  <2>2. \A q \in sessions' : Counting(q)' \/ req'[q].pc = "over"
    BY <1>2, <1>11 DEF Counting, DeviceInv
  <2>3. /\ {r} \in SUBSET Requests
        /\ \A q \in Requests \ {r} : req'[q].pc = "counting" => req'[q] = req[q]
        /\ \A q \in {r} : /\ req[q].user \in Users /\ req'[q].user = req[q].user
                          /\ req'[q].found \in Lookup(req[q].user)
    BY <1>2, <1>11 DEF Same
  <2> QED
    BY <1>8, <1>11, <2>1, <2>2, <2>3
<1>12. ASSUME NEW r \in Requests, Counts(r) PROVE DeviceInv'
  <2>1. PICK u \in Users :
          /\ req[r].pc = "counting" /\ req'[r].pc = "over"
          /\ req[r].user = u /\ req'[r].user = u
          /\ \A q \in Requests \ {r} : req'[q] = req[q]
          /\ sessions' = sessions /\ devices' = Counted(r)
          /\ req[r].found.count \in Nat /\ r \in sessions
    BY <1>2, <1>12 DEF Counts, Same, Found, DeviceInv, Counting
  \* r is settled now, and was not.
  <2>2. Cardinality(Settled(u)') = Cardinality(Settled(u)) + 1
    <3>1. Settled(u)' = Settled(u) \cup {r} /\ r \notin Settled(u)
      BY <1>2, <2>1 DEF Settled, Counting
    <3> QED
      BY <3>1, SettledGrows, FS_AddElement
  \* The one row that changed.
  <2>3. PICK d \in Requests :
          /\ \A e \in Requests \ {d} : devices'[e] = devices[e]
          /\ req'[d].pc = "over" /\ req'[d].user = u /\ devices'[d] > 0
          /\ devices'[d] <= Cardinality(Settled(u)')
          /\ req[r].found = NotFound \/ (devices[d] > 0 /\ req[d].user = u)
    <3>1. CASE req[r].found = NotFound
      <4>1. /\ \A e \in Requests \ {r} : devices'[e] = devices[e]
            /\ devices'[r] = 1
        BY <1>2, <2>1, <3>1 DEF Counted
      <4> QED
        BY <1>1, <2>1, <2>2, <3>1, <4>1
    <3>2. CASE req[r].found # NotFound
      <4>1. PICK d \in Requests :
              /\ d = req[r].found.login /\ devices[d] > 0 /\ req[d].user = u
              /\ req[r].found.count <= Cardinality(Settled(u))
        BY <2>1, <3>2 DEF DeviceInv, Known
      <4>2. req'[d].user = u /\ req'[d].pc = "over"
        BY <1>4, <4>1
      <4>3. /\ \A e \in Requests \ {d} : devices'[e] = devices[e]
            /\ devices'[d] = req[r].found.count + 1
        BY <1>2, <2>1, <3>2, <4>1 DEF Counted
      <4>4. devices'[d] > 0 /\ devices'[d] <= Cardinality(Settled(u)')
        BY <1>1, <2>1, <2>2, <4>1, <4>3
      <4> QED
        BY <3>2, <4>1, <4>2, <4>3, <4>4
    <3> QED
      BY <3>1, <3>2
  <2>4. ASSUME NEW e \in Requests PROVE Bounded(e)'
    <3>1. CASE e = d
      <4>1. Settled(u)' = Settled(req[e].user)'
        BY <2>3, <3>1
      <4> QED
        BY <2>3, <3>1, <4>1 DEF Bounded
    <3> QED
      BY <1>5, <2>3, <3>1
  \* While its logins are serial no other login of u is about to count.
  <2>5. ASSUME NEW q \in Requests, q # r, Counting(q), req[q].user = u
        PROVE  "login" \notin serial[u]
    <3>1. "login" \in Rivals("login")
      BY DEF Rivals, MfaKinds
    <3>2. Going(r) /\ Going(q) /\ req[r].kind = "login" /\ req[q].kind = "login"
      BY <1>2, <2>1, <2>5 DEF Counting
    <3> QED
      BY <2>1, <2>5, <3>1, <3>2 DEF SerialInv
  <2>6. ASSUME NEW q \in Requests PROVE Known(q)' /\ First(q)'
    <3>1. CASE q = r \/ req'[q].pc # "counting"
      BY <2>1, <3>1 DEF Known, First
    <3>2. CASE q # r /\ req'[q].pc = "counting"
      <4>1. req'[q] = req[q] /\ req[q].pc = "counting" /\ req[q].user \in Users
        BY <1>2, <2>1, <3>2
      <4>2. Known(q)'
        BY <1>6, <2>3, <4>1
      <4>3. ASSUME req[q].found = NotFound, "login" \in serial'[req[q].user],
                   NEW e \in Requests, devices'[e] > 0
            PROVE  req'[e].user # req[q].user
        <5>1. "login" \in serial[req[q].user]
          BY <1>3, <4>1, <4>3
        <5>2. req[q].user # u
          BY <2>5, <3>2, <4>1, <5>1 DEF Counting
        <5>3. CASE e = d
          BY <2>3, <5>2, <5>3
        <5>4. CASE e # d
          <6>1. devices[e] > 0 /\ req'[e] = req[e]
            BY <1>4, <2>3, <4>3, <5>4
          <6> QED
            BY <4>1, <4>3, <5>1, <6>1 DEF DeviceInv, First
        <5> QED
          BY <5>3, <5>4
      <4> QED
        BY <4>1, <4>2, <4>3 DEF First
    <3> QED
      BY <3>1, <3>2
  <2>7. ASSUME NEW v \in Users PROVE OneDevice(v)'
    <3> SUFFICES ASSUME "login" \in serial'[v],
                        NEW e \in Requests, NEW f \in Requests,
                        devices'[e] > 0, devices'[f] > 0,
                        req'[e].user = v, req'[f].user = v
                 PROVE  e = f
      BY DEF OneDevice
    <3>1. "login" \in serial[v]
      BY <1>3
    <3>2. ASSUME NEW g \in Requests \ {d}, devices'[g] > 0, req'[g].user = v
          PROVE  devices[g] > 0 /\ req[g].user = v /\ (req[r].found = NotFound => v # u)
      <4>1. devices[g] > 0 /\ req[g].user = v
        BY <1>4, <2>3, <3>2
      <4> QED
        BY <2>1, <3>1, <4>1 DEF DeviceInv, First
    <3>3. CASE v = u /\ req[r].found = NotFound
      BY <3>2, <3>3
    <3>4. CASE v # u \/ req[r].found # NotFound
      <4>1. /\ devices[e] > 0 /\ req[e].user = v
            /\ devices[f] > 0 /\ req[f].user = v
        BY <2>3, <3>2, <3>4
      <4> QED
        BY <3>1, <4>1 DEF DeviceInv, OneDevice
    <3> QED
      BY <3>3, <3>4
  <2>8. /\ \A q \in Requests : Counting(q)' => q \in sessions'
        /\ \A q \in sessions' : Counting(q)' \/ req'[q].pc = "over"
    BY <1>2, <2>1 DEF Counting, DeviceInv
  <2> QED
    BY <2>4, <2>6, <2>7, <2>8 DEF DeviceInv
<1> QED
  BY <1>9, <1>10, <1>11, <1>12, DeviceSteps

\* DeviceInv holds at the start.
LEMMA DeviceInit == Init => DeviceInv
<1> SUFFICES ASSUME Init PROVE DeviceInv
  OBVIOUS
<1>1. /\ \A r \in Requests : req[r].pc = "idle" /\ devices[r] = 0
      /\ sessions = {}
  BY DEF Init, NoRequest
<1> QED
  BY <1>1 DEF DeviceInv, Counting, Bounded, Known, First, OneDevice

\* A device counts no more logins than there were sessions, and has one row
\* while the logins do not overlap.
THEOREM DevicesCounted == Spec => []DeviceCounts
<1>1. TypeInv /\ DeviceInv => DeviceCounts
  <2> SUFFICES ASSUME TypeInv, DeviceInv, NEW u \in Users,
                      NEW d \in DeviceRows(u)
               PROVE  /\ devices[d] <= Cardinality(By(u, sessions))
                      /\ "login" \in serial[u] => \A e \in DeviceRows(u) : d = e
    BY DEF DeviceCounts
  <2>1. d \in Requests /\ devices[d] > 0 /\ req[d].user = u /\ devices[d] \in Nat
    BY DEF DeviceRows, By, TypeInv, TypeOK
  <2>2. Settled(u) \in SUBSET By(u, sessions) /\ By(u, sessions) \in SUBSET Requests
    BY DEF Settled, By, TypeInv, TypeOK
  <2>3. /\ Cardinality(Settled(u)) <= Cardinality(By(u, sessions))
        /\ Cardinality(Settled(u)) \in Nat /\ Cardinality(By(u, sessions)) \in Nat
    BY <2>2, RequestsAssumption, FS_Subset, FS_CardinalityType
  <2>4. devices[d] <= Cardinality(By(u, sessions))
    BY <2>1, <2>3 DEF DeviceInv, Bounded
  <2>5. "login" \in serial[u] => \A e \in DeviceRows(u) : d = e
    BY <2>1 DEF DeviceInv, OneDevice, DeviceRows, By
  <2> QED
    BY <2>4, <2>5
<1>2. Spec => []SerialInv
  BY SerialInit, SerialNext, TypeInvariant, PTL DEF Spec
<1> QED
  BY <1>1, <1>2, DeviceInit, DeviceNext, TypeInvariant, PTL DEF Spec
=============================================================================
