------------------------------- MODULE Accounts -------------------------------
(***************************************************************************)
(* The users row and who changes it: enrolment and verification            *)
(* (app/routes/auth.py), deactivate, force-mfa, reset-mfa and the          *)
(* acknowledgement of an alert (app/routes/admin.py), and login, which     *)
(* takes the behavioural profile from the row through the engine           *)
(* (app/engine/ffi_engine.py) back into it and counts the device.          *)
(*                                                                         *)
(* Each handler runs in a worker thread of its own: it loads a row, works  *)
(* on the copy and saves the columns it changed, with its audit row, in    *)
(* one commit.  All logins of a user come from one device.                 *)
(***************************************************************************)
EXTENDS Naturals, FiniteSets

CONSTANTS
  Requests,   \* requests, each served once
  Users,      \* accounts, each with one alert
  Secrets,    \* TOTP secrets
  None        \* NULL

ASSUME RequestsAssumption == IsFiniteSet(Requests)
ASSUME NoneAssumption == None \notin Requests \cup Users \cup Secrets

AdminKinds == {"deactivate", "force", "reset", "acknowledge"}
MfaKinds   == {"setup", "verify", "force", "reset"}
Kinds      == AdminKinds \cup MfaKinds \cup {"login"}
Steps      == {"idle", "loaded", "restored", "scored", "saving", "device",
               "counting", "over"}

\* A row of users, with the user's alert.  A profile is the set of the logins
\* it was learnt from.
Row == [active   : BOOLEAN,
        enabled  : BOOLEAN,                  \* mfa_enabled
        secret   : Secrets \cup {None},      \* mfa_secret
        blob     : SUBSET Requests,          \* profile_blob, {} when NULL
        resolved : Requests \cup {None}]     \* the alert's resolved_by
Blank == [active |-> TRUE, enabled |-> FALSE, secret |-> None, blob |-> {},
          resolved |-> None]

\* A device row found by a login, with the count read from it.
Found    == [login : Requests \cup {None}, count : Nat]
NotFound == [login |-> None, count |-> 0]

Request  == [pc : Steps, kind : Kinds \cup {None}, user : Users \cup {None},
             row : Row,                 \* the row it loaded
             got : SUBSET Requests,     \* the profile it serialized
             found : Found]
NoRequest == [pc |-> "idle", kind |-> None, user |-> None, row |-> Blank,
              got |-> {}, found |-> NotFound]

VARIABLES
  rows,       \* rows[u]: users and alerts
  audit,      \* admin_audit_log: the requests with a committed audit row
  sessions,   \* the logins whose session is committed
  devices,    \* devices[r]: login_count of the device row login r inserted, or 0
  engine,     \* engine[u]: the profile of u in the engine's memory
  req,        \* req[r]
  issued,     \* history: the secrets handed out
  confirmed,  \* history: the secrets of which a code was accepted
  forced,     \* history: the users with force-mfa and no reset since
  learnt,     \* history: the logins that saved a profile, less those lost to
              \* the engine when it refused the stored one
  serial      \* history: serial[u]: the kinds of request to u of which none
              \* overlapped another that works on the same columns

tables  == <<rows, audit, sessions, devices>>
history == <<issued, confirmed, forced, learnt>>
vars    == <<tables, engine, req, history, serial>>

By(u, S)    == {r \in S : req[r].user = u}
InFlight(u) == {r \in By(u, Requests) : req[r].pc \notin {"idle", "over"}}

\* The handlers that work on the same columns.
Rivals(kind) == IF kind \in MfaKinds THEN MfaKinds ELSE {kind}

At(r, step)   == req[r].pc = step
Goto(r, step) == req' = [req EXCEPT ![r].pc = step]
Over(r) == req' = [req EXCEPT ![r] =
  [NoRequest EXCEPT !.pc = "over", !.kind = req[r].kind, !.user = req[r].user]]

-----------------------------------------------------------------------------
\* seed_admin.py creates accounts active, with a confirmed secret or with none.
Init ==
  /\ rows \in [Users -> {Blank} \cup
       {[Blank EXCEPT !.enabled = TRUE, !.secret = s] : s \in Secrets}]
  /\ issued = {rows[u].secret : u \in Users} \ {None}
  /\ confirmed = issued
  /\ audit = {} /\ sessions = {} /\ forced = {} /\ learnt = {}
  /\ devices = [r \in Requests |-> 0]
  /\ engine = [u \in Users |-> {}]
  /\ req = [r \in Requests |-> NoRequest]
  /\ serial = [u \in Users |-> Kinds]

\* What the handlers ask of the row they loaded; one that refuses does nothing.
\* Variant: an alert may be acknowledged again.
AdmitsResolved(kind, row) ==
  /\ kind = "setup" => ~(row.enabled /\ row.secret # None)
  /\ kind = "verify" => row.secret # None
  /\ kind = "login" => row.active
\* Variant: mfa_setup replaces an enrolled secret.
AdmitsEnrolled(kind, row) ==
  /\ kind = "verify" => row.secret # None
  /\ kind = "login" => row.active
  /\ kind = "acknowledge" => row.resolved = None
Admits(kind, row) ==
  /\ kind = "setup" => ~(row.enabled /\ row.secret # None)
  /\ kind = "verify" => row.secret # None
  /\ kind = "login" => row.active
  /\ kind = "acknowledge" => row.resolved = None

Load(r, u, kind) ==
  /\ At(r, "idle") /\ Admits(kind, rows[u])
  /\ req' = [req EXCEPT ![r] =
       [NoRequest EXCEPT !.pc = "loaded", !.kind = kind, !.user = u, !.row = rows[u]]]
  /\ serial' = IF \A q \in InFlight(u) : req[q].kind \notin Rivals(kind) THEN serial
               ELSE [serial EXCEPT ![u] = @ \ Rivals(kind)]
  /\ UNCHANGED <<tables, engine, history>>

\* The UPDATE of a commit: the columns that differ from the loaded row.
\* Variant: all columns.
FlushAll(row, old, new) == new
Column(current, old, new) == IF new = old THEN current ELSE new
Flush(row, old, new) ==
  [active   |-> Column(row.active,   old.active,   new.active),
   enabled  |-> Column(row.enabled,  old.enabled,  new.enabled),
   secret   |-> Column(row.secret,   old.secret,   new.secret),
   blob     |-> Column(row.blob,     old.blob,     new.blob),
   resolved |-> Column(row.resolved, old.resolved, new.resolved)]

Save(r, new) ==
  rows' = [rows EXCEPT ![req[r].user] = Flush(@, req[r].row, new)]

-----------------------------------------------------------------------------
(* Administrators and enrolment                                            *)

\* write_audit_log and the commit end the handlers of administrators.
Commit(r, kind, new) ==
  /\ At(r, "loaded") /\ req[r].kind = kind
  /\ Save(r, new)
  /\ audit' = audit \cup ({r} \cap {q \in Requests : kind \in AdminKinds})
  /\ Over(r)
  /\ UNCHANGED <<sessions, devices, engine, learnt, serial>>

\* The administrators who act are not among Users, so none deactivates himself.
Deactivate(r) ==
  /\ Commit(r, "deactivate", [req[r].row EXCEPT !.active = FALSE])
  /\ UNCHANGED <<issued, confirmed, forced>>

Acknowledge(r) ==
  /\ Commit(r, "acknowledge", [req[r].row EXCEPT !.resolved = r])
  /\ UNCHANGED <<issued, confirmed, forced>>

ForceMfa(r) ==
  /\ Commit(r, "force", [req[r].row EXCEPT !.enabled = TRUE])
  /\ forced' = forced \cup {req[r].user}
  /\ UNCHANGED <<issued, confirmed>>

ResetMfa(r) ==
  /\ Commit(r, "reset", [req[r].row EXCEPT !.secret = None, !.enabled = FALSE])
  /\ forced' = forced \ {req[r].user}
  /\ UNCHANGED <<issued, confirmed>>

MfaSetup(r, s) ==
  /\ s \notin issued
  /\ Commit(r, "setup", [req[r].row EXCEPT !.secret = s])
  /\ issued' = issued \cup {s}
  /\ UNCHANGED <<confirmed, forced>>

\* The code was checked against the secret of the loaded row.
MfaVerify(r) ==
  /\ Commit(r, "verify", [req[r].row EXCEPT !.enabled = TRUE])
  /\ confirmed' = confirmed \cup {req[r].row.secret}
  /\ UNCHANGED <<issued, forced>>

-----------------------------------------------------------------------------
(* Login                                                                   *)

\* profile_deserialize, if there is a blob.
\* Variant: the stored profile is not loaded.
Unrestored(row, profile) == profile
Restored(row, profile) == IF row.blob = {} THEN profile ELSE row.blob

Restore(r) ==
  /\ At(r, "loaded") /\ req[r].kind = "login"
  /\ Goto(r, "restored")
  /\ engine' = [engine EXCEPT ![req[r].user] = Restored(req[r].row, @)]
  /\ UNCHANGED <<tables, history, serial>>

\* The engine refuses the blob, or cannot read one.  The login ignores the
\* result and goes on with what the engine has in memory.
RestoreFails(r) ==
  /\ At(r, "loaded") /\ req[r].kind = "login" /\ req[r].row.blob # {}
  /\ Goto(r, "restored")
  /\ learnt' = learnt \ (By(req[r].user, learnt) \ engine[req[r].user])
  /\ UNCHANGED <<tables, engine, issued, confirmed, forced, serial>>

\* evaluate_login
Evaluate(r) ==
  /\ At(r, "restored")
  /\ Goto(r, "scored")
  /\ engine' = [engine EXCEPT ![req[r].user] = @ \cup {r}]
  /\ UNCHANGED <<tables, history, serial>>

\* profile_serialize; when the engine fails there are no bytes.
Serialize(r) ==
  /\ At(r, "scored")
  /\ \E bytes \in {engine[req[r].user], {}} :
       req' = [req EXCEPT ![r].pc = "saving", ![r].got = bytes]
  /\ UNCHANGED <<tables, engine, history, serial>>

\* A blocked login saves the profile too, but has no session.
SaveLogin(r) ==
  /\ At(r, "saving")
  /\ Save(r, [req[r].row EXCEPT !.blob = IF req[r].got = {} THEN @ ELSE req[r].got])
  /\ learnt' = learnt \cup {q \in {r} : req[r].got # {}}
  /\ \/ sessions' = sessions \cup {r} /\ Goto(r, "device")
     \/ UNCHANGED sessions /\ Over(r)
  /\ UNCHANGED <<audit, devices, engine, issued, confirmed, forced, serial>>

\* The device is looked up and counted in a transaction of its own.
DeviceRows(u) == {d \in By(u, Requests) : devices[d] > 0}
Lookup(u) == IF DeviceRows(u) = {} THEN {NotFound}
             ELSE {[login |-> d, count |-> devices[d]] : d \in DeviceRows(u)}

FindDevice(r) ==
  /\ At(r, "device")
  /\ \E f \in Lookup(req[r].user) :
       req' = [req EXCEPT ![r].pc = "counting", ![r].found = f]
  /\ UNCHANGED <<tables, engine, history, serial>>

\* Variant: a new row is inserted whatever was found.
InsertedAlways(r) == [devices EXCEPT ![r] = req[r].found.count + 1]
Counted(r) ==
  IF req[r].found = NotFound THEN [devices EXCEPT ![r] = 1]
  ELSE [devices EXCEPT ![req[r].found.login] = req[r].found.count + 1]

CountDevice(r) ==
  /\ At(r, "counting")
  /\ devices' = Counted(r)
  /\ Over(r)
  /\ UNCHANGED <<rows, audit, sessions, engine, history, serial>>

-----------------------------------------------------------------------------
\* An exception before the commit: the transaction is rolled back.
Fail(r) ==
  /\ r \in InFlight(req[r].user)
  /\ Over(r)
  /\ UNCHANGED <<tables, engine, history, serial>>

\* The process dies and starts again.
Restart ==
  /\ engine' = [u \in Users |-> {}]
  /\ req' = [r \in Requests |->
       IF r \notin InFlight(req[r].user) THEN req[r]
       ELSE [NoRequest EXCEPT !.pc = "over", !.kind = req[r].kind, !.user = req[r].user]]
  /\ UNCHANGED <<tables, history, serial>>

Login(r) ==
  \/ Restore(r) \/ RestoreFails(r) \/ Evaluate(r) \/ Serialize(r) \/ SaveLogin(r)
  \/ FindDevice(r) \/ CountDevice(r)

Next ==
  \/ \E r \in Requests :
       \/ \E u \in Users, kind \in Kinds : Load(r, u, kind)
       \/ Deactivate(r) \/ Acknowledge(r) \/ ForceMfa(r) \/ ResetMfa(r)
       \/ \E s \in Secrets : MfaSetup(r, s)
       \/ MfaVerify(r) \/ Login(r) \/ Fail(r)
  \/ Restart

Spec == Init /\ [][Next]_vars

-----------------------------------------------------------------------------
(* Properties                                                              *)

\* Every variable has its type.
TypeOK ==
  /\ rows \in [Users -> Row]
  /\ audit \subseteq Requests /\ sessions \subseteq Requests
  /\ devices \in [Requests -> Nat]
  /\ engine \in [Users -> SUBSET Requests]
  /\ req \in [Requests -> Request]
  /\ issued \subseteq Secrets /\ confirmed \subseteq issued
  /\ forced \subseteq Users /\ serial \in [Users -> SUBSET Kinds]
  /\ learnt \subseteq Requests

\* An account is inactive exactly when its deactivation is audited: no save of
\* a row loaded before, by a login, a verification or another administrator,
\* brings it back.
InactiveAudited ==
  \A u \in Users : ~rows[u].active <=>
    \E r \in By(u, audit) : req[r].kind = "deactivate"

\* While the requests that set up, verify, force or reset a user's MFA do not
\* overlap each other, it is enabled only with a secret of which a code was
\* accepted, unless an administrator forced it.
SerialEnrolment ==
  \A u \in Users \ forced : MfaKinds \subseteq serial[u] /\ rows[u].enabled
    => rows[u].secret \in confirmed

\* The administrator an alert names has an audit row for it; the alert is
\* acknowledged once unless two acknowledgements overlapped.
AcknowledgedAudited ==
  \A u \in Users :
    LET acks == {r \in By(u, audit) : req[r].kind = "acknowledge"} IN
    /\ acks # {} => rows[u].resolved \in acks
    /\ "acknowledge" \in serial[u] => \A r, q \in acks : r = q

\* While a user's logins do not overlap, the stored profile keeps every login
\* that was saved in it, over restarts, profiles that cannot be serialized and
\* whatever other requests save the row.  Refusing the stored profile costs
\* only the logins that the engine no longer has in memory, as after a restart.
SerialProfile ==
  \A u \in Users : "login" \in serial[u] => By(u, learnt) \subseteq rows[u].blob

\* A device never counts more logins than there were sessions, and has one row
\* while the logins do not overlap.
DeviceCounts ==
  \A u \in Users :
    /\ \A d \in DeviceRows(u) : devices[d] <= Cardinality(By(u, sessions))
    /\ "login" \in serial[u] => \A d, e \in DeviceRows(u) : d = e
=============================================================================
