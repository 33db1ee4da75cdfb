------------------------------- MODULE RiskGate -------------------------------
(***************************************************************************)
(* The zero-trust gate (app/middleware/risk.py) and the route handlers     *)
(* that share the session row and the token blacklist with it: login,      *)
(* /auth/mfa/verify, /auth/logout, /admin/sessions/{id}/override and       *)
(* /admin/users/{id}/reset-mfa.                                            *)
(*                                                                         *)
(* The middleware is a coroutine that never awaits between decoding the    *)
(* token and enforcing the verdict, so at most one request is inside it;   *)
(* the handlers are plain functions in worker threads and interleave with  *)
(* it at every database or Redis call.  Each request owns a SQLAlchemy     *)
(* session: an object read once keeps its values until a commit, and an    *)
(* UPDATE writes the columns whose new value differs from the loaded one.  *)
(***************************************************************************)
EXTENDS Integers

CONSTANTS
  Sessions,         \* sessions that may be created; each has one token (jti)
  Users, Owner,     \* Owner[s]: the user of session s
  AdminSessions,    \* sessions whose token carries the role "admin"
  Requests,         \* slots for concurrent requests
  Paths,            \* the routes the clients use
  Verdicts,         \* the [decision, score] pairs the engine may answer
  OverrideScore,    \* the score an override writes (0.1)
  HighScore,        \* the score that raises a high_score alert (0.7)
  MfaWindow,        \* MFA_WINDOW_SEC
  AlertWindow,      \* the alert deduplication window
  SessionLife,      \* lifetime stored in active_sessions.expires_at
  JwtExpire,        \* JWT_EXPIRE_MINUTES
  BlacklistTtl,     \* TTL of a blacklist:<jti> key
  MaxClock,         \* bound on the clock (model checking only)
  RedisMayRestart   \* whether Redis may lose its keys

Never == -1
Targeted    == {"override", "reset"}
AdminPaths  == Targeted \cup {"list"}     \* "list": the GET routes of /admin
AllPaths    == AdminPaths \cup {"api", "verify", "logout"}
Decision    == {"allow", "restrict", "mfa", "block"}
AlertTypes  == {"block", "mfa_step_up_failed", "high_score"}
RowDecision == Decision \cup {"logged_out"}
Time        == Nat \cup {Never}

ASSUME SessionsAssumption ==
  /\ Sessions # {}
  /\ AdminSessions \subseteq Sessions
  /\ Owner \in [Sessions -> Users]
ASSUME PathsAssumption    == Paths \subseteq AllPaths
ASSUME VerdictsAssumption == Verdicts \subseteq [decision : Decision, score : Nat]
ASSUME ScoresAssumption   == OverrideScore \in Nat /\ HighScore \in Nat
ASSUME TimesAssumption    ==
  /\ {MfaWindow, AlertWindow, SessionLife, JwtExpire, BlacklistTtl, MaxClock} \subseteq Nat
  /\ SessionLife > 0
ASSUME RedisAssumption    == RedisMayRestart \in BOOLEAN

VARIABLES
  clock,      \* seconds
  issued,     \* the sessions whose row and token exist
  row,        \* row[s]: the active_sessions row
  exp,        \* exp[s]: the token's exp claim
  blacklist,  \* blacklist[s]: when the Redis key expires, or Never
  riskLog,    \* riskLog[s]: the newest risk_event_log row of the session
  alert,      \* alert[s][type]: created_at of the newest such alert
  pc,         \* pc[r]: the next step of request r, or how it was answered
  req,        \* req[r]: its token, route and target session
  began,      \* began[r]: when the gate's transaction for it began, then the
              \* one in which it verifies a code
  snap,       \* snap[r][s]: the row of s as r loaded it (identity map)
  verdict,    \* verdict[r]: what the engine answered, and what the gate saw
              \* when it decided about an alert
  logout      \* history: how far a logout of the session got, and whether
              \* Redis has lost the key it set

dbVars   == <<issued, row, exp, riskLog, alert>>
reqVars  == <<pc, req, began, snap, verdict>>
vars     == <<clock, blacklist, logout, dbVars, reqVars>>

Row == [pending : BOOLEAN, verifiedAt : Time, decision : RowDecision,
        score : Nat, expiresAt : Time]
Blank == [pending |-> FALSE, verifiedAt |-> Never, decision |-> "allow",
          score |-> 0, expiresAt |-> Never]
LogRow   == [before : Nat, after : Nat, decision : Decision]
NoLog    == [before |-> 0, after |-> 0, decision |-> "allow"]
Verdict   == [decision : Decision, score : Nat,
              seen : {"unverified", "verified", "failed"}]
NoVerdict == [decision |-> "allow", score |-> 0, seen |-> "unverified"]
Request   == [jti : Sessions, path : AllPaths, target : Sessions]
NoRequest == LET s == CHOOSE s \in Sessions : TRUE
             IN  [jti |-> s, path |-> "api", target |-> s]

Refused == {"blocked", "step_up", "restricted"}
Resting == Refused \cup {"idle"}
InGate  == {"blacklist", "load", "score", "enforce"}
Steps   == Resting \cup InGate \cup {"handler", "commit", "revoke"}

-----------------------------------------------------------------------------
(* What the code asks of a token, a row and the alerts table.              *)

TokenDecodes(s) == s \in issued /\ clock <= exp[s]

\* Redis drops a key during the second its deadline falls in.
MayHit(s)  == blacklist[s] # Never /\ clock <= blacklist[s]
MayMiss(s) == blacklist[s] = Never \/ clock >= blacklist[s]

\* A login that needs MFA bars every route but /auth/mfa/verify.
\* Variant: every route of the user's own is exempt.
BarsAdminOnly(s, p) == row[s].pending /\ p \in AdminPaths
Barred(s, p) == row[s].pending /\ p # "verify"

Verified(r) == r.verifiedAt # Never /\ clock - r.verifiedAt < MfaWindow

Listed(s) == /\ s \in issued
             /\ row[s].expiresAt > clock
             /\ row[s].decision # "logged_out"

AlertFor(v, verified) ==
  CASE v.decision = "block"                          -> {"block"}
    [] v.decision = "mfa"                            -> IF verified THEN {} ELSE {"mfa_step_up_failed"}
    [] v.decision \notin {"block", "mfa"} /\ v.score >= HighScore -> {"high_score"}
    [] OTHER                                         -> {}

\* Variant: the deduplication query without its time condition.
EverRaised(s, a) == alert[s][a] # Never
Recent(s, a) == alert[s][a] # Never /\ alert[s][a] >= clock - AlertWindow

\* What a flush leaves in one column, and in the row.
Dirty(current, loaded, new) == IF new = loaded THEN current ELSE new
\* Variants: every column is saved; one column is lost by the mapping.
SaveWholeRow(current, loaded, new) == new
LoseExpiry(current, loaded, new) ==
  [x \in (DOMAIN current) \ {"expiresAt"} |-> Dirty(current[x], loaded[x], new[x])]
Flush(current, loaded, new) ==
  [pending    |-> Dirty(current.pending,    loaded.pending,    new.pending),
   verifiedAt |-> Dirty(current.verifiedAt, loaded.verifiedAt, new.verifiedAt),
   decision   |-> Dirty(current.decision,   loaded.decision,   new.decision),
   score      |-> Dirty(current.score,      loaded.score,      new.score),
   expiresAt  |-> Dirty(current.expiresAt,  loaded.expiresAt,  new.expiresAt)]

\* Variant: a second worker process, or a threaded middleware.
NoLoop == TRUE
LoopFree == \A r \in Requests : pc[r] \notin InGate

Goto(r, step)   == pc' = [pc EXCEPT ![r] = step]
\* Closing the database session forgets what was loaded through it.
Close(r, step) == /\ Goto(r, step)
                  /\ snap' = [snap EXCEPT ![r] = [s \in Sessions |-> Blank]]
Forget(r) == verdict' = [verdict EXCEPT ![r] = NoVerdict]
Finish(r) == /\ Close(r, "idle")
             /\ Forget(r)
             /\ req' = [req EXCEPT ![r] = NoRequest]
             /\ began' = [began EXCEPT ![r] = Never]

-----------------------------------------------------------------------------
Init ==
  /\ clock = 0
  /\ issued = {}
  /\ row = [s \in Sessions |-> Blank]
  /\ exp = [s \in Sessions |-> Never]
  /\ blacklist = [s \in Sessions |-> Never]
  /\ riskLog = [s \in Sessions |-> NoLog]
  /\ alert = [s \in Sessions |-> [a \in AlertTypes |-> Never]]
  /\ pc = [r \in Requests |-> "idle"]
  /\ req = [r \in Requests |-> NoRequest]
  /\ began = [r \in Requests |-> Never]
  /\ snap = [r \in Requests |-> [s \in Sessions |-> Blank]]
  /\ verdict = [r \in Requests |-> NoVerdict]
  /\ logout = [s \in Sessions |-> "no"]

(* A login the engine does not block: one commit stores the session and    *)
(* its log row; a blocked login leaves no session.                         *)
Login(s, v) ==
  /\ s \notin issued
  /\ v.decision # "block"
  /\ issued' = issued \cup {s}
  /\ row' = [row EXCEPT ![s] =
       [pending |-> v.decision = "mfa", verifiedAt |-> Never,
        decision |-> v.decision, score |-> v.score,
        expiresAt |-> clock + SessionLife]]
  /\ exp' = [exp EXCEPT ![s] = clock + JwtExpire]
  /\ riskLog' = [riskLog EXCEPT ![s] =
       [before |-> 0, after |-> v.score, decision |-> v.decision]]
  /\ UNCHANGED <<clock, blacklist, alert, reqVars, logout>>

-----------------------------------------------------------------------------
(* RiskMiddleware.dispatch                                                 *)

\* The token decodes, and an admin route needs an admin token.
Dispatch(r, s, p, t) ==
  /\ pc[r] \in Resting
  /\ LoopFree
  /\ TokenDecodes(s)
  /\ p \in Paths \ {"logout"}
  /\ p \in AdminPaths => s \in AdminSessions
  /\ p \notin Targeted => t = s
  /\ Goto(r, "blacklist")
  /\ req' = [req EXCEPT ![r] = [jti |-> s, path |-> p, target |-> t]]
  /\ Forget(r)
  /\ UNCHANGED <<clock, blacklist, dbVars, began, snap, logout>>

CheckBlacklist(r) ==
  /\ pc[r] = "blacklist"
  /\ \/ /\ MayMiss(req[r].jti)
        /\ Goto(r, "load")
        /\ UNCHANGED <<req, began, snap, verdict>>
     \/ /\ MayHit(req[r].jti)
        /\ Finish(r)
  /\ UNCHANGED <<clock, blacklist, dbVars, logout>>

LoadSession(r) ==
  LET s == req[r].jti IN
  /\ pc[r] = "load"
  /\ IF Barred(s, req[r].path)
       THEN Finish(r)
       ELSE /\ Goto(r, "score")
            /\ began' = [began EXCEPT ![r] = clock]
            /\ snap' = [snap EXCEPT ![r][s] = row[s]]
            /\ UNCHANGED <<req, verdict>>
  /\ UNCHANGED <<clock, blacklist, dbVars, logout>>

\* The engine's verdict: one commit of the row, the log row and the alert;
\* an exception from the lines on the alert is swallowed, and there is none.
Evaluate(r, v) ==
  LET s      == req[r].jti
      loaded == snap[r][s]
      new    == [loaded EXCEPT !.score = v.score, !.decision = v.decision]
      raised == [a \in AlertTypes |->
        IF a \in AlertFor(v, Verified(loaded)) /\ ~Recent(s, a)
          THEN began[r] ELSE alert[s][a]]
  IN
  /\ pc[r] = "score"
  /\ row' = [row EXCEPT ![s] = Flush(row[s], loaded, new)]
  /\ riskLog' = [riskLog EXCEPT ![s] =
       [before |-> loaded.score, after |-> v.score, decision |-> v.decision]]
  /\ \E seen \in {"failed", IF Verified(loaded) THEN "verified" ELSE "unverified"} :
       /\ alert' = IF seen = "failed" THEN alert ELSE [alert EXCEPT ![s] = raised]
       /\ verdict' = [verdict EXCEPT ![r] =
            [decision |-> v.decision, score |-> v.score, seen |-> seen]]
  /\ Goto(r, "enforce")
  /\ UNCHANGED <<clock, blacklist, issued, exp, req, began, snap, logout>>

\* The commit expired the row, so the enforcement reads it again.
Enforce(r) ==
  LET v == verdict[r]
      answer == CASE v.decision = "block" -> "blocked"
                  [] v.decision = "mfa" /\ ~Verified(row[req[r].jti]) -> "step_up"
                  [] v.decision = "restrict" /\ req[r].path \in AdminPaths -> "restricted"
                  [] OTHER -> "handler"
  IN
  /\ pc[r] = "enforce"
  /\ Close(r, answer)
  /\ IF answer = "handler" THEN Forget(r) ELSE UNCHANGED verdict
  /\ UNCHANGED <<clock, blacklist, dbVars, req, began, logout>>

-----------------------------------------------------------------------------
(* The route handlers, in worker threads.                                  *)

\* A route that only reads: /auth/me, GET /admin/...
Serve(r) ==
  /\ pc[r] = "handler" /\ req[r].path \in {"api", "list"}
  /\ Finish(r)
  /\ UNCHANGED <<clock, blacklist, dbVars, logout>>

\* mfa_verify reads the session; the code (module MfaVerify) is right or wrong.
\* The time it stamps is taken between this and its commit.
VerifyLoad(r) ==
  LET s == req[r].jti IN
  /\ pc[r] = "handler" /\ req[r].path = "verify"
  /\ TokenDecodes(s)
  /\ \/ /\ Goto(r, "commit")
        /\ snap' = [snap EXCEPT ![r][s] = row[s]]
        /\ began' = [began EXCEPT ![r] = clock]
        /\ UNCHANGED <<req, verdict>>
     \/ Finish(r)
  /\ UNCHANGED <<clock, blacklist, dbVars, logout>>

VerifyCommit(r) ==
  LET s == req[r].jti IN
  /\ pc[r] = "commit" /\ req[r].path = "verify"
  /\ \E now \in began[r]..clock :
       row' = [row EXCEPT ![s] = Flush(row[s], snap[r][s],
                 [snap[r][s] EXCEPT !.verifiedAt = now, !.pending = FALSE])]
  /\ Finish(r)
  /\ UNCHANGED <<clock, blacklist, issued, exp, riskLog, alert, logout>>

OverrideLoad(r) ==
  LET t == req[r].target IN
  /\ pc[r] = "handler" /\ req[r].path = "override"
  /\ TokenDecodes(req[r].jti)
  /\ IF t \in issued
       THEN /\ Goto(r, "commit")
            /\ snap' = [snap EXCEPT ![r][t] = row[t]]
            /\ UNCHANGED <<req, began, verdict>>
       ELSE Finish(r)
  /\ UNCHANGED <<clock, blacklist, dbVars, logout>>

OverrideCommit(r) ==
  LET t   == req[r].target
      new == [snap[r][t] EXCEPT !.score = OverrideScore, !.decision = "allow"] IN
  /\ pc[r] = "commit" /\ req[r].path = "override"
  /\ row' = [row EXCEPT ![t] = Flush(row[t], snap[r][t], new)]
  /\ Finish(r)
  /\ UNCHANGED <<clock, blacklist, issued, exp, riskLog, alert, logout>>

\* reset_mfa loads the pending sessions of the target's user ...
ResetLoad(r) ==
  LET user == Owner[req[r].target] IN
  /\ pc[r] = "handler" /\ req[r].path = "reset"
  /\ TokenDecodes(req[r].jti)
  /\ Goto(r, "commit")
  /\ snap' = [snap EXCEPT ![r] = [s \in Sessions |->
       IF Owner[s] = user /\ row[s].pending THEN row[s] ELSE Blank]]
  /\ UNCHANGED <<clock, blacklist, dbVars, req, began, verdict, logout>>

\* ... and clears the flag of those it loaded.
ResetCommit(r) ==
  /\ pc[r] = "commit" /\ req[r].path = "reset"
  /\ row' = [s \in Sessions |->
       IF snap[r][s].pending
         THEN Flush(row[s], snap[r][s],
                    [snap[r][s] EXCEPT !.pending = FALSE, !.verifiedAt = Never])
         ELSE row[s]]
  /\ Finish(r)
  /\ UNCHANGED <<clock, blacklist, issued, exp, riskLog, alert, logout>>

\* Variants: only the decision is changed; the key lives as long as a
\* step-up verification.
CloseDecision(x) == [x EXCEPT !.decision = "logged_out"]
CloseRow(x) == [x EXCEPT !.decision = "logged_out", !.expiresAt = clock]
ShortTtl == MfaWindow
KeyTtl == BlacklistTtl

\* logout is outside the gate: decode, load, commit the row, then Redis.
LogoutLoad(r, s) ==
  /\ pc[r] \in Resting
  /\ "logout" \in Paths
  /\ TokenDecodes(s)
  /\ Goto(r, "commit")
  /\ req' = [req EXCEPT ![r] = [jti |-> s, path |-> "logout", target |-> s]]
  /\ snap' = [snap EXCEPT ![r][s] = row[s]]
  /\ Forget(r)
  /\ UNCHANGED <<clock, blacklist, dbVars, began, logout>>

LogoutCommit(r) ==
  LET s == req[r].jti IN
  /\ pc[r] = "commit" /\ req[r].path = "logout"
  /\ row' = [row EXCEPT ![s] = Flush(row[s], snap[r][s], CloseRow(snap[r][s]))]
  /\ logout' = [logout EXCEPT ![s] = IF @ = "no" THEN "closed" ELSE @]
  /\ Goto(r, "revoke")
  /\ snap' = [snap EXCEPT ![r][s] = Blank]
  /\ UNCHANGED <<clock, blacklist, issued, exp, riskLog, alert, req, began, verdict>>

LogoutRevoke(r) ==
  LET s == req[r].jti IN
  /\ pc[r] = "revoke"
  /\ blacklist' = [blacklist EXCEPT ![s] = clock + KeyTtl]
  /\ logout' = [logout EXCEPT ![s] = "revoked"]
  /\ Finish(r)
  /\ UNCHANGED <<clock, dbVars>>

-----------------------------------------------------------------------------
\* Any step may fail with an exception, and the process may die.
Abort(r) ==
  /\ pc[r] \notin Resting
  /\ Finish(r)
  /\ UNCHANGED <<clock, blacklist, dbVars, logout>>

Tick ==
  /\ clock < MaxClock
  /\ clock' = clock + 1
  /\ UNCHANGED <<blacklist, dbVars, reqVars, logout>>

RedisRestart ==
  /\ RedisMayRestart
  /\ blacklist' = [s \in Sessions |-> Never]
  /\ logout' = [s \in Sessions |-> IF logout[s] = "revoked" THEN "forgotten" ELSE logout[s]]
  /\ UNCHANGED <<clock, dbVars, reqVars>>

Next ==
  \/ \E s \in Sessions, v \in Verdicts : Login(s, v)
  \/ \E r \in Requests, s, t \in Sessions, p \in Paths : Dispatch(r, s, p, t)
  \/ \E r \in Requests, v \in Verdicts : Evaluate(r, v)
  \/ \E r \in Requests, s \in Sessions : LogoutLoad(r, s)
  \/ \E r \in Requests :
       \/ CheckBlacklist(r) \/ LoadSession(r) \/ Enforce(r) \/ Serve(r)
       \/ VerifyLoad(r) \/ VerifyCommit(r)
       \/ OverrideLoad(r) \/ OverrideCommit(r)
       \/ ResetLoad(r) \/ ResetCommit(r)
       \/ LogoutCommit(r) \/ LogoutRevoke(r)
       \/ Abort(r)
  \/ Tick
  \/ RedisRestart

Spec == Init /\ [][Next]_vars

-----------------------------------------------------------------------------
(* Properties                                                              *)

\* Every variable has its type.
TypeOK ==
  /\ clock \in Nat
  /\ issued \subseteq Sessions
  /\ row \in [Sessions -> Row]
  /\ exp \in [Sessions -> Time]
  /\ blacklist \in [Sessions -> Time]
  /\ riskLog \in [Sessions -> LogRow]
  /\ alert \in [Sessions -> [AlertTypes -> Time]]
  /\ pc \in [Requests -> Steps]
  /\ req \in [Requests -> Request]
  /\ began \in [Requests -> Time]
  /\ snap \in [Requests -> [Sessions -> Row]]
  /\ verdict \in [Requests -> Verdict]
  /\ logout \in [Sessions -> {"no", "closed", "revoked", "forgotten"}]

\* A request that runs a route other than /auth/mfa/verify runs it for a
\* session with no login MFA pending, whatever other requests wrote to the
\* row since the gate read the flag.
MfaBeforeService ==
  \A r \in Requests :
    pc[r] \in {"handler", "commit"} /\ req[r].path \notin {"verify", "logout"}
      => ~row[req[r].jti].pending

\* A satisfied login MFA is never asked for again and a verification is
\* never undone, although every gate pass, override, reset and logout saves
\* a row it read earlier.  Its time moves back only where two verifications
\* of the session overlap: to a time since the request that does it loaded
\* the row, and over one committed since then.
Overtakes(r, s) ==
  /\ pc[r] = "commit" /\ req[r].path = "verify" /\ req[r].jti = s
  /\ began[r] <= row'[s].verifiedAt
  /\ snap[r][s].verifiedAt # row[s].verifiedAt
MfaProgress ==
  [][\A s \in issued :
       /\ row'[s].pending => row[s].pending
       /\ row[s].verifiedAt # Never => row'[s].verifiedAt # Never
       /\ row'[s].verifiedAt < row[s].verifiedAt
            => \E r \in Requests : Overtakes(r, s)]_vars

\* Once logout has answered, no request gets past the blacklist check with
\* that token before the token expires, as long as Redis has not lost its
\* keys since.
RevokedTokenRefused ==
  [][\A r \in Requests :
       pc[r] = "blacklist" /\ pc'[r] = "load"
         => ~(logout[req[r].jti] = "revoked" /\ clock < exp[req[r].jti])]_vars

\* Technical_Note.md:153-154: after a logout the token stops working for good,
\* and nothing that must survive a restart is in Redis (290-291).
LogoutFinal ==
  [][\A r \in Requests :
       pc[r] = "blacklist" /\ pc'[r] = "load"
         => ~(logout[req[r].jti] \in {"revoked", "forgotten"} /\ clock < exp[req[r].jti])]_vars

\* A session whose logout was committed never shows up in the admin's list
\* of live sessions again, not even when a gate pass in flight overwrites
\* its decision.
LoggedOutNotListed ==
  \A s \in Sessions : logout[s] # "no" => ~Listed(s)

\* Score and decision of a row each come from the newest logged verdict,
\* from an override or from a logout: no in-flight pass or handler brings
\* an older verdict back.
RowTraceable ==
  \A s \in issued :
    /\ row[s].score \in {riskLog[s].after, OverrideScore}
    /\ row[s].decision \in {riskLog[s].decision, "allow", "logged_out"}

\* The log of a session is a chain: a new row's "before" is the score the
\* previous row ended with, or an override's.
RiskTrailChained ==
  [][\A s \in issued :
       riskLog'[s] # riskLog[s]
         => riskLog'[s].before \in {riskLog[s].after, OverrideScore}]_vars

\* Every request the gate refuses, with 403 or with a step-up, has the alert
\* that its verdict calls for, at most the deduplication window older than
\* the request, though passes of other requests raise alerts in between;
\* unless creating it failed.  A step-up calls for none when the session was
\* verified as it was scored and the verification lapsed before the refusal.
RefusalAlerted ==
  \A r \in Requests :
    pc[r] \in Refused /\ verdict[r].seen # "failed" =>
      \A a \in AlertFor(verdict[r], verdict[r].seen = "verified") :
        /\ alert[req[r].jti][a] # Never
        /\ alert[req[r].jti][a] + AlertWindow >= began[r]

\* Technical_Note.md:88 and docs/API_CONTRACT.md:281: after a step-up answer
\* the client calls /auth/mfa/verify, which stays reachable.
VerifyReachable ==
  \A r \in Requests :
    req[r].path = "verify" => pc[r] \notin {"step_up", "blocked"}

\* The gate and the handlers implement the abstract life of a session: only
\* its own verification or an open administrator's reset opens it, only an
\* open one is served, and neither logging out nor revoking is undone by a
\* row or a key that another request writes late.
Stage == [s \in Sessions |-> CASE s \notin issued -> "none"
                              [] s \in issued /\ row[s].pending -> "pending"
                              [] OTHER -> "open"]
Live    == {s \in Sessions : Listed(s)}
Ended   == {s \in Sessions : logout[s] # "no"}
Revoked == {s \in Sessions : logout[s] = "revoked" /\ clock < exp[s]}
Running(r)  == pc[r] \in {"handler", "commit"} /\ req[r].path \notin {"verify", "logout"}
Admitted(r) == \/ pc[r] \in {"load", "score", "enforce"}
               \/ pc[r] \in {"handler", "commit"} /\ req[r].path = "verify"
AdmittedTo == [s \in Sessions |-> {r \in Requests : req[r].jti = s /\ Admitted(r)}]
ServedTo   == [s \in Sessions |-> {r \in Requests : req[r].jti = s /\ Running(r)}]

Life == INSTANCE SessionLifecycle WITH
  Admins <- AdminSessions, stage <- Stage, listed <- Live, closed <- Ended,
  revoked <- Revoked, admitted <- AdmittedTo, serving <- ServedTo
SessionsImplemented == Life!Spec
=============================================================================
