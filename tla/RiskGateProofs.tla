---------------------------- MODULE RiskGateProofs ----------------------------
(***************************************************************************)
(* Theorems about RiskGate, for any number of sessions, requests and       *)
(* verdicts and any durations.                                             *)
(***************************************************************************)
EXTENDS RiskGate, TLAPS

USE DEF Time, Never

-----------------------------------------------------------------------------
(* Lemmas on the helpers.                                                  *)

\* A flush of typed rows leaves a typed row.
LEMMA FlushType ==
  ASSUME NEW current \in Row, NEW loaded \in Row, NEW new \in Row
  PROVE  Flush(current, loaded, new) \in Row
BY DEF Flush, Dirty, Row

\* A row a logout has closed is a row.
LEMMA CloseRowType ==
  ASSUME NEW x \in Row, clock \in Nat
  PROVE  CloseRow(x) \in Row
BY DEF CloseRow, Row, RowDecision

\* The request an idle slot holds is a request.
LEMMA NoRequestType == NoRequest \in Request
BY SessionsAssumption DEF NoRequest, Request, AllPaths

\* The row that stands for "not loaded" is a row.
LEMMA BlankType == Blank \in Row
BY DEF Blank, Row, RowDecision, Decision

\* A request sent to a known step keeps the type of pc.
LEMMA GotoType ==
  ASSUME TypeOK, NEW r \in Requests, NEW step \in Steps, Goto(r, step)
  PROVE  pc' \in [Requests -> Steps]
BY DEF TypeOK, Goto

\* Loading a row into a request keeps the type of snap.
LEMMA LoadType ==
  ASSUME TypeOK, NEW r \in Requests, NEW s \in Sessions,
         snap' = [snap EXCEPT ![r][s] = row[s]]
  PROVE  snap' \in [Requests -> [Sessions -> Row]]
<1>1. [snap[r] EXCEPT ![s] = row[s]] \in [Sessions -> Row]
  BY DEF TypeOK
<1> QED
  BY <1>1 DEF TypeOK

\* A request whose database session closes has typed fields.
LEMMA CloseType ==
  ASSUME TypeOK, NEW r \in Requests, NEW step \in Steps, Close(r, step)
  PROVE  /\ pc' \in [Requests -> Steps]
         /\ snap' \in [Requests -> [Sessions -> Row]]
<1>1. [s \in Sessions |-> Blank] \in [Sessions -> Row]
  BY BlankType
<1> QED
  BY <1>1, GotoType DEF TypeOK, Close

\* Forgetting a verdict leaves a verdict.
LEMMA ForgetType ==
  ASSUME TypeOK, NEW r \in Requests, Forget(r)
  PROVE  verdict' \in [Requests -> Verdict]
<1>1. NoVerdict \in Verdict
  BY DEF NoVerdict, Verdict, Decision
<1> QED
  BY <1>1 DEF TypeOK, Forget

\* A request that ends has typed fields.
LEMMA FinishType ==
  ASSUME TypeOK, NEW r \in Requests, Finish(r)
  PROVE  /\ pc' \in [Requests -> Steps]
         /\ snap' \in [Requests -> [Sessions -> Row]]
         /\ verdict' \in [Requests -> Verdict]
         /\ req' \in [Requests -> Request]
         /\ began' \in [Requests -> Time]
BY CloseType, ForgetType, NoRequestType DEF TypeOK, Finish, Steps, Resting

-----------------------------------------------------------------------------
\* Every variable keeps its type.
THEOREM TypeCorrect == Spec => []TypeOK
<1>1. Init => TypeOK
  <2> SUFFICES ASSUME Init PROVE TypeOK
    OBVIOUS
  <2>1. NoRequest \in Request /\ Blank \in Row
    BY NoRequestType, BlankType
  <2> QED
    BY <2>1 DEF Init, TypeOK, NoLog, LogRow, Decision, Steps, Resting, NoVerdict, Verdict
<1>2. TypeOK /\ [Next]_vars => TypeOK'
  <2> SUFFICES ASSUME TypeOK, [Next]_vars PROVE TypeOK'
    OBVIOUS
  <2> USE DEF dbVars, reqVars
  <2>1. ASSUME NEW s \in Sessions, NEW v \in Verdicts, Login(s, v)
        PROVE  TypeOK'
    <3>1. v.decision \in Decision /\ v.score \in Nat
      BY VerdictsAssumption
    <3>2. clock + SessionLife \in Nat /\ clock + JwtExpire \in Nat
      BY TimesAssumption DEF TypeOK
    <3> QED
      BY <2>1, <3>1, <3>2 DEF TypeOK, Login, Row, RowDecision, LogRow
  <2>2. ASSUME NEW r \in Requests, NEW s \in Sessions, NEW t \in Sessions,
               NEW p \in Paths, Dispatch(r, s, p, t)
        PROVE  TypeOK'
    <3>1. [jti |-> s, path |-> p, target |-> t] \in Request
      BY PathsAssumption DEF Request
    <3>2. pc' \in [Requests -> Steps]
      BY <2>2, GotoType DEF Dispatch, Steps, InGate
    <3> QED
      BY <2>2, <3>1, <3>2, ForgetType DEF TypeOK, Dispatch
  <2>3. ASSUME NEW r \in Requests, NEW v \in Verdicts, Evaluate(r, v)
        PROVE  TypeOK'
    <3> DEFINE s == req[r].jti
               loaded == snap[r][s]
               new == [loaded EXCEPT !.score = v.score, !.decision = v.decision]
    <3>1. s \in Sessions /\ loaded \in Row /\ row[s] \in Row
      BY DEF TypeOK, Request
    <3>2. v.decision \in Decision /\ v.score \in Nat
      BY VerdictsAssumption
    <3>3. new \in Row
      BY <3>1, <3>2 DEF Row, RowDecision
    <3>4. Flush(row[s], loaded, new) \in Row
      BY <3>1, <3>3, FlushType
    <3>5. row' \in [Sessions -> Row]
      <4>1. row' = [row EXCEPT ![s] = Flush(row[s], loaded, new)]
        BY <2>3 DEF Evaluate
      <4> HIDE DEF s, loaded, new
      <4> QED
        BY <3>1, <3>4, <4>1 DEF TypeOK
    <3>6. riskLog' \in [Sessions -> LogRow]
      BY <2>3, <3>1, <3>2 DEF TypeOK, Evaluate, LogRow, Row
    <3>7. alert' \in [Sessions -> [AlertTypes -> Time]]
      BY <2>3, <3>1 DEF TypeOK, Evaluate
    <3>8. pc' \in [Requests -> Steps]
      BY <2>3, GotoType DEF Evaluate, Steps, InGate
    <3>9. verdict' \in [Requests -> Verdict]
      <4>1. PICK seen \in {"unverified", "verified", "failed"} :
              verdict' = [verdict EXCEPT ![r] =
                [decision |-> v.decision, score |-> v.score, seen |-> seen]]
        BY <2>3 DEF Evaluate
      <4> QED
        BY <3>2, <4>1 DEF TypeOK, Verdict
    <3> QED
      BY <2>3, <3>5, <3>6, <3>7, <3>8, <3>9 DEF TypeOK, Evaluate
  <2>4. ASSUME NEW r \in Requests, NEW s \in Sessions, LogoutLoad(r, s)
        PROVE  TypeOK'
    <3>1. [jti |-> s, path |-> "logout", target |-> s] \in Request
      BY DEF Request, AllPaths
    <3>2. pc' \in [Requests -> Steps]
      BY <2>4, GotoType DEF LogoutLoad, Steps
    <3> QED
      BY <2>4, <3>1, <3>2, ForgetType DEF TypeOK, LogoutLoad
  <2>5. ASSUME NEW r \in Requests, CheckBlacklist(r) PROVE TypeOK'
    <3>1. CASE MayMiss(req[r].jti) /\ Goto(r, "load") /\ UNCHANGED <<req, began, snap, verdict>>
      BY <2>5, <3>1, GotoType DEF TypeOK, CheckBlacklist, Steps, InGate
    <3>2. CASE MayHit(req[r].jti) /\ Finish(r)
      BY <2>5, <3>2, FinishType DEF TypeOK, CheckBlacklist
    <3> QED
      BY <2>5, <3>1, <3>2 DEF CheckBlacklist
  <2>6. ASSUME NEW r \in Requests, LoadSession(r) PROVE TypeOK'
    <3>1. CASE Finish(r)
      BY <2>6, <3>1, FinishType DEF TypeOK, LoadSession
    <3>2. CASE Goto(r, "score") /\ ~Finish(r)
      <4>1. pc' \in [Requests -> Steps]
        BY <3>2, GotoType DEF Steps, InGate
      <4>2. req[r].jti \in Sessions
        BY DEF TypeOK, Request
      <4> QED
        <5>1. snap' \in [Requests -> [Sessions -> Row]]
          BY <2>6, <3>2, <4>2, LoadType DEF LoadSession
        <5>2. began' \in [Requests -> Time]
          BY <2>6, <3>2 DEF LoadSession, TypeOK
        <5> QED
          BY <2>6, <3>2, <4>1, <5>1, <5>2 DEF TypeOK, LoadSession
    <3> QED
      BY <2>6, <3>1, <3>2 DEF LoadSession
  <2>7. ASSUME NEW r \in Requests, Enforce(r) PROVE TypeOK'
    <3>1. PICK answer \in Refused \cup {"handler"} : Close(r, answer)
      BY <2>7 DEF Enforce, Refused
    <3>2. answer \in Steps
      BY DEF Steps, Resting
    <3>3. verdict' \in [Requests -> Verdict]
      BY <2>7, ForgetType DEF TypeOK, Enforce
    <3> QED
      BY <2>7, <3>1, <3>2, <3>3, CloseType DEF TypeOK, Enforce
  <2>8. ASSUME NEW r \in Requests,
               Serve(r) \/ Abort(r)
        PROVE  TypeOK'
    BY <2>8, FinishType DEF TypeOK, Serve, Abort
  <2>9. ASSUME NEW r \in Requests, VerifyLoad(r) PROVE TypeOK'
    <3>1. CASE Finish(r)
      BY <2>9, <3>1, FinishType DEF TypeOK, VerifyLoad
    <3>2. CASE Goto(r, "commit") /\ ~Finish(r)
      <4>1. req[r].jti \in Sessions
        BY DEF TypeOK, Request
      <4>2. pc' \in [Requests -> Steps]
        BY <3>2, GotoType DEF Steps
      <4> QED
        <5>1. snap' \in [Requests -> [Sessions -> Row]]
          BY <2>9, <3>2, <4>1, LoadType DEF VerifyLoad
        <5>2. began' \in [Requests -> Time]
          BY <2>9, <3>2 DEF TypeOK, VerifyLoad
        <5> QED
          BY <2>9, <3>2, <4>2, <5>1, <5>2 DEF TypeOK, VerifyLoad
    <3> QED
      BY <2>9, <3>1, <3>2 DEF VerifyLoad
  <2>10. ASSUME NEW r \in Requests, OverrideLoad(r) PROVE TypeOK'
    <3>1. CASE Finish(r)
      BY <2>10, <3>1, FinishType DEF TypeOK, OverrideLoad
    <3>2. CASE Goto(r, "commit") /\ ~Finish(r)
      <4>1. req[r].target \in Sessions
        BY DEF TypeOK, Request
      <4>2. pc' \in [Requests -> Steps]
        BY <3>2, GotoType DEF Steps
      <4> QED
        <5>1. snap' \in [Requests -> [Sessions -> Row]]
          BY <2>10, <3>2, <4>1, LoadType DEF OverrideLoad
        <5> QED
          BY <2>10, <3>2, <4>2, <5>1 DEF TypeOK, OverrideLoad
    <3> QED
      BY <2>10, <3>1, <3>2 DEF OverrideLoad
  <2>11. ASSUME NEW r \in Requests, ResetLoad(r) PROVE TypeOK'
    <3>1. [s \in Sessions |-> IF Owner[s] = Owner[req[r].target] /\ row[s].pending
                                THEN row[s] ELSE Blank] \in [Sessions -> Row]
      BY BlankType DEF TypeOK
    <3>2. pc' \in [Requests -> Steps]
      BY <2>11, GotoType DEF ResetLoad, Steps
    <3> QED
      BY <2>11, <3>1, <3>2 DEF TypeOK, ResetLoad
  <2>12. ASSUME NEW r \in Requests, NEW s \in Sessions, NEW new \in Row,
                row' = [row EXCEPT ![s] = Flush(row[s], snap[r][s], new)]
         PROVE  row' \in [Sessions -> Row]
    <3>1. Flush(row[s], snap[r][s], new) \in Row
      BY FlushType DEF TypeOK
    <3> QED
      BY <2>12, <3>1 DEF TypeOK
  <2>13. ASSUME NEW r \in Requests, VerifyCommit(r) PROVE TypeOK'
    <3> DEFINE s == req[r].jti
               loaded == snap[r][s]
               new(now) == [loaded EXCEPT !.verifiedAt = now, !.pending = FALSE]
    <3>1. PICK now \in began[r]..clock :
            row' = [row EXCEPT ![s] = Flush(row[s], loaded, new(now))]
      BY <2>13 DEF VerifyCommit
    <3>2. s \in Sessions /\ loaded \in Row
      BY DEF TypeOK, Request
    <3>3. now \in Time
      BY DEF TypeOK
    <3>4. new(now) \in Row
      <4> HIDE DEF loaded
      <4>1. new(now) = [loaded EXCEPT !.verifiedAt = now, !.pending = FALSE]
        OBVIOUS
      <4> HIDE DEF new
      <4> QED
        BY <3>2, <3>3, <4>1 DEF Row
    <3>5. row' \in [Sessions -> Row]
      BY <2>12, <3>1, <3>2, <3>4
    <3> QED
      BY <2>13, <3>5, FinishType DEF TypeOK, VerifyCommit
  <2>14. ASSUME NEW r \in Requests, OverrideCommit(r) PROVE TypeOK'
    <3> DEFINE s == req[r].target
               new == [snap[r][s] EXCEPT !.score = OverrideScore, !.decision = "allow"]
    <3> DEFINE loaded == snap[r][s]
    <3>0. s \in Sessions /\ loaded \in Row
      BY DEF TypeOK, Request
    <3>1. s \in Sessions /\ new \in Row
      <4> HIDE DEF s, loaded
      <4> SUFFICES [loaded EXCEPT !.score = OverrideScore, !.decision = "allow"] \in Row
        BY <3>0 DEF loaded
      <4> QED
        BY <3>0, ScoresAssumption DEF Row, RowDecision, Decision
    <3>2. row' \in [Sessions -> Row]
      BY <2>12, <2>14, <3>1 DEF OverrideCommit
    <3> QED
      BY <2>14, <3>2, FinishType DEF TypeOK, OverrideCommit
  <2>15. ASSUME NEW r \in Requests, ResetCommit(r) PROVE TypeOK'
    <3>1. ASSUME NEW s \in Sessions
          PROVE  Flush(row[s], snap[r][s],
                   [snap[r][s] EXCEPT !.pending = FALSE, !.verifiedAt = Never]) \in Row
      <4> DEFINE loaded == snap[r][s]
      <4>0. loaded \in Row
        BY DEF TypeOK
      <4>1. [loaded EXCEPT !.pending = FALSE, !.verifiedAt = Never] \in Row
        <5> HIDE DEF loaded
        <5> QED
          BY <4>0 DEF Row
      <4> QED
        BY <4>1, FlushType DEF TypeOK
    <3>2. row' \in [Sessions -> Row]
      BY <2>15, <3>1 DEF ResetCommit, TypeOK
    <3> QED
      BY <2>15, <3>2, FinishType DEF TypeOK, ResetCommit
  <2>16. ASSUME NEW r \in Requests, LogoutCommit(r) PROVE TypeOK'
    <3> DEFINE s == req[r].jti
    <3>0. s \in Sessions /\ snap[r][s] \in Row /\ clock \in Nat
      BY DEF TypeOK, Request
    <3>1. s \in Sessions /\ CloseRow(snap[r][s]) \in Row
      BY <3>0, CloseRowType
    <3>2. row' \in [Sessions -> Row]
      BY <2>12, <2>16, <3>1 DEF LogoutCommit
    <3>3. pc' \in [Requests -> Steps]
      BY <2>16, GotoType DEF LogoutCommit, Steps
    <3> QED
      BY <2>16, <3>1, <3>2, <3>3, BlankType DEF TypeOK, LogoutCommit
  <2>17. ASSUME NEW r \in Requests, LogoutRevoke(r) PROVE TypeOK'
    <3>1. clock + KeyTtl \in Nat
      BY TimesAssumption DEF TypeOK, KeyTtl
    <3> QED
      BY <2>17, <3>1, FinishType DEF TypeOK, LogoutRevoke
  <2>18. CASE Tick
    BY <2>18 DEF TypeOK, Tick
  <2>19. CASE RedisRestart
    BY <2>19 DEF TypeOK, RedisRestart
  <2>20. CASE UNCHANGED vars
    BY <2>20 DEF TypeOK, vars
  <2> QED
    BY <2>1, <2>2, <2>3, <2>4, <2>5, <2>6, <2>7, <2>8, <2>9, <2>10, <2>11,
       <2>13, <2>14, <2>15, <2>16, <2>17, <2>18, <2>19, <2>20 DEF Next
<1> QED
  BY <1>1, <1>2, PTL DEF Spec

-----------------------------------------------------------------------------
(* The life of the MFA columns.  A pending row was never verified, so a    *)
(* reset that clears the flag leaves mfa_verified_at clean in its flush;   *)
(* a verification in flight knows of every pending flag it has to clear,   *)
(* and of no verification later than the moment it loaded the row.         *)

Held == \A r \in Requests : pc[r] # "idle" => req[r].jti \in issued

RowsSound ==
  \A s \in Sessions :
    /\ row[s].verifiedAt <= clock
    /\ row[s].pending => row[s].verifiedAt = Never

SnapsSound ==
  \A r \in Requests :
    /\ \A s \in Sessions : snap[r][s].pending => snap[r][s].verifiedAt = Never
    /\ pc[r] = "commit" /\ req[r].path = "verify" /\ row[req[r].jti].pending
         => snap[r][req[r].jti].pending
    /\ pc[r] = "commit" /\ req[r].path = "verify"
         => /\ began[r] \in Nat /\ began[r] <= clock
            /\ snap[r][req[r].jti].verifiedAt <= began[r]

PastTheCheck ==
  \A r \in Requests :
    pc[r] \in {"score", "enforce", "handler", "commit"}
      /\ req[r].path \notin {"verify", "logout"}
      => ~row[req[r].jti].pending

MfaInv == Held /\ RowsSound /\ SnapsSound /\ PastTheCheck

\* What one step does to the MFA columns.
RowsAdvance ==
  /\ issued \subseteq issued' /\ clock <= clock'
  /\ \A s \in issued :
       /\ row'[s].pending => row[s].pending
       /\ row[s].verifiedAt # Never => row'[s].verifiedAt # Never
       /\ row'[s].verifiedAt < row[s].verifiedAt => \E r \in Requests : Overtakes(r, s)

\* A flush that leaves the MFA columns as loaded leaves them as they are.
LEMMA FlushOther ==
  ASSUME NEW current \in Row, NEW loaded \in Row, NEW new \in Row,
         new.pending = loaded.pending, new.verifiedAt = loaded.verifiedAt
  PROVE  /\ Flush(current, loaded, new).pending = current.pending
         /\ Flush(current, loaded, new).verifiedAt = current.verifiedAt
BY DEF Flush, Dirty, Row

\* Saving one row changes that row only.
LEMMA SavedRow ==
  ASSUME TypeOK, NEW s \in Sessions, NEW x, row' = [row EXCEPT ![s] = x]
  PROVE  \A u \in Sessions : row'[u] = IF u = s THEN x ELSE row[u]
BY DEF TypeOK

\* Every step advances the rows: no existing session's flag is raised, no
\* verification is undone, and it moves back only where another overtakes it.
LEMMA RowsStep ==
  ASSUME TypeOK, MfaInv, [Next]_vars
  PROVE  RowsAdvance /\ RowsSound'
<1> USE DEF dbVars, reqVars
<1>0. /\ clock \in Nat /\ issued \subseteq Sessions
      /\ \A s \in Sessions :
           /\ row[s].verifiedAt \in Time /\ row[s].verifiedAt <= clock
           /\ row[s].pending => row[s].verifiedAt = Never
  BY DEF TypeOK, MfaInv, RowsSound, Row
<1>1. ASSUME NEW s \in Sessions, NEW v \in Verdicts, Login(s, v)
      PROVE  RowsAdvance /\ RowsSound'
  <2>1. /\ row'[s].verifiedAt = Never
        /\ \A u \in Sessions : u # s => row'[u] = row[u]
    BY <1>1 DEF Login, TypeOK
  <2>2. s \notin issued /\ issued' = issued \cup {s} /\ clock' = clock
    BY <1>1 DEF Login
  <2>3. ASSUME NEW u \in Sessions
        PROVE  row'[u].verifiedAt <= clock' /\ (row'[u].pending => row'[u].verifiedAt = Never)
    BY <1>0, <2>1, <2>2
  <2>4. ASSUME NEW u \in issued PROVE row'[u] = row[u] /\ u \in Sessions
    BY <1>0, <2>1, <2>2
  <2>5. RowsAdvance
    BY <1>0, <2>2, <2>4 DEF RowsAdvance
  <2> QED
    BY <2>3, <2>5 DEF RowsSound
<1>2. ASSUME NEW s \in Sessions, NEW loaded \in Row, NEW new \in Row,
             new.pending = loaded.pending, new.verifiedAt = loaded.verifiedAt,
             row' = [row EXCEPT ![s] = Flush(row[s], loaded, new)],
             UNCHANGED <<clock, issued>>
      PROVE  RowsAdvance /\ RowsSound'
  <2>1. row[s] \in Row
    BY DEF TypeOK
  <2>2. \A u \in Sessions : /\ row'[u].pending = row[u].pending
                            /\ row'[u].verifiedAt = row[u].verifiedAt
    BY <1>2, <2>1, FlushOther, SavedRow
  <2> QED
    BY <1>0, <1>2, <2>2 DEF RowsAdvance, RowsSound
<1>3. ASSUME NEW r \in Requests, NEW v \in Verdicts, Evaluate(r, v)
      PROVE  RowsAdvance /\ RowsSound'
  <2> DEFINE s == req[r].jti
             loaded == snap[r][s]
             new == [loaded EXCEPT !.score = v.score, !.decision = v.decision]
  <2>1. s \in Sessions /\ loaded \in Row
    BY DEF TypeOK, Request
  <2>2. v.decision \in Decision /\ v.score \in Nat
    BY VerdictsAssumption
  <2>3. new \in Row /\ new.pending = loaded.pending /\ new.verifiedAt = loaded.verifiedAt
    BY <2>1, <2>2 DEF Row, RowDecision
  <2>4. row' = [row EXCEPT ![s] = Flush(row[s], loaded, new)] /\ UNCHANGED <<clock, issued>>
    BY <1>3 DEF Evaluate
  <2> QED
    BY <2>1, <2>3, <2>4, <1>2
<1>4. ASSUME NEW r \in Requests, OverrideCommit(r)
      PROVE  RowsAdvance /\ RowsSound'
  <2> DEFINE t == req[r].target
             loaded == snap[r][t]
             new == [loaded EXCEPT !.score = OverrideScore, !.decision = "allow"]
  <2>1. t \in Sessions /\ loaded \in Row
    BY DEF TypeOK, Request
  <2>2. new \in Row /\ new.pending = loaded.pending /\ new.verifiedAt = loaded.verifiedAt
    <3> HIDE DEF loaded
    <3> QED
      BY <2>1, ScoresAssumption DEF Row, RowDecision, Decision
  <2>3. row' = [row EXCEPT ![t] = Flush(row[t], loaded, new)] /\ UNCHANGED <<clock, issued>>
    BY <1>4 DEF OverrideCommit
  <2> QED
    BY <2>1, <2>2, <2>3, <1>2
<1>5. ASSUME NEW r \in Requests, LogoutCommit(r)
      PROVE  RowsAdvance /\ RowsSound'
  <2> DEFINE s == req[r].jti
             loaded == snap[r][s]
             new == CloseRow(loaded)
  <2>1. s \in Sessions /\ loaded \in Row /\ clock \in Nat
    BY DEF TypeOK, Request
  <2>2. new \in Row /\ new.pending = loaded.pending /\ new.verifiedAt = loaded.verifiedAt
    <3> HIDE DEF loaded
    <3> QED
      BY <2>1, CloseRowType DEF Row, CloseRow
  <2>3. row' = [row EXCEPT ![s] = Flush(row[s], loaded, new)] /\ UNCHANGED <<clock, issued>>
    BY <1>5 DEF LogoutCommit
  <2> QED
    BY <2>1, <2>2, <2>3, <1>2
<1>6. ASSUME NEW r \in Requests, VerifyCommit(r)
      PROVE  RowsAdvance /\ RowsSound'
  <2> DEFINE s == req[r].jti
             loaded == snap[r][s]
             new(now) == [loaded EXCEPT !.verifiedAt = now, !.pending = FALSE]
             x(now) == Flush(row[s], loaded, new(now))
  <2>1. s \in Sessions /\ loaded \in Row /\ row[s] \in Row /\ clock \in Nat
    BY DEF TypeOK, Request
  <2>2. /\ row[s].verifiedAt <= clock
        /\ row[s].pending => loaded.pending
        /\ began[r] \in Nat /\ began[r] <= clock /\ loaded.verifiedAt <= began[r]
    BY <1>6, <2>1 DEF VerifyCommit, MfaInv, RowsSound, SnapsSound
  <2>3. PICK now \in began[r]..clock : row' = [row EXCEPT ![s] = x(now)]
    BY <1>6 DEF VerifyCommit
  <2>4. UNCHANGED <<clock, issued>> /\ now \in Nat /\ began[r] <= now /\ now <= clock
    BY <1>6, <2>1, <2>2, <2>3 DEF VerifyCommit
  <2>5. /\ ~x(now).pending
        /\ x(now).verifiedAt = IF now = loaded.verifiedAt THEN row[s].verifiedAt ELSE now
    <3> DEFINE current == row[s]
    <3>1. new(now).verifiedAt = now /\ new(now).pending = FALSE
      <4> HIDE DEF loaded
      <4> QED
        BY <2>1, <2>4 DEF Row
    <3>2. /\ x(now).pending = Dirty(current.pending, loaded.pending, new(now).pending)
          /\ x(now).verifiedAt =
               Dirty(current.verifiedAt, loaded.verifiedAt, new(now).verifiedAt)
      BY DEF Flush
    <3>3. loaded.pending \in BOOLEAN /\ current.pending \in BOOLEAN
      BY <2>1 DEF Row
    <3> HIDE DEF s, loaded, new, x
    <3>4. ~x(now).pending
      BY <2>2, <3>1, <3>2, <3>3 DEF Dirty
    <3> QED
      BY <3>1, <3>2, <3>4 DEF Dirty
  <2>6. \A u \in Sessions : row'[u] = IF u = s THEN x(now) ELSE row[u]
    <3> HIDE DEF x
    <3> QED
      BY <2>1, <2>3, SavedRow
  <2>7. x(now).verifiedAt < row[s].verifiedAt => Overtakes(r, s)
    <3> HIDE DEF loaded, x
    <3>1. loaded.verifiedAt \in Time /\ row[s].verifiedAt \in Time
      BY <2>1 DEF Row
    <3>2. row'[s].verifiedAt = x(now).verifiedAt
      BY <2>1, <2>6
    <3>3. ASSUME x(now).verifiedAt < row[s].verifiedAt
          PROVE  /\ began[r] <= row'[s].verifiedAt
                 /\ loaded.verifiedAt # row[s].verifiedAt
      BY <2>2, <2>4, <2>5, <3>1, <3>2, <3>3
    <3> QED
      BY <1>6, <3>3 DEF Overtakes, VerifyCommit, loaded
  <2>8. /\ row[s].verifiedAt # Never => x(now).verifiedAt # Never
        /\ x(now).verifiedAt <= clock
    <3> HIDE DEF loaded, x
    <3> QED
      BY <2>1, <2>2, <2>4, <2>5
  <2> HIDE DEF s, loaded, new, x
  <2> QED
    <3>1. \A u \in issued : u # s => row'[u] = row[u] /\ row[u].verifiedAt \in Time
      BY <1>0, <2>6
    <3>2. RowsAdvance
      BY <1>0, <2>1, <2>4, <2>5, <2>6, <2>7, <2>8, <3>1 DEF RowsAdvance
    <3> QED
      BY <1>0, <2>1, <2>4, <2>5, <2>6, <2>8, <3>2 DEF RowsSound
<1>7. ASSUME NEW r \in Requests, ResetCommit(r)
      PROVE  RowsAdvance /\ RowsSound'
  <2>1. ASSUME NEW s \in Sessions
        PROVE  /\ row'[s].pending => row[s].pending
               /\ row'[s].verifiedAt = row[s].verifiedAt
    <3>1. CASE ~snap[r][s].pending
      BY <1>7, <3>1 DEF ResetCommit
    <3>2. CASE snap[r][s].pending
      <4> DEFINE current == row[s]
                 loaded == snap[r][s]
                 new == [loaded EXCEPT !.pending = FALSE, !.verifiedAt = Never]
      <4>1. loaded \in Row /\ current \in Row /\ loaded.pending /\ loaded.verifiedAt = Never
        BY <3>2 DEF TypeOK, MfaInv, SnapsSound
      <4>2. row'[s] = Flush(current, loaded, new)
        BY <1>7, <3>2 DEF ResetCommit
      <4>3. new.pending = FALSE /\ new.verifiedAt = Never
        <5> HIDE DEF loaded
        <5> QED
          BY <4>1 DEF Row
      <4>4. /\ row'[s].pending = Dirty(current.pending, loaded.pending, new.pending)
            /\ row'[s].verifiedAt = Dirty(current.verifiedAt, loaded.verifiedAt, new.verifiedAt)
        BY <4>2 DEF Flush
      <4>5. loaded.pending \in BOOLEAN /\ current.pending \in BOOLEAN
        BY <4>1 DEF Row
      <4> HIDE DEF current, loaded, new
      <4>6. ~row'[s].pending /\ row'[s].verifiedAt = current.verifiedAt
        BY <4>1, <4>3, <4>4, <4>5 DEF Dirty
      <4> QED
        BY <4>6 DEF current
    <3> QED
      BY <3>1, <3>2
  <2>2. UNCHANGED <<clock, issued>>
    BY <1>7 DEF ResetCommit
  <2> QED
    BY <1>0, <2>1, <2>2 DEF RowsAdvance, RowsSound
<1>8. CASE Tick
  BY <1>8 DEF Tick, TypeOK, MfaInv, RowsAdvance, RowsSound, Row
<1>9. ASSUME UNCHANGED <<row, issued, clock>>
      PROVE  RowsAdvance /\ RowsSound'
  BY <1>0, <1>9 DEF RowsAdvance, RowsSound
<1>10. ASSUME NEW r \in Requests, NEW s \in Sessions, NEW t \in Sessions,
              NEW p \in Paths, Dispatch(r, s, p, t)
       PROVE  UNCHANGED <<row, issued, clock>>
  BY <1>10 DEF Dispatch
<1>13. ASSUME NEW r \in Requests, NEW s \in Sessions, LogoutLoad(r, s)
       PROVE  UNCHANGED <<row, issued, clock>>
  BY <1>13 DEF LogoutLoad
<1>11. ASSUME NEW r \in Requests,
              \/ CheckBlacklist(r) \/ LoadSession(r) \/ Enforce(r) \/ Serve(r)
              \/ VerifyLoad(r) \/ OverrideLoad(r) \/ ResetLoad(r)
              \/ LogoutRevoke(r) \/ Abort(r)
       PROVE  UNCHANGED <<row, issued, clock>>
  BY <1>11 DEF CheckBlacklist, LoadSession, Enforce, Serve, VerifyLoad, OverrideLoad,
     ResetLoad, LogoutRevoke, Abort
<1>12. CASE RedisRestart \/ UNCHANGED vars
  BY <1>9, <1>12 DEF RedisRestart, vars
<1> QED
  BY <1>1, <1>3, <1>4, <1>5, <1>6, <1>7, <1>8, <1>9, <1>10, <1>11, <1>12, <1>13 DEF Next

-----------------------------------------------------------------------------
\* What a step does to the control state of one request: it stays, ends,
\* or moves one step along dispatch, a handler or logout.
RequestStep(r) ==
  \/ UNCHANGED <<pc[r], req[r], snap[r], began[r], verdict[r]>>
  \/ /\ pc'[r] = "idle"
     /\ snap'[r] = [s \in Sessions |-> Blank]
  \/ /\ pc'[r] \in Refused \cup {"handler"}
     /\ pc[r] = "enforce" /\ Enforce(r)
     /\ UNCHANGED <<req[r], began[r], row, alert>>
     /\ pc'[r] = "handler" \/ verdict'[r] = verdict[r]
     /\ snap'[r] = [s \in Sessions |-> Blank]
  \/ /\ pc'[r] = "blacklist" /\ LoopFree
     /\ req'[r].jti \in issued
     /\ snap'[r] = snap[r]
  \/ /\ pc[r] = "blacklist" /\ pc'[r] = "load"
     /\ UNCHANGED <<req[r], snap[r]>>
  \/ /\ pc[r] = "load" /\ pc'[r] = "score"
     /\ ~Barred(req[r].jti, req[r].path)
     /\ req'[r] = req[r]
     /\ \A s \in Sessions : snap'[r][s] \in {row[s], snap[r][s]}
     /\ snap'[r][req[r].jti] = row[req[r].jti] /\ began'[r] = clock
     /\ UNCHANGED <<row, riskLog, alert, clock>>
  \/ /\ pc[r] = "score" /\ pc'[r] = "enforce"
     /\ \E v \in Verdicts : Evaluate(r, v)
     /\ UNCHANGED <<req[r], snap[r], began[r]>>
  \/ /\ pc[r] = "handler" /\ pc'[r] = "commit"
     /\ req'[r] = req[r] /\ req[r].path # "logout"
     /\ \E S \in SUBSET Sessions :
          /\ req[r].path = "verify" => req[r].jti \in S
          /\ \A s \in Sessions :
               \/ s \in S /\ snap'[r][s] = row[s]
               \/ s \notin S /\ snap'[r][s] \in {Blank, snap[r][s]}
     /\ req[r].path = "verify" => began'[r] = clock
     /\ UNCHANGED <<row, clock>>
  \/ /\ pc'[r] = "commit"
     /\ req'[r].path = "logout" /\ req'[r].jti \in issued
     /\ \A s \in Sessions : snap'[r][s] \in {row[s], snap[r][s]}
     /\ snap'[r][req'[r].jti] = row[req'[r].jti] /\ row' = row
  \/ /\ pc[r] = "commit" /\ pc'[r] = "revoke" /\ LogoutCommit(r)
     /\ req'[r] = req[r]
     /\ \A s \in Sessions : snap'[r][s] \in {Blank, snap[r][s]}

\* Loading a row changes one request's copy of that row only.
LEMMA LoadedSnap ==
  ASSUME TypeOK, NEW r \in Requests, NEW j \in Sessions,
         snap' = [snap EXCEPT ![r][j] = row[j]]
  PROVE  /\ \A q \in Requests : q # r => snap'[q] = snap[q]
         /\ \A s \in Sessions : snap'[r][s] = IF s = j THEN row[s] ELSE snap[r][s]
BY DEF TypeOK

\* Every step moves each request along one of the routes RequestStep lists.
LEMMA ControlStep ==
  ASSUME TypeOK, [Next]_vars, NEW r \in Requests
  PROVE  RequestStep(r)
<1> USE DEF dbVars, reqVars
<1>0. req[r].jti \in Sessions /\ req[r].target \in Sessions /\ \A q \in Requests : req[q].jti \in Sessions /\ req[q].target \in Sessions
  BY DEF TypeOK, Request
<1>2. ASSUME NEW q \in Requests, Finish(q) PROVE RequestStep(r)
  BY <1>2 DEF Finish, Close, Forget, Goto, RequestStep, TypeOK
<1>3. ASSUME UNCHANGED reqVars PROVE RequestStep(r)
  BY <1>3 DEF RequestStep
<1>4. ASSUME NEW s \in Sessions, NEW v \in Verdicts, Login(s, v) PROVE RequestStep(r)
  BY <1>3, <1>4 DEF Login
<1>5. ASSUME NEW q \in Requests, NEW s \in Sessions, NEW t \in Sessions,
             NEW p \in Paths, Dispatch(q, s, p, t)
      PROVE  RequestStep(r)
  BY <1>5 DEF Dispatch, Goto, Forget, RequestStep, TypeOK, TokenDecodes
<1>6. ASSUME NEW q \in Requests, NEW v \in Verdicts, Evaluate(q, v)
      PROVE  RequestStep(r)
  <2>1. /\ UNCHANGED <<req, began, snap>>
        /\ q # r => pc'[r] = pc[r] /\ verdict'[r] = verdict[r]
        /\ q = r => pc[r] = "score" /\ pc'[r] = "enforce"
    BY <1>6 DEF Evaluate, Goto, TypeOK
  <2> QED
    BY <1>6, <2>1 DEF RequestStep
<1>7. ASSUME NEW q \in Requests, NEW s \in Sessions, LogoutLoad(q, s)
      PROVE  RequestStep(r)
  BY <1>7 DEF LogoutLoad, Goto, Forget, RequestStep, TypeOK, TokenDecodes
<1>8. ASSUME NEW q \in Requests, CheckBlacklist(q) PROVE RequestStep(r)
  <2>1. CASE Finish(q)
    BY <1>2, <2>1
  <2>2. CASE Goto(q, "load") /\ UNCHANGED <<req, began, snap, verdict>>
    BY <1>8, <2>2 DEF CheckBlacklist, Goto, RequestStep, TypeOK
  <2> QED
    BY <1>8, <2>1, <2>2 DEF CheckBlacklist
<1>9. ASSUME NEW q \in Requests, LoadSession(q) PROVE RequestStep(r)
  <2>1. CASE Finish(q)
    BY <1>2, <2>1
  <2>2. CASE ~Finish(q)
    <3> DEFINE j == req[q].jti
    <3>1. /\ pc[q] = "load" /\ pc' = [pc EXCEPT ![q] = "score"]
          /\ ~Barred(j, req[q].path)
          /\ snap' = [snap EXCEPT ![q][j] = row[j]]
          /\ began' = [began EXCEPT ![q] = clock]
          /\ UNCHANGED <<req, verdict, row, riskLog, alert, clock>>
      BY <1>9, <2>2 DEF LoadSession, Goto
    <3>2. /\ \A x \in Requests : x # q => snap'[x] = snap[x]
          /\ \A s \in Sessions : snap'[q][s] \in {row[s], snap[q][s]}
          /\ snap'[q][j] = row[j]
      <4>1. j \in Sessions
        BY <1>0
      <4> HIDE DEF j
      <4>2. /\ \A x \in Requests : x # q => snap'[x] = snap[x]
            /\ \A s \in Sessions : snap'[q][s] = IF s = j THEN row[s] ELSE snap[q][s]
        BY <3>1, <4>1, LoadedSnap
      <4> QED
        BY <4>1, <4>2
    <3>3. CASE q # r
      <4>1. UNCHANGED <<pc[r], req[r], snap[r], began[r], verdict[r]>>
        BY <3>1, <3>2, <3>3 DEF TypeOK
      <4> QED
        BY <4>1 DEF RequestStep
    <3>4. CASE q = r
      <4>1. pc'[r] = "score" /\ began'[r] = clock
        BY <3>1, <3>4 DEF TypeOK
      <4> QED
        BY <3>1, <3>2, <3>4, <4>1 DEF RequestStep
    <3> QED
      BY <3>3, <3>4
  <2> QED
    BY <2>1, <2>2
<1>10. ASSUME NEW q \in Requests, Enforce(q) PROVE RequestStep(r)
  <2>1. PICK answer \in Refused \cup {"handler"} :
          /\ Close(q, answer) /\ UNCHANGED <<req, began, row, alert>>
          /\ answer = "handler" \/ verdict' = verdict
    BY <1>10 DEF Enforce, Refused
  <2>2. CASE q = r
    <3>1. pc'[r] = answer /\ snap'[r] = [s \in Sessions |-> Blank] /\ pc[r] = "enforce"
      BY <1>10, <2>1, <2>2 DEF Close, Goto, Enforce, TypeOK
    <3> QED
      BY <1>10, <2>1, <2>2, <3>1 DEF RequestStep
  <2>3. CASE q # r
    <3>1. UNCHANGED <<pc[r], req[r], snap[r], began[r], verdict[r]>>
      BY <1>10, <2>1, <2>3 DEF Close, Goto, Forget, Enforce, TypeOK
    <3> QED
      BY <3>1 DEF RequestStep
  <2> QED
    BY <2>2, <2>3
<1>11. ASSUME NEW q \in Requests,
              \/ Serve(q) \/ VerifyCommit(q) \/ OverrideCommit(q) \/ ResetCommit(q)
              \/ LogoutRevoke(q) \/ Abort(q)
       PROVE  RequestStep(r)
  BY <1>2, <1>11 DEF Serve, VerifyCommit, OverrideCommit, ResetCommit, LogoutRevoke, Abort
<1>12. ASSUME NEW q \in Requests, VerifyLoad(q) \/ OverrideLoad(q), ~Finish(q)
       PROVE  RequestStep(r)
  <2>1. CASE q # r
    BY <1>12, <2>1 DEF VerifyLoad, OverrideLoad, Goto, RequestStep, TypeOK
  <2>2. CASE VerifyLoad(r) /\ q = r
    <3> DEFINE S == {req[r].jti}
    <3>1. \A s \in Sessions : \/ s \in S /\ snap'[r][s] = row[s]
                              \/ s \notin S /\ snap'[r][s] = snap[r][s]
      <4>1. snap' = [snap EXCEPT ![r][req[r].jti] = row[req[r].jti]]
        BY <1>12, <2>2 DEF VerifyLoad
      <4>2. \A s \in Sessions :
              snap'[r][s] = IF s = req[r].jti THEN row[s] ELSE snap[r][s]
        BY <1>0, <4>1, LoadedSnap
      <4> QED
        BY <4>2
    <3>2. S \in SUBSET Sessions /\ req[r].jti \in S /\ req[r].path # "logout"
      BY <1>0, <2>2 DEF VerifyLoad
    <3>3. /\ pc[r] = "handler" /\ pc'[r] = "commit" /\ req' = req
          /\ began'[r] = clock /\ UNCHANGED <<row, clock>>
      BY <1>12, <2>2 DEF VerifyLoad, Goto, TypeOK
    <3> QED
      BY <3>1, <3>2, <3>3 DEF RequestStep
  <2>3. CASE OverrideLoad(r) /\ q = r
    <3> DEFINE S == {req[r].target}
    <3>1. \A s \in Sessions : \/ s \in S /\ snap'[r][s] = row[s]
                              \/ s \notin S /\ snap'[r][s] = snap[r][s]
      <4>1. snap' = [snap EXCEPT ![r][req[r].target] = row[req[r].target]]
        BY <1>12, <2>3 DEF OverrideLoad
      <4>2. \A s \in Sessions :
              snap'[r][s] = IF s = req[r].target THEN row[s] ELSE snap[r][s]
        BY <1>0, <4>1, LoadedSnap
      <4> QED
        BY <4>2
    <3>2. S \in SUBSET Sessions /\ req[r].path \notin {"verify", "logout"}
      BY <1>0, <2>3 DEF OverrideLoad
    <3>3. pc[r] = "handler" /\ pc'[r] = "commit" /\ req' = req /\ UNCHANGED <<row, clock>>
      BY <1>12, <2>3 DEF OverrideLoad, Goto, TypeOK
    <3> QED
      BY <3>1, <3>2, <3>3 DEF RequestStep
  <2> QED
    BY <1>12, <2>1, <2>2, <2>3
<1>13. ASSUME NEW q \in Requests, ResetLoad(q) PROVE RequestStep(r)
  <2>1. CASE q # r
    BY <1>13, <2>1 DEF ResetLoad, Goto, RequestStep, TypeOK
  <2>2. CASE q = r
    <3> DEFINE S == {s \in Sessions : Owner[s] = Owner[req[r].target] /\ row[s].pending}
    <3>1. \A s \in Sessions : \/ s \in S /\ snap'[r][s] = row[s]
                              \/ s \notin S /\ snap'[r][s] = Blank
      <4>1. snap'[r] = [s \in Sessions |->
                          IF Owner[s] = Owner[req[r].target] /\ row[s].pending
                            THEN row[s] ELSE Blank]
        BY <1>13, <2>2 DEF ResetLoad, TypeOK
      <4> SUFFICES ASSUME NEW s \in Sessions
                   PROVE  \/ s \in S /\ snap'[r][s] = row[s]
                          \/ s \notin S /\ snap'[r][s] = Blank
        OBVIOUS
      <4> QED
        BY <4>1
    <3>2. S \in SUBSET Sessions /\ req[r].path \notin {"verify", "logout"}
      BY <1>13, <2>2 DEF ResetLoad
    <3>3. pc[r] = "handler" /\ pc'[r] = "commit" /\ req' = req /\ UNCHANGED <<row, clock>>
      BY <1>13, <2>2 DEF ResetLoad, Goto, TypeOK
    <3> HIDE DEF S
    <3> QED
      BY <3>1, <3>2, <3>3 DEF RequestStep
  <2> QED
    BY <2>1, <2>2
<1>14. ASSUME NEW q \in Requests, LogoutCommit(q) PROVE RequestStep(r)
  BY <1>0, <1>14 DEF LogoutCommit, Goto, RequestStep, TypeOK
<1>15. CASE Tick \/ RedisRestart \/ UNCHANGED vars
  BY <1>3, <1>15 DEF Tick, RedisRestart, vars
<1> QED
  BY <1>2, <1>4, <1>5, <1>6, <1>7, <1>8, <1>9, <1>10, <1>11, <1>12, <1>13, <1>14, <1>15
     DEF Next

\* Every step keeps MfaInv.
LEMMA MfaInvStep ==
  ASSUME TypeOK, TypeOK', MfaInv, [Next]_vars
  PROVE  MfaInv'
<1>1. RowsAdvance /\ RowsSound'
  BY RowsStep
<1>2. \A r \in Requests : RequestStep(r)
  BY ControlStep
<1>3. \A r \in Requests : req[r].jti \in Sessions
  BY DEF TypeOK, Request
<1>4. Held'
  <2> SUFFICES ASSUME NEW r \in Requests, pc'[r] # "idle"
               PROVE  req'[r].jti \in issued'
    BY DEF Held
  <2> QED
    BY <1>1, <1>2 DEF RequestStep, MfaInv, Held, RowsAdvance
<1>5. PastTheCheck'
  <2> SUFFICES ASSUME NEW r \in Requests,
                      pc'[r] \in {"score", "enforce", "handler", "commit"},
                      req'[r].path \notin {"verify", "logout"}
               PROVE  ~row'[req'[r].jti].pending
    BY DEF PastTheCheck
  <2>1. pc[r] # "idle" => req[r].jti \in issued
    BY DEF MfaInv, Held
  <2>2. CASE UNCHANGED <<pc[r], req[r]>>
    BY <1>1, <2>1, <2>2 DEF MfaInv, PastTheCheck, RowsAdvance
  <2>3. CASE /\ pc[r] \in {"score", "enforce", "handler"} /\ req'[r] = req[r]
    BY <1>1, <2>1, <2>3 DEF MfaInv, PastTheCheck, RowsAdvance
  <2>4. CASE /\ pc[r] = "load" /\ ~Barred(req[r].jti, req[r].path)
             /\ req'[r] = req[r] /\ row' = row
    BY <2>4 DEF Barred
  <2> QED
    BY <1>2, <2>2, <2>3, <2>4 DEF RequestStep
<1>6. SnapsSound'
  <2>1. ASSUME NEW r \in Requests, NEW s \in Sessions
        PROVE  snap'[r][s].pending => snap'[r][s].verifiedAt = Never
    <3>1. snap'[r][s] \in {snap[r][s], row[s], Blank}
      BY <1>2 DEF RequestStep
    <3> QED
      BY <3>1 DEF MfaInv, SnapsSound, RowsSound, Blank
  <2>2. ASSUME NEW r \in Requests, pc'[r] = "commit", req'[r].path = "verify",
               row'[req'[r].jti].pending
        PROVE  snap'[r][req'[r].jti].pending
    <3>1. CASE UNCHANGED <<pc[r], req[r], snap[r]>>
      <4>1. req[r].jti \in issued
        BY <2>2, <3>1 DEF MfaInv, Held
      <4>2. row[req[r].jti].pending
        BY <1>1, <2>2, <3>1, <4>1 DEF RowsAdvance
      <4> QED
        BY <2>2, <3>1, <4>2 DEF MfaInv, SnapsSound
    <3>2. CASE /\ req'[r] = req[r] /\ row' = row
               /\ snap'[r][req[r].jti] = row[req[r].jti]
      BY <2>2, <3>2
    <3> QED
      BY <1>2, <1>3, <2>2, <3>1, <3>2 DEF RequestStep, Refused
  <2>3. ASSUME NEW r \in Requests, pc'[r] = "commit", req'[r].path = "verify"
        PROVE  /\ began'[r] \in Nat /\ began'[r] <= clock'
               /\ snap'[r][req'[r].jti].verifiedAt <= began'[r]
    <3>0. clock \in Nat /\ clock' \in Nat /\ clock <= clock'
      BY <1>1 DEF TypeOK, RowsAdvance
    <3>1. CASE UNCHANGED <<pc[r], req[r], snap[r], began[r]>>
      BY <2>3, <3>0, <3>1 DEF MfaInv, SnapsSound
    <3>2. CASE /\ req'[r] = req[r] /\ UNCHANGED <<row, clock>> /\ began'[r] = clock
               /\ snap'[r][req[r].jti] = row[req[r].jti]
      BY <1>3, <2>3, <3>0, <3>2 DEF MfaInv, RowsSound
    <3> QED
      BY <1>2, <1>3, <2>3, <3>1, <3>2 DEF RequestStep, Refused
  <2> QED
    BY <2>1, <2>2, <2>3 DEF SnapsSound
<1> QED
  BY <1>1, <1>4, <1>5, <1>6 DEF MfaInv

\* MfaInv holds in every reachable state.
LEMMA MfaInvariant == Spec => []MfaInv
<1>1. Init => MfaInv
  BY DEF Init, MfaInv, Held, RowsSound, SnapsSound, PastTheCheck, Blank
<1>2. TypeOK /\ TypeOK' /\ MfaInv /\ [Next]_vars => MfaInv'
  BY MfaInvStep
<1> QED
  BY <1>1, <1>2, TypeCorrect, PTL DEF Spec

\* A route other than /auth/mfa/verify never runs for a session whose login
\* MFA is still pending.
THEOREM PendingSessionsWait == Spec => []MfaBeforeService
<1>1. MfaInv => MfaBeforeService
  BY DEF MfaInv, PastTheCheck, MfaBeforeService
<1> QED
  BY <1>1, MfaInvariant, PTL

\* No step raises the pending flag of an existing session again or undoes a
\* verification, and none moves its time back but a verification that loaded
\* the row before the other was committed.
THEOREM MfaNeverUndone == Spec => MfaProgress
<1>1. TypeOK /\ MfaInv /\ [Next]_vars
        => [\A s \in issued :
              /\ row'[s].pending => row[s].pending
              /\ row[s].verifiedAt # Never => row'[s].verifiedAt # Never
              /\ row'[s].verifiedAt < row[s].verifiedAt
                   => \E r \in Requests : Overtakes(r, s)]_vars
  BY RowsStep DEF RowsAdvance
<1> QED
  BY <1>1, TypeCorrect, MfaInvariant, PTL DEF Spec, MfaProgress

-----------------------------------------------------------------------------
(* Revocation.  A key written by logout outlives the token, because the    *)
(* token was issued no later than the logout and lives no longer than the  *)
(* key.                                                                    *)

RevocationInv ==
  /\ \A s \in issued : exp[s] <= clock + JwtExpire
  /\ \A s \in Sessions : logout[s] # "no" => s \in issued
  /\ \A s \in Sessions : logout[s] = "revoked" =>
       blacklist[s] # Never /\ blacklist[s] >= exp[s]

\* Every step keeps RevocationInv, while a token lives no longer than its
\* blacklist key: a restart of Redis turns "revoked" into "forgotten".
LEMMA RevocationStep ==
  ASSUME JwtExpire <= BlacklistTtl,
         TypeOK, MfaInv, RevocationInv, [Next]_vars
  PROVE  RevocationInv'
<1> USE DEF dbVars, reqVars
<1>0. /\ clock \in Nat /\ issued \subseteq Sessions
      /\ \A s \in Sessions : exp[s] \in Time /\ blacklist[s] \in Time
      /\ JwtExpire \in Nat /\ BlacklistTtl \in Nat
      /\ \A r \in Requests : req[r].jti \in Sessions
  BY TimesAssumption DEF TypeOK, Request
<1>1. ASSUME UNCHANGED <<clock, issued, exp, blacklist, logout>>
      PROVE  RevocationInv'
  BY <1>1 DEF RevocationInv
<1>2. ASSUME NEW s \in Sessions, NEW v \in Verdicts, Login(s, v)
      PROVE  RevocationInv'
  <2>1. /\ s \notin issued /\ issued' = issued \cup {s}
        /\ exp'[s] = clock + JwtExpire
        /\ \A u \in Sessions : u # s => exp'[u] = exp[u]
        /\ UNCHANGED <<clock, blacklist, logout>>
    BY <1>2 DEF Login, TypeOK
  <2>2. logout[s] = "no"
    BY <2>1 DEF RevocationInv
  <2>3. \A u \in issued' : exp'[u] <= clock' + JwtExpire
    BY <1>0, <2>1 DEF RevocationInv
  <2>4. ASSUME NEW u \in Sessions, logout'[u] = "revoked"
        PROVE  blacklist'[u] # Never /\ blacklist'[u] >= exp'[u]
    BY <2>1, <2>2, <2>4 DEF RevocationInv
  <2> QED
    BY <2>1, <2>3, <2>4 DEF RevocationInv
<1>3. ASSUME NEW r \in Requests, LogoutCommit(r)
      PROVE  RevocationInv'
  <2> DEFINE s == req[r].jti
  <2>1. s \in issued
    BY <1>3 DEF LogoutCommit, MfaInv, Held
  <2>2. /\ \A u \in Sessions : u # s => logout'[u] = logout[u]
        /\ logout'[s] = "revoked" => logout[s] = "revoked"
        /\ UNCHANGED <<clock, issued, exp, blacklist>>
    <3>1. logout' = [logout EXCEPT ![s] = IF logout[s] = "no" THEN "closed" ELSE logout[s]]
      BY <1>3 DEF LogoutCommit
    <3>2. UNCHANGED <<clock, issued, exp, blacklist>>
      BY <1>3 DEF LogoutCommit
    <3> HIDE DEF s
    <3> QED
      BY <1>0, <2>1, <3>1, <3>2 DEF TypeOK
  <2> QED
    BY <2>1, <2>2 DEF RevocationInv
<1>4. ASSUME NEW r \in Requests, LogoutRevoke(r)
      PROVE  RevocationInv'
  <2> DEFINE s == req[r].jti
  <2>1. s \in issued
    BY <1>4 DEF LogoutRevoke, MfaInv, Held
  <2>2. /\ blacklist' = [blacklist EXCEPT ![s] = clock + BlacklistTtl]
        /\ logout' = [logout EXCEPT ![s] = "revoked"]
        /\ UNCHANGED <<clock, issued, exp>>
    BY <1>4 DEF LogoutRevoke, KeyTtl
  <2>3. exp[s] <= clock + BlacklistTtl
    BY <1>0, <2>1 DEF RevocationInv
  <2>4. ASSUME NEW u \in Sessions, logout'[u] = "revoked"
        PROVE  blacklist'[u] # Never /\ blacklist'[u] >= exp'[u]
    <3> HIDE DEF s
    <3>1. CASE u = s
      BY <1>0, <2>2, <2>3, <3>1 DEF TypeOK
    <3>2. CASE u # s
      BY <2>2, <2>4, <3>2 DEF TypeOK, RevocationInv
    <3> QED
      BY <3>1, <3>2
  <2>5. ASSUME NEW u \in Sessions, logout'[u] # "no" PROVE u \in issued'
    <3> HIDE DEF s
    <3> QED
      BY <2>1, <2>2, <2>5 DEF TypeOK, RevocationInv
  <2> QED
    BY <2>2, <2>4, <2>5 DEF RevocationInv
<1>5. CASE Tick
  <2>1. \A s \in issued' : exp'[s] <= clock' + JwtExpire
    BY <1>0, <1>5 DEF Tick, RevocationInv
  <2> QED
    BY <1>5, <2>1 DEF Tick, RevocationInv
<1>6. ASSUME NEW r \in Requests, NEW s \in Sessions, NEW t \in Sessions,
             NEW p \in Paths, Dispatch(r, s, p, t)
      PROVE  RevocationInv'
  BY <1>1, <1>6 DEF Dispatch
<1>7. ASSUME NEW r \in Requests, NEW v \in Verdicts, Evaluate(r, v)
      PROVE  RevocationInv'
  BY <1>1, <1>7 DEF Evaluate
<1>8. ASSUME NEW r \in Requests, NEW s \in Sessions, LogoutLoad(r, s)
      PROVE  RevocationInv'
  BY <1>1, <1>8 DEF LogoutLoad
<1>9. ASSUME NEW r \in Requests,
             \/ CheckBlacklist(r) \/ LoadSession(r) \/ Enforce(r) \/ Serve(r)
             \/ VerifyLoad(r) \/ VerifyCommit(r) \/ OverrideLoad(r)
             \/ OverrideCommit(r) \/ ResetLoad(r) \/ ResetCommit(r) \/ Abort(r)
      PROVE  RevocationInv'
  BY <1>1, <1>9 DEF CheckBlacklist, LoadSession, Enforce, Serve, VerifyLoad,
     VerifyCommit, OverrideLoad, OverrideCommit, ResetLoad, ResetCommit, Abort
<1>10. CASE UNCHANGED vars
  BY <1>1, <1>10 DEF vars
<1>11. CASE RedisRestart
  <2>1. /\ \A s \in Sessions : logout'[s] # "revoked" /\ (logout'[s] # "no" => logout[s] # "no")
        /\ UNCHANGED <<clock, issued, exp>>
    BY <1>11 DEF RedisRestart, TypeOK
  <2> QED
    BY <2>1 DEF RevocationInv
<1> QED
  BY <1>2, <1>3, <1>4, <1>5, <1>6, <1>7, <1>8, <1>9, <1>10, <1>11 DEF Next

\* Only the check of a request lets it go from "blacklist" to "load", and
\* only when the key may be missing.
LEMMA PassedCheck ==
  ASSUME TypeOK, [Next]_vars, NEW r \in Requests,
         pc[r] = "blacklist", pc'[r] = "load"
  PROVE  MayMiss(req[r].jti)
<1> USE DEF dbVars, reqVars
<1>1. ASSUME NEW q \in Requests, NEW step \in Steps \ {"load"},
             pc' = [pc EXCEPT ![q] = step]
      PROVE  FALSE
  BY <1>1 DEF TypeOK
<1>2. ASSUME NEW q \in Requests, Finish(q) PROVE FALSE
  BY <1>1, <1>2 DEF Finish, Close, Goto, Steps, Resting
<1>3. ASSUME NEW q \in Requests, CheckBlacklist(q) PROVE MayMiss(req[r].jti)
  <2>1. MayMiss(req[q].jti) /\ Goto(q, "load")
    BY <1>2, <1>3 DEF CheckBlacklist
  <2>2. q = r
    BY <2>1 DEF Goto, TypeOK
  <2> QED
    BY <2>1, <2>2
<1>4. ASSUME NEW q \in Requests, LoadSession(q) PROVE FALSE
  BY <1>1, <1>2, <1>4 DEF LoadSession, Goto, Steps, InGate
<1>5. ASSUME NEW q \in Requests, Enforce(q) PROVE FALSE
  <2>1. PICK answer \in Refused \cup {"handler"} : Close(q, answer)
    BY <1>5 DEF Enforce, Refused
  <2> QED
    BY <1>1, <2>1 DEF Close, Goto, Refused, Steps, Resting
<1>6. ASSUME NEW q \in Requests,
             \/ Serve(q) \/ VerifyCommit(q) \/ OverrideCommit(q) \/ ResetCommit(q)
             \/ LogoutRevoke(q) \/ Abort(q)
      PROVE  FALSE
  BY <1>2, <1>6 DEF Serve, VerifyCommit, OverrideCommit, ResetCommit, LogoutRevoke, Abort
<1>7. ASSUME NEW q \in Requests,
             \/ VerifyLoad(q) \/ OverrideLoad(q) \/ ResetLoad(q) \/ LogoutCommit(q)
      PROVE  FALSE
  BY <1>1, <1>2, <1>7 DEF VerifyLoad, OverrideLoad, ResetLoad, LogoutCommit, Goto, Steps
<1>8. ASSUME NEW q \in Requests, NEW s \in Sessions, NEW t \in Sessions,
             NEW p \in Paths, Dispatch(q, s, p, t)
      PROVE  FALSE
  BY <1>1, <1>8 DEF Dispatch, Goto, Steps, InGate
<1>9. ASSUME NEW q \in Requests, NEW v \in Verdicts, Evaluate(q, v) PROVE FALSE
  BY <1>1, <1>9 DEF Evaluate, Goto, Steps, InGate
<1>10. ASSUME NEW q \in Requests, NEW s \in Sessions, LogoutLoad(q, s) PROVE FALSE
  BY <1>1, <1>10 DEF LogoutLoad, Goto, Steps
<1>11. ASSUME NEW s \in Sessions, NEW v \in Verdicts, Login(s, v) PROVE FALSE
  BY <1>11 DEF Login
<1>12. CASE Tick \/ RedisRestart \/ UNCHANGED vars
  BY <1>12 DEF Tick, RedisRestart, vars
<1> QED
  BY <1>3, <1>4, <1>5, <1>6, <1>7, <1>8, <1>9, <1>10, <1>11, <1>12 DEF Next

\* When a token lives no longer than its blacklist key, a logged-out token is
\* refused until it expires or Redis loses its keys.
THEOREM LogoutRevokes ==
  ASSUME JwtExpire <= BlacklistTtl
  PROVE  Spec => RevokedTokenRefused
<1>1. Init => RevocationInv
  BY DEF Init, RevocationInv
<1>2. TypeOK /\ MfaInv /\ RevocationInv /\ [Next]_vars => RevocationInv'
  BY RevocationStep
<1>3. TypeOK /\ RevocationInv /\ [Next]_vars
        => [\A r \in Requests :
              pc[r] = "blacklist" /\ pc'[r] = "load"
                => ~(logout[req[r].jti] = "revoked" /\ clock < exp[req[r].jti])]_vars
  <2> SUFFICES ASSUME TypeOK, RevocationInv, [Next]_vars, NEW r \in Requests,
                      pc[r] = "blacklist", pc'[r] = "load",
                      logout[req[r].jti] = "revoked", clock < exp[req[r].jti]
               PROVE  FALSE
    OBVIOUS
  <2>1. MayMiss(req[r].jti)
    BY PassedCheck
  <2>2. /\ req[r].jti \in Sessions /\ clock \in Nat
        /\ \A s \in Sessions : exp[s] \in Time /\ blacklist[s] \in Time
    BY DEF TypeOK, Request
  <2> QED
    BY <2>1, <2>2 DEF MayMiss, RevocationInv
<1> QED
  BY <1>1, <1>2, <1>3, TypeCorrect, MfaInvariant, PTL DEF Spec, RevokedTokenRefused

\* What a step may do to how far a logout got.
LEMMA LogoutSteps ==
  ASSUME TypeOK, [Next]_vars
  PROVE  \/ logout' = logout
         \/ \E s \in Sessions : \E v \in {"closed", "revoked", logout[s]} :
              logout' = [logout EXCEPT ![s] = v]
         \/ RedisMayRestart
<1> USE DEF dbVars, reqVars
<1>1. ASSUME NEW r \in Requests, LogoutCommit(r) \/ LogoutRevoke(r)
      PROVE  \E s \in Sessions : \E v \in {"closed", "revoked", logout[s]} :
               logout' = [logout EXCEPT ![s] = v]
  <2>1. req[r].jti \in Sessions
    BY DEF TypeOK, Request
  <2>2. CASE LogoutCommit(r)
    <3>1. logout' = [logout EXCEPT ![req[r].jti] =
                       IF logout[req[r].jti] = "no" THEN "closed" ELSE logout[req[r].jti]]
      BY <2>2 DEF LogoutCommit
    <3> QED
      BY <2>1, <3>1
  <2>3. CASE LogoutRevoke(r)
    BY <2>1, <2>3 DEF LogoutRevoke
  <2> QED
    BY <1>1, <2>2, <2>3
<1>2. CASE \E s \in Sessions, v \in Verdicts : Login(s, v)
  BY <1>2 DEF Login
<1>3. CASE \E r \in Requests, s, t \in Sessions, p \in Paths : Dispatch(r, s, p, t)
  BY <1>3 DEF Dispatch
<1>4. CASE \E r \in Requests, v \in Verdicts : Evaluate(r, v)
  BY <1>4 DEF Evaluate
<1>5. CASE \E r \in Requests, s \in Sessions : LogoutLoad(r, s)
  BY <1>5 DEF LogoutLoad
<1>6. ASSUME NEW r \in Requests,
             \/ CheckBlacklist(r) \/ LoadSession(r) \/ Enforce(r) \/ Serve(r)
             \/ VerifyLoad(r) \/ VerifyCommit(r)
             \/ OverrideLoad(r) \/ OverrideCommit(r)
             \/ ResetLoad(r) \/ ResetCommit(r) \/ Abort(r)
      PROVE  logout' = logout
  BY <1>6 DEF CheckBlacklist, LoadSession, Enforce, Serve, VerifyLoad, VerifyCommit,
              OverrideLoad, OverrideCommit, ResetLoad, ResetCommit, Abort
<1>7. CASE Tick \/ RedisRestart \/ UNCHANGED vars
  BY <1>7 DEF Tick, RedisRestart, vars
<1> QED
  BY <1>1, <1>2, <1>3, <1>4, <1>5, <1>6, <1>7 DEF Next

\* The loss of Redis is the only way round a logout: without it a token that was
\* logged out is refused until it expires, as the documents say.
THEOREM OnlyRestartsForget ==
  ASSUME JwtExpire <= BlacklistTtl, ~RedisMayRestart
  PROVE  Spec => LogoutFinal
<1> DEFINE Remembered == \A s \in Sessions : logout[s] # "forgotten"
<1>1. Init => Remembered
  BY DEF Init
<1>2. TypeOK /\ Remembered /\ [Next]_vars => Remembered'
  <2> SUFFICES ASSUME TypeOK, Remembered, [Next]_vars PROVE Remembered'
    OBVIOUS
  <2>1. CASE logout' = logout
    BY <2>1
  <2>2. ASSUME NEW s \in Sessions, NEW v \in {"closed", "revoked", logout[s]},
               logout' = [logout EXCEPT ![s] = v]
        PROVE  Remembered'
    BY <2>2 DEF TypeOK
  <2> QED
    BY <2>1, <2>2, LogoutSteps
<1>3. TypeOK /\ Remembered
        /\ [\A r \in Requests :
              pc[r] = "blacklist" /\ pc'[r] = "load"
                => ~(logout[req[r].jti] = "revoked" /\ clock < exp[req[r].jti])]_vars
        => [\A r \in Requests :
              pc[r] = "blacklist" /\ pc'[r] = "load"
                => ~(logout[req[r].jti] \in {"revoked", "forgotten"}
                     /\ clock < exp[req[r].jti])]_vars
  BY DEF TypeOK, Request
<1>4. Spec => RevokedTokenRefused
  BY LogoutRevokes
<1> QED
  BY <1>1, <1>2, <1>3, <1>4, TypeCorrect, PTL DEF Spec, LogoutFinal, RevokedTokenRefused

-----------------------------------------------------------------------------
(* The verdict columns, the risk log and the alerts of one session.        *)

\* What one step does to the verdict columns, the log and the alerts of an
\* existing session: the gate scores it, an override or a logout saves it, or
\* they stay as they are.
Kept(s) ==
  /\ row'[s].score = row[s].score
  /\ row'[s].decision = row[s].decision
  /\ row'[s].expiresAt = row[s].expiresAt

Overridden(s) ==
  /\ row'[s].score \in {row[s].score, OverrideScore}
  /\ row'[s].decision \in {row[s].decision, "allow"}
  /\ row'[s].expiresAt = row[s].expiresAt

Closed(s) ==
  /\ \E r \in Requests : LogoutCommit(r) /\ req[r].jti = s
  /\ row'[s].score = row[s].score
  /\ row'[s].decision \in {row[s].decision, "logged_out"}

Scored(s) ==
  \E r \in Requests, v \in Verdicts :
    /\ Evaluate(r, v) /\ req[r].jti = s
    /\ row'[s].score = Dirty(row[s].score, snap[r][s].score, v.score)
    /\ row'[s].decision = Dirty(row[s].decision, snap[r][s].decision, v.decision)
    /\ row'[s].expiresAt = row[s].expiresAt

SessionStep(s) ==
  \/ Scored(s)
  \/ /\ Kept(s) \/ Overridden(s) \/ Closed(s)
     /\ UNCHANGED <<riskLog[s], alert[s]>>

\* A flush saves the score and the decision that differ from the loaded ones.
LEMMA FlushVerdict ==
  ASSUME NEW current \in Row, NEW loaded \in Row, NEW new \in Row
  PROVE  LET f == Flush(current, loaded, new) IN
         /\ f.score = Dirty(current.score, loaded.score, new.score)
         /\ f.decision = Dirty(current.decision, loaded.decision, new.decision)
         /\ f.expiresAt = Dirty(current.expiresAt, loaded.expiresAt, new.expiresAt)
BY DEF Flush

\* Every step is one of these for an existing session.
LEMMA EverySessionStep ==
  ASSUME TypeOK, [Next]_vars, NEW s \in issued
  PROVE  SessionStep(s) /\ s \in issued'
<1> USE DEF dbVars, reqVars
<1>0. /\ s \in Sessions /\ row[s] \in Row /\ clock \in Nat
      /\ \A r \in Requests : /\ req[r].jti \in Sessions /\ req[r].target \in Sessions
                             /\ \A u \in Sessions : snap[r][u] \in Row
  BY DEF TypeOK, Request
<1>1. ASSUME UNCHANGED <<issued, row, riskLog, alert>> PROVE SessionStep(s) /\ s \in issued'
  BY <1>1 DEF SessionStep, Kept
<1>2. ASSUME NEW u \in Sessions, NEW v \in Verdicts, Login(u, v)
      PROVE  SessionStep(s) /\ s \in issued'
  <2>1. u # s /\ row'[s] = row[s] /\ riskLog'[s] = riskLog[s] /\ alert' = alert
    BY <1>0, <1>2 DEF Login, TypeOK
  <2>2. s \in issued'
    BY <1>2 DEF Login
  <2> QED
    BY <2>1, <2>2 DEF SessionStep, Kept
<1>3. ASSUME NEW r \in Requests, NEW v \in Verdicts, Evaluate(r, v)
      PROVE  SessionStep(s) /\ s \in issued'
  <2> DEFINE u == req[r].jti
             loaded == snap[r][u]
             new == [loaded EXCEPT !.score = v.score, !.decision = v.decision]
             x == Flush(row[u], loaded, new)
  <2>1. u \in Sessions /\ loaded \in Row /\ row[u] \in Row
    BY <1>0 DEF TypeOK
  <2>2. v.decision \in Decision /\ v.score \in Nat
    BY VerdictsAssumption
  <2>3. /\ new \in Row /\ new.score = v.score /\ new.decision = v.decision
        /\ new.expiresAt = loaded.expiresAt
    <3> HIDE DEF loaded
    <3> QED
      BY <2>1, <2>2 DEF Row, RowDecision
  <2>4. /\ row' = [row EXCEPT ![u] = x] /\ UNCHANGED issued
        /\ \A a \in Sessions : a # u => riskLog'[a] = riskLog[a] /\ alert'[a] = alert[a]
    BY <1>3 DEF Evaluate, TypeOK
  <2>5. /\ x.score = Dirty(row[u].score, loaded.score, v.score)
        /\ x.decision = Dirty(row[u].decision, loaded.decision, v.decision)
        /\ x.expiresAt = row[u].expiresAt
    <3> HIDE DEF loaded, new
    <3> QED
      BY <2>1, <2>3, FlushVerdict DEF Dirty
  <2>6. \A a \in Sessions : row'[a] = IF a = u THEN x ELSE row[a]
    <3>1. row' = [row EXCEPT ![u] = x]
      BY <2>4
    <3> HIDE DEF x, u
    <3> QED
      BY <2>1, <3>1, SavedRow
  <2>7. CASE s = u
    <3>1. row'[s] = x
      BY <1>0, <2>6, <2>7
    <3>2. Scored(s)
      <4> HIDE DEF x
      <4> QED
        BY <1>3, <2>5, <2>7, <3>1 DEF Scored
    <3> QED
      BY <2>4, <3>2 DEF SessionStep
  <2>8. CASE s # u
    <3>1. row'[s] = row[s] /\ riskLog'[s] = riskLog[s] /\ alert'[s] = alert[s]
      BY <1>0, <2>4, <2>6, <2>8
    <3> QED
      BY <2>4, <3>1 DEF SessionStep, Kept
  <2> QED
    BY <2>7, <2>8
<1>4. ASSUME NEW r \in Requests, OverrideCommit(r) PROVE SessionStep(s) /\ s \in issued'
  <2> DEFINE u == req[r].target
             loaded == snap[r][u]
             new == [loaded EXCEPT !.score = OverrideScore, !.decision = "allow"]
             x == Flush(row[u], loaded, new)
  <2>1. u \in Sessions /\ loaded \in Row /\ row[u] \in Row
    BY <1>0 DEF TypeOK
  <2>2. /\ new \in Row /\ new.score = OverrideScore /\ new.decision = "allow"
        /\ new.expiresAt = loaded.expiresAt
    <3> HIDE DEF loaded
    <3> QED
      BY <2>1, ScoresAssumption DEF Row, RowDecision, Decision
  <2>3. row' = [row EXCEPT ![u] = x] /\ UNCHANGED <<issued, riskLog, alert>>
    BY <1>4 DEF OverrideCommit
  <2>4. /\ x.score \in {row[u].score, OverrideScore}
        /\ x.decision \in {row[u].decision, "allow"}
        /\ x.expiresAt = row[u].expiresAt
    <3> HIDE DEF loaded, new
    <3> QED
      BY <2>1, <2>2, FlushVerdict DEF Dirty
  <2>5. \A a \in Sessions : row'[a] = IF a = u THEN x ELSE row[a]
    <3> HIDE DEF x, u
    <3> QED
      BY <2>1, <2>3, SavedRow
  <2>6. Overridden(s)
    <3> HIDE DEF x
    <3> QED
      BY <1>0, <2>4, <2>5 DEF Overridden
  <2> QED
    BY <2>3, <2>6 DEF SessionStep
<1>5. ASSUME NEW r \in Requests, LogoutCommit(r) PROVE SessionStep(s) /\ s \in issued'
  <2> DEFINE u == req[r].jti
             loaded == snap[r][u]
             new == CloseRow(loaded)
             x == Flush(row[u], loaded, new)
  <2>1. u \in Sessions /\ loaded \in Row /\ row[u] \in Row
    BY <1>0 DEF TypeOK
  <2>2. new \in Row /\ new.score = loaded.score /\ new.decision = "logged_out"
    <3> HIDE DEF loaded
    <3> QED
      BY <1>0, <2>1, CloseRowType DEF Row, CloseRow
  <2>3. row' = [row EXCEPT ![u] = x] /\ UNCHANGED <<issued, riskLog, alert>>
    BY <1>5 DEF LogoutCommit
  <2>4. x.score = row[u].score /\ x.decision \in {row[u].decision, "logged_out"}
    <3> HIDE DEF loaded, new
    <3> QED
      BY <2>1, <2>2, FlushVerdict DEF Dirty
  <2>5. \A a \in Sessions : row'[a] = IF a = u THEN x ELSE row[a]
    <3> HIDE DEF x, u
    <3> QED
      BY <2>1, <2>3, SavedRow
  <2>6. CASE s = u
    <3>1. Closed(s)
      <4> HIDE DEF x
      <4> QED
        BY <1>0, <1>5, <2>4, <2>5, <2>6 DEF Closed
    <3> QED
      BY <2>3, <3>1 DEF SessionStep
  <2>7. CASE s # u
    <3>1. row'[s] = row[s]
      BY <1>0, <2>5, <2>7
    <3> QED
      BY <2>3, <3>1 DEF SessionStep, Kept
  <2> QED
    BY <2>6, <2>7
<1>6. ASSUME NEW r \in Requests, VerifyCommit(r) PROVE SessionStep(s) /\ s \in issued'
  <2> DEFINE u == req[r].jti
             loaded == snap[r][u]
  <2> PICK now \in began[r]..clock :
        row' = [row EXCEPT ![u] =
          Flush(row[u], loaded, [loaded EXCEPT !.verifiedAt = now, !.pending = FALSE])]
    BY <1>6 DEF VerifyCommit
  <2> DEFINE new == [loaded EXCEPT !.verifiedAt = now, !.pending = FALSE]
             x == Flush(row[u], loaded, new)
  <2>1. u \in Sessions /\ loaded \in Row /\ row[u] \in Row
    BY <1>0 DEF TypeOK
  <2>0. now \in Time
    BY DEF TypeOK
  <2>2. /\ new \in Row /\ new.score = loaded.score /\ new.decision = loaded.decision
        /\ new.expiresAt = loaded.expiresAt
    <3> HIDE DEF loaded
    <3> QED
      BY <2>0, <2>1 DEF Row
  <2>3. row' = [row EXCEPT ![u] = x] /\ UNCHANGED <<issued, riskLog, alert>>
    BY <1>6 DEF VerifyCommit
  <2>4. x.score = row[u].score /\ x.decision = row[u].decision /\ x.expiresAt = row[u].expiresAt
    <3> HIDE DEF loaded, new
    <3> QED
      BY <2>1, <2>2, FlushVerdict DEF Dirty
  <2>5. \A a \in Sessions : row'[a] = IF a = u THEN x ELSE row[a]
    <3> HIDE DEF x, u
    <3> QED
      BY <2>1, <2>3, SavedRow
  <2>6. Kept(s)
    <3> HIDE DEF x
    <3> QED
      BY <1>0, <2>4, <2>5 DEF Kept
  <2> QED
    BY <2>3, <2>6 DEF SessionStep
<1>7. ASSUME NEW r \in Requests, ResetCommit(r) PROVE SessionStep(s) /\ s \in issued'
  <2> DEFINE loaded == snap[r][s]
             new == [loaded EXCEPT !.pending = FALSE, !.verifiedAt = Never]
             x == Flush(row[s], loaded, new)
  <2>1. loaded \in Row
    BY <1>0
  <2>2. /\ new \in Row /\ new.score = loaded.score /\ new.decision = loaded.decision
        /\ new.expiresAt = loaded.expiresAt
    <3> HIDE DEF loaded
    <3> QED
      BY <2>1 DEF Row
  <2>3. row'[s] \in {row[s], x} /\ UNCHANGED <<issued, riskLog, alert>>
    BY <1>0, <1>7 DEF ResetCommit
  <2>4. x.score = row[s].score /\ x.decision = row[s].decision /\ x.expiresAt = row[s].expiresAt
    <3> HIDE DEF loaded, new
    <3> QED
      BY <1>0, <2>1, <2>2, FlushVerdict DEF Dirty
  <2>5. Kept(s)
    <3> HIDE DEF x
    <3> QED
      BY <2>3, <2>4 DEF Kept
  <2> QED
    BY <2>3, <2>5 DEF SessionStep
<1>8. ASSUME NEW r \in Requests, NEW u \in Sessions, NEW t \in Sessions,
             NEW p \in Paths, Dispatch(r, u, p, t)
      PROVE  UNCHANGED <<issued, row, riskLog, alert>>
  BY <1>8 DEF Dispatch
<1>9. ASSUME NEW r \in Requests, NEW u \in Sessions, LogoutLoad(r, u)
      PROVE  UNCHANGED <<issued, row, riskLog, alert>>
  BY <1>9 DEF LogoutLoad
<1>10. ASSUME NEW r \in Requests,
              \/ CheckBlacklist(r) \/ LoadSession(r) \/ Enforce(r) \/ Serve(r)
              \/ VerifyLoad(r) \/ OverrideLoad(r) \/ ResetLoad(r)
              \/ LogoutRevoke(r) \/ Abort(r)
       PROVE  UNCHANGED <<issued, row, riskLog, alert>>
  BY <1>10 DEF CheckBlacklist, LoadSession, Enforce, Serve, VerifyLoad, OverrideLoad,
     ResetLoad, LogoutRevoke, Abort
<1>11. CASE Tick \/ RedisRestart \/ UNCHANGED vars
  BY <1>1, <1>11 DEF Tick, RedisRestart, vars
<1> QED
  BY <1>1, <1>2, <1>3, <1>4, <1>5, <1>6, <1>7, <1>8, <1>9, <1>10, <1>11 DEF Next

\* One request moves at a time.
LEMMA OneMoves ==
  ASSUME TypeOK, [Next]_vars, NEW r \in Requests, NEW q \in Requests, r # q
  PROVE  pc'[r] = pc[r] \/ pc'[q] = pc[q]
<1> USE DEF dbVars, reqVars
<1>1. ASSUME NEW x \in Requests, NEW step, Goto(x, step)
      PROVE  pc'[r] = pc[r] \/ pc'[q] = pc[q]
  BY <1>1 DEF Goto, TypeOK
<1>2. ASSUME NEW x \in Requests, Finish(x)
      PROVE  pc'[r] = pc[r] \/ pc'[q] = pc[q]
  BY <1>1, <1>2 DEF Finish, Close
<1>3. ASSUME NEW x \in Requests,
             \/ CheckBlacklist(x) \/ LoadSession(x) \/ Serve(x) \/ VerifyLoad(x)
             \/ VerifyCommit(x) \/ OverrideLoad(x) \/ OverrideCommit(x) \/ ResetLoad(x)
             \/ ResetCommit(x) \/ LogoutCommit(x) \/ LogoutRevoke(x) \/ Abort(x)
      PROVE  pc'[r] = pc[r] \/ pc'[q] = pc[q]
  BY <1>1, <1>2, <1>3 DEF CheckBlacklist, LoadSession, Serve, VerifyLoad, VerifyCommit,
     OverrideLoad, OverrideCommit, ResetLoad, ResetCommit, LogoutCommit, LogoutRevoke, Abort
<1>4. ASSUME NEW x \in Requests, Enforce(x)
      PROVE  pc'[r] = pc[r] \/ pc'[q] = pc[q]
  <2>1. \E answer \in Refused \cup {"handler"} : Close(x, answer)
    BY <1>4 DEF Enforce, Refused
  <2> QED
    BY <1>1, <1>2, <2>1 DEF Close
<1>5. ASSUME NEW x \in Requests, NEW s \in Sessions, NEW t \in Sessions,
             NEW p \in Paths, Dispatch(x, s, p, t)
      PROVE  pc'[r] = pc[r] \/ pc'[q] = pc[q]
  BY <1>1, <1>5 DEF Dispatch
<1>6. ASSUME NEW x \in Requests, NEW v \in Verdicts, Evaluate(x, v)
      PROVE  pc'[r] = pc[r] \/ pc'[q] = pc[q]
  BY <1>1, <1>6 DEF Evaluate
<1>7. ASSUME NEW x \in Requests, NEW s \in Sessions, LogoutLoad(x, s)
      PROVE  pc'[r] = pc[r] \/ pc'[q] = pc[q]
  BY <1>1, <1>7 DEF LogoutLoad
<1>8. ASSUME NEW s \in Sessions, NEW v \in Verdicts, Login(s, v) PROVE pc' = pc
  BY <1>8 DEF Login
<1>9. CASE Tick \/ RedisRestart \/ UNCHANGED vars
  BY <1>9 DEF Tick, RedisRestart, vars
<1> QED
  BY <1>3, <1>4, <1>5, <1>6, <1>7, <1>8, <1>9 DEF Next

\* The gate holds one request at most.
GateAlone ==
  \A r, q \in Requests : pc[r] \in InGate /\ pc[q] \in InGate => r = q

\* No step lets a second request into the gate.
LEMMA GateAloneStep ==
  ASSUME TypeOK, GateAlone, [Next]_vars
  PROVE  GateAlone'
<1>1. ASSUME NEW r \in Requests, NEW q \in Requests, r # q,
             pc'[r] \in InGate, pc'[q] \in InGate, pc'[q] = pc[q]
      PROVE  FALSE
  <2>1. RequestStep(r)
    BY ControlStep
  <2>2. pc[r] \in InGate \/ LoopFree
    BY <1>1, <2>1 DEF RequestStep, InGate
  <2> QED
    BY <1>1, <2>2 DEF GateAlone, LoopFree
<1> QED
  BY <1>1, OneMoves DEF GateAlone

\* A step that creates a session gives its row and its log the same verdict;
\* a session that does not exist has no new alert.
LEMMA NewSession ==
  ASSUME TypeOK, Held, [Next]_vars, NEW s \in Sessions \ issued
  PROVE  /\ alert'[s] = alert[s]
         /\ s \in issued' => /\ row'[s].score = riskLog'[s].after
                             /\ row'[s].decision = riskLog'[s].decision
<1> USE DEF dbVars, reqVars
<1>1. ASSUME UNCHANGED <<issued, alert>>
      PROVE  alert'[s] = alert[s] /\ s \notin issued'
  BY <1>1
<1>2. ASSUME NEW u \in Sessions, NEW v \in Verdicts, Login(u, v)
      PROVE  /\ alert'[s] = alert[s]
             /\ s \in issued' => /\ row'[s].score = riskLog'[s].after
                                 /\ row'[s].decision = riskLog'[s].decision
  <2>1. CASE s = u
    <3>1. /\ row'[s] = [pending |-> v.decision = "mfa", verifiedAt |-> Never,
                        decision |-> v.decision, score |-> v.score,
                        expiresAt |-> clock + SessionLife]
          /\ riskLog'[s] = [before |-> 0, after |-> v.score, decision |-> v.decision]
          /\ alert' = alert
      BY <1>2, <2>1 DEF Login, TypeOK
    <3> QED
      BY <3>1
  <2>2. CASE s # u
    BY <1>2, <2>2 DEF Login
  <2> QED
    BY <2>1, <2>2
<1>3. ASSUME NEW r \in Requests, NEW v \in Verdicts, Evaluate(r, v)
      PROVE  alert'[s] = alert[s] /\ s \notin issued'
  <2>1. req[r].jti # s
    BY <1>3 DEF Evaluate, Held
  <2> QED
    BY <1>3, <2>1 DEF Evaluate, TypeOK
<1>4. ASSUME NEW r \in Requests, NEW u \in Sessions, NEW t \in Sessions,
             NEW p \in Paths, Dispatch(r, u, p, t)
      PROVE  UNCHANGED <<issued, alert>>
  BY <1>4 DEF Dispatch
<1>5. ASSUME NEW r \in Requests, NEW u \in Sessions, LogoutLoad(r, u)
      PROVE  UNCHANGED <<issued, alert>>
  BY <1>5 DEF LogoutLoad
<1>6. ASSUME NEW r \in Requests,
             \/ CheckBlacklist(r) \/ LoadSession(r) \/ Enforce(r) \/ Serve(r)
             \/ VerifyLoad(r) \/ VerifyCommit(r) \/ OverrideLoad(r) \/ OverrideCommit(r)
             \/ ResetLoad(r) \/ ResetCommit(r) \/ LogoutCommit(r)
             \/ LogoutRevoke(r) \/ Abort(r)
      PROVE  UNCHANGED <<issued, alert>>
  BY <1>6 DEF CheckBlacklist, LoadSession, Enforce, Serve, VerifyLoad, VerifyCommit,
     OverrideLoad, OverrideCommit, ResetLoad, ResetCommit, LogoutCommit, LogoutRevoke, Abort
<1>7. CASE Tick \/ RedisRestart \/ UNCHANGED vars
  BY <1>7 DEF Tick, RedisRestart, vars
<1> QED
  BY <1>1, <1>2, <1>3, <1>4, <1>5, <1>6, <1>7 DEF Next

-----------------------------------------------------------------------------
(* Traceability.  What the request in the gate loaded is still what the    *)
(* newest log row or an override left, because nobody else scores.         *)

SnapTraceable ==
  \A r \in Requests : pc[r] = "score" =>
    LET s == req[r].jti IN
    /\ snap[r][s].score \in {riskLog[s].after, OverrideScore}
    /\ row[s].score \in {snap[r][s].score, OverrideScore}
    /\ row[s].decision \in {snap[r][s].decision, "allow", "logged_out"}

TraceInv == GateAlone /\ RowTraceable /\ SnapTraceable

\* The gate's pass logs as "before" what it loaded, and the row ends with its
\* verdict, an override's or a logout's.
LEMMA ScoredTraceable ==
  ASSUME TypeOK, TraceInv, NEW s \in Sessions, Scored(s)
  PROVE  /\ row'[s].score \in {riskLog'[s].after, OverrideScore}
         /\ row'[s].decision \in {riskLog'[s].decision, "allow", "logged_out"}
         /\ riskLog'[s].before \in {riskLog[s].after, OverrideScore}
<1>1. PICK r \in Requests, v \in Verdicts :
        /\ Evaluate(r, v) /\ req[r].jti = s
        /\ row'[s].score = Dirty(row[s].score, snap[r][s].score, v.score)
        /\ row'[s].decision = Dirty(row[s].decision, snap[r][s].decision, v.decision)
  BY DEF Scored
<1>2. riskLog'[s] = [before |-> snap[r][s].score, after |-> v.score, decision |-> v.decision]
  BY <1>1 DEF Evaluate, TypeOK
<1>3. /\ snap[r][s].score \in {riskLog[s].after, OverrideScore}
      /\ row[s].score \in {snap[r][s].score, OverrideScore}
      /\ row[s].decision \in {snap[r][s].decision, "allow", "logged_out"}
  BY <1>1 DEF Evaluate, TraceInv, SnapTraceable
<1> QED
  BY <1>1, <1>2, <1>3 DEF Dirty

\* Every step keeps TraceInv.
LEMMA TraceStep ==
  ASSUME TypeOK, TypeOK', Held, TraceInv, [Next]_vars
  PROVE  TraceInv'
<1>0. /\ issued \subseteq Sessions
      /\ \A r \in Requests : pc[r] # "idle" => req[r].jti \in issued
  BY DEF TypeOK, Held
<1>1. GateAlone'
  BY GateAloneStep DEF TraceInv
<1>2. ASSUME NEW s \in issued
      PROVE  /\ row'[s].score \in {riskLog'[s].after, OverrideScore}
             /\ row'[s].decision \in {riskLog'[s].decision, "allow", "logged_out"}
  <2>1. CASE Scored(s)
    BY <1>0, <2>1, ScoredTraceable
  <2>2. CASE (Kept(s) \/ Overridden(s) \/ Closed(s)) /\ riskLog'[s] = riskLog[s]
    BY <2>2 DEF TraceInv, RowTraceable, Kept, Overridden, Closed
  <2> QED
    BY <2>1, <2>2, EverySessionStep DEF SessionStep
<1>3. RowTraceable'
  <2> SUFFICES ASSUME NEW s \in issued'
               PROVE  /\ row'[s].score \in {riskLog'[s].after, OverrideScore}
                      /\ row'[s].decision \in {riskLog'[s].decision, "allow", "logged_out"}
    BY DEF RowTraceable
  <2>1. CASE s \in issued
    BY <1>2, <2>1
  <2>2. CASE s \notin issued
    <3>1. s \in Sessions
      BY DEF TypeOK
    <3> QED
      BY <2>2, <3>1, NewSession
  <2> QED
    BY <2>1, <2>2
<1>4. ASSUME NEW r \in Requests, pc'[r] = "score", NEW s \in Sessions, s = req'[r].jti
      PROVE  /\ snap'[r][s].score \in {riskLog'[s].after, OverrideScore}
             /\ row'[s].score \in {snap'[r][s].score, OverrideScore}
             /\ row'[s].decision \in {snap'[r][s].decision, "allow", "logged_out"}
  <2>1. CASE UNCHANGED <<pc[r], req[r], snap[r]>>
    <3>1. s \in issued /\ pc[r] = "score" /\ s = req[r].jti /\ snap'[r] = snap[r]
      BY <1>0, <1>4, <2>1
    <3>2. ~Scored(s)
      <4> SUFFICES ASSUME NEW q \in Requests, NEW v \in Verdicts, Evaluate(q, v)
                   PROVE  FALSE
        BY DEF Scored
      <4>1. q = r
        BY <3>1 DEF Evaluate, TraceInv, GateAlone, InGate
      <4> QED
        BY <1>4, <4>1 DEF Evaluate, Goto, TypeOK
    <3>3. (Kept(s) \/ Overridden(s) \/ Closed(s)) /\ riskLog'[s] = riskLog[s]
      BY <3>1, <3>2, EverySessionStep DEF SessionStep
    <3> QED
      BY <3>1, <3>3 DEF TraceInv, SnapTraceable, Kept, Overridden, Closed
  <2>2. CASE /\ snap'[r][req[r].jti] = row[req[r].jti] /\ pc[r] = "load"
             /\ UNCHANGED <<req[r], row, riskLog>>
    BY <1>0, <1>4, <2>2 DEF TraceInv, RowTraceable
  <2> QED
    BY <1>4, <2>1, <2>2, ControlStep DEF RequestStep, Refused
<1>5. SnapTraceable'
  <2>1. \A r \in Requests : req'[r].jti \in Sessions
    BY DEF TypeOK, Request
  <2> QED
    BY <1>4, <2>1 DEF SnapTraceable
<1> QED
  BY <1>1, <1>3, <1>5 DEF TraceInv

\* TraceInv holds in every reachable state.
LEMMA TraceInvariant == Spec => []TraceInv
<1>1. Init => TraceInv
  BY DEF Init, TraceInv, GateAlone, RowTraceable, SnapTraceable, InGate
<1>2. TypeOK /\ TypeOK' /\ MfaInv /\ TraceInv /\ [Next]_vars => TraceInv'
  BY TraceStep DEF MfaInv
<1> QED
  BY <1>1, <1>2, TypeCorrect, MfaInvariant, PTL DEF Spec

\* A row's score and decision come from the newest logged verdict, an override
\* or a logout, whatever passes and handlers overlap.
THEOREM RowsTraceable == Spec => []RowTraceable
<1>1. TraceInv => RowTraceable
  BY DEF TraceInv
<1> QED
  BY <1>1, TraceInvariant, PTL

\* Each log row starts from the score the one before ended with, or from an
\* override's.
THEOREM TrailUnbroken == Spec => RiskTrailChained
<1>1. TypeOK /\ TraceInv /\ [Next]_vars
        => [\A s \in issued :
              riskLog'[s] # riskLog[s]
                => riskLog'[s].before \in {riskLog[s].after, OverrideScore}]_vars
  <2> SUFFICES ASSUME TypeOK, TraceInv, [Next]_vars, NEW s \in issued,
                      riskLog'[s] # riskLog[s]
               PROVE  riskLog'[s].before \in {riskLog[s].after, OverrideScore}
    OBVIOUS
  <2>1. s \in Sessions
    BY DEF TypeOK
  <2>2. Scored(s)
    BY EverySessionStep DEF SessionStep
  <2> QED
    BY <2>1, <2>2, ScoredTraceable
<1> QED
  BY <1>1, TypeCorrect, TraceInvariant, PTL DEF Spec, RiskTrailChained

-----------------------------------------------------------------------------
(* The list of live sessions.  A logout that is about to commit knows the  *)
(* row's expiry, or another logout has brought it forward already; so its  *)
(* commit always leaves the row expired, and nothing moves an expiry back. *)

ClosedInv ==
  /\ \A s \in Sessions : logout[s] # "no" => s \in issued /\ row[s].expiresAt <= clock
  /\ \A r \in Requests : pc[r] = "revoke" => row[req[r].jti].expiresAt <= clock
  /\ \A r \in Requests : pc[r] = "commit" /\ req[r].path = "logout" =>
       LET s == req[r].jti IN
       snap[r][s].expiresAt = row[s].expiresAt \/ row[s].expiresAt <= clock

\* Time does not go back.
LEMMA ClockStep ==
  ASSUME TypeOK, [Next]_vars
  PROVE  clock' \in Nat /\ clock' >= clock
<1> USE DEF dbVars, reqVars
<1>0. clock \in Nat
  BY DEF TypeOK
<1>1. ASSUME NEW r \in Requests,
             \/ CheckBlacklist(r) \/ LoadSession(r) \/ Enforce(r) \/ Serve(r)
             \/ VerifyLoad(r) \/ VerifyCommit(r) \/ OverrideLoad(r) \/ OverrideCommit(r)
             \/ ResetLoad(r) \/ ResetCommit(r) \/ LogoutCommit(r)
             \/ LogoutRevoke(r) \/ Abort(r)
      PROVE  clock' = clock
  BY <1>1 DEF CheckBlacklist, LoadSession, Enforce, Serve, VerifyLoad, VerifyCommit,
     OverrideLoad, OverrideCommit, ResetLoad, ResetCommit, LogoutCommit, LogoutRevoke, Abort
<1>2. ASSUME NEW s \in Sessions, NEW v \in Verdicts, Login(s, v) PROVE clock' = clock
  BY <1>2 DEF Login
<1>3. ASSUME NEW r \in Requests, NEW s \in Sessions, NEW t \in Sessions,
             NEW p \in Paths, Dispatch(r, s, p, t)
      PROVE  clock' = clock
  BY <1>3 DEF Dispatch
<1>4. ASSUME NEW r \in Requests, NEW v \in Verdicts, Evaluate(r, v) PROVE clock' = clock
  BY <1>4 DEF Evaluate
<1>5. ASSUME NEW r \in Requests, NEW s \in Sessions, LogoutLoad(r, s) PROVE clock' = clock
  BY <1>5 DEF LogoutLoad
<1>6. clock' \in {clock, clock + 1}
  <2>1. ASSUME Tick PROVE clock' = clock + 1
    BY <2>1 DEF Tick
  <2>2. ASSUME RedisRestart \/ UNCHANGED vars PROVE clock' = clock
    BY <2>2 DEF RedisRestart, vars
  <2> QED
    BY <1>1, <1>2, <1>3, <1>4, <1>5, <2>1, <2>2 DEF Next
<1> QED
  BY <1>0, <1>6

\* A logout's commit leaves the row expired.
LEMMA LogoutExpires ==
  ASSUME TypeOK, ClosedInv, NEW r \in Requests, LogoutCommit(r)
  PROVE  row'[req[r].jti].expiresAt <= clock /\ clock' = clock
<1> USE DEF dbVars
<1> DEFINE s == req[r].jti
           loaded == snap[r][s]
           new == CloseRow(loaded)
           x == Flush(row[s], loaded, new)
<1>1. s \in Sessions /\ loaded \in Row /\ row[s] \in Row /\ clock \in Nat
  BY DEF TypeOK, Request
<1>2. loaded.expiresAt = row[s].expiresAt \/ row[s].expiresAt <= clock
  BY DEF ClosedInv, LogoutCommit
<1>3. new \in Row /\ new.expiresAt = clock
  <2> HIDE DEF loaded
  <2> QED
    BY <1>1, CloseRowType DEF CloseRow, Row
<1>4. x.expiresAt = Dirty(row[s].expiresAt, loaded.expiresAt, clock)
  <2> HIDE DEF loaded, new
  <2> QED
    BY <1>1, <1>3, FlushVerdict
<1>5. x.expiresAt <= clock
  <2>1. clock \in Nat /\ loaded.expiresAt \in Time /\ row[s].expiresAt \in Time
    <3> HIDE DEF loaded
    <3> QED
      BY <1>1 DEF Row
  <2> HIDE DEF x, loaded, s
  <2> QED
    BY <1>2, <1>4, <2>1 DEF Dirty
<1>6. row'[s] = x
  <2>1. row' = [row EXCEPT ![s] = x]
    BY DEF LogoutCommit
  <2>2. s \in Sessions
    BY <1>1
  <2> HIDE DEF x, s
  <2>3. \A u \in Sessions : row'[u] = IF u = s THEN x ELSE row[u]
    BY <2>1, <2>2, SavedRow
  <2> QED
    BY <2>2, <2>3
<1>7. clock' = clock
  BY DEF LogoutCommit
<1> HIDE DEF x
<1> QED
  BY <1>5, <1>6, <1>7

\* Only the two writes of a logout make a session a logged-out one.
LEMMA LogoutBegins ==
  ASSUME TypeOK, [Next]_vars, NEW s \in Sessions, logout[s] = "no", logout'[s] # "no"
  PROVE  \E r \in Requests : req[r].jti = s /\ (LogoutCommit(r) \/ LogoutRevoke(r))
<1> USE DEF dbVars, reqVars
<1>1. ASSUME NEW r \in Requests, LogoutCommit(r) \/ LogoutRevoke(r)
      PROVE  req[r].jti = s
  BY <1>1 DEF LogoutCommit, LogoutRevoke, TypeOK
<1>2. ASSUME NEW r \in Requests,
             \/ CheckBlacklist(r) \/ LoadSession(r) \/ Enforce(r) \/ Serve(r)
             \/ VerifyLoad(r) \/ VerifyCommit(r) \/ OverrideLoad(r) \/ OverrideCommit(r)
             \/ ResetLoad(r) \/ ResetCommit(r) \/ Abort(r)
      PROVE  FALSE
  BY <1>2 DEF CheckBlacklist, LoadSession, Enforce, Serve, VerifyLoad, VerifyCommit,
     OverrideLoad, OverrideCommit, ResetLoad, ResetCommit, Abort
<1>3. ASSUME NEW u \in Sessions, NEW v \in Verdicts, Login(u, v) PROVE FALSE
  BY <1>3 DEF Login
<1>4. ASSUME NEW r \in Requests, NEW u \in Sessions, NEW t \in Sessions,
             NEW p \in Paths, Dispatch(r, u, p, t)
      PROVE  FALSE
  BY <1>4 DEF Dispatch
<1>5. ASSUME NEW r \in Requests, NEW v \in Verdicts, Evaluate(r, v) PROVE FALSE
  BY <1>5 DEF Evaluate
<1>6. ASSUME NEW r \in Requests, NEW u \in Sessions, LogoutLoad(r, u) PROVE FALSE
  BY <1>6 DEF LogoutLoad
<1>7. CASE Tick \/ RedisRestart \/ UNCHANGED vars
  BY <1>7 DEF Tick, RedisRestart, vars, TypeOK
<1> QED
  BY <1>1, <1>2, <1>3, <1>4, <1>5, <1>6, <1>7 DEF Next

\* Every step keeps ClosedInv.
LEMMA ClosedStep ==
  ASSUME TypeOK, TypeOK', Held, ClosedInv, [Next]_vars
  PROVE  ClosedInv'
<1>0. /\ clock \in Nat /\ clock' \in Nat /\ clock' >= clock /\ issued \subseteq Sessions
      /\ \A s \in Sessions : row[s].expiresAt \in Time /\ row'[s].expiresAt \in Time
      /\ \A r \in Requests : req[r].jti \in Sessions /\ req'[r].jti \in Sessions
      /\ \A r \in Requests : pc[r] # "idle" => req[r].jti \in issued
  BY ClockStep DEF TypeOK, Row, Request, Held
<1>1. ASSUME NEW s \in issued
      PROVE  s \in issued' /\ (row'[s].expiresAt = row[s].expiresAt \/ row'[s].expiresAt <= clock')
  <2>1. s \in issued' /\ SessionStep(s)
    BY EverySessionStep
  <2>2. CASE Closed(s)
    BY <2>1, <2>2, LogoutExpires DEF Closed
  <2> QED
    BY <2>1, <2>2 DEF SessionStep, Scored, Kept, Overridden
<1>2. ASSUME NEW r \in Requests, pc'[r] = "revoke"
      PROVE  row'[req'[r].jti].expiresAt <= clock'
  <2>1. CASE UNCHANGED <<pc[r], req[r]>>
    <3>1. req[r].jti \in issued /\ row[req[r].jti].expiresAt <= clock
      BY <1>0, <1>2, <2>1 DEF ClosedInv
    <3> QED
      BY <1>0, <1>1, <2>1, <3>1
  <2>2. CASE LogoutCommit(r) /\ req'[r] = req[r]
    BY <2>2, LogoutExpires
  <2> QED
    BY <1>2, <2>1, <2>2, ControlStep DEF RequestStep, Refused
<1>3. ASSUME NEW r \in Requests, pc'[r] = "commit", req'[r].path = "logout",
             NEW s \in Sessions, s = req'[r].jti
      PROVE  snap'[r][s].expiresAt = row'[s].expiresAt \/ row'[s].expiresAt <= clock'
  <2>1. CASE UNCHANGED <<pc[r], req[r], snap[r]>>
    <3>1. /\ s \in issued /\ s = req[r].jti /\ snap'[r] = snap[r]
          /\ snap[r][s].expiresAt = row[s].expiresAt \/ row[s].expiresAt <= clock
      BY <1>0, <1>3, <2>1 DEF ClosedInv
    <3> QED
      BY <1>0, <1>1, <3>1
  <2>2. CASE snap'[r][s] = row[s] /\ row' = row
    BY <2>2
  <2> QED
    BY <1>3, <2>1, <2>2, ControlStep DEF RequestStep, Refused
<1>4. ASSUME NEW s \in Sessions, logout'[s] # "no"
      PROVE  s \in issued' /\ row'[s].expiresAt <= clock'
  <2>1. CASE logout[s] # "no"
    BY <1>0, <1>1, <2>1 DEF ClosedInv
  <2>2. CASE logout[s] = "no"
    <3>1. PICK r \in Requests : req[r].jti = s /\ (LogoutCommit(r) \/ LogoutRevoke(r))
      BY <1>4, <2>2, LogoutBegins
    <3>2. s \in issued
      BY <1>0, <3>1 DEF LogoutCommit, LogoutRevoke
    <3>3. CASE LogoutCommit(r)
      BY <1>1, <3>1, <3>2, <3>3, LogoutExpires
    <3>4. CASE LogoutRevoke(r)
      BY <1>0, <1>1, <3>1, <3>2, <3>4 DEF LogoutRevoke, ClosedInv
    <3> QED
      BY <3>1, <3>3, <3>4
  <2> QED
    BY <2>1, <2>2
<1> QED
  BY <1>0, <1>2, <1>3, <1>4 DEF ClosedInv

\* A session whose logout was committed is never listed as live again.
THEOREM LoggedOutStaysUnlisted == Spec => []LoggedOutNotListed
<1>1. Init => ClosedInv
  BY DEF Init, ClosedInv
<1>2. TypeOK /\ TypeOK' /\ MfaInv /\ ClosedInv /\ [Next]_vars => ClosedInv'
  BY ClosedStep DEF MfaInv
<1>3. TypeOK /\ ClosedInv => LoggedOutNotListed
  <2> SUFFICES ASSUME TypeOK, ClosedInv, NEW s \in Sessions, logout[s] # "no", Listed(s)
               PROVE  FALSE
    BY DEF LoggedOutNotListed
  <2>1. clock \in Nat /\ row[s].expiresAt \in Time
    BY DEF TypeOK, Row
  <2> QED
    BY <2>1 DEF ClosedInv, Listed
<1> QED
  BY <1>1, <1>2, <1>3, TypeCorrect, MfaInvariant, PTL DEF Spec

-----------------------------------------------------------------------------
(* Alerts.  A request in the gate is younger than the clock and older than *)
(* no alert of its session, since alerts are dated by the request that     *)
(* raised them and only one is in the gate; so raising one never dates an  *)
(* alert back, and what a refused request found or raised stays.           *)

Raised(r, a) ==
  LET s == req[r].jti IN
  alert[s][a] # Never /\ alert[s][a] + AlertWindow >= began[r]

BeganInv ==
  /\ \A s \in Sessions, a \in AlertTypes : alert[s][a] <= clock
  /\ \A r \in Requests : pc[r] \in Refused \cup {"score", "enforce"} =>
       began[r] # Never /\ began[r] <= clock
  /\ \A r \in Requests : pc[r] = "score" =>
       \A a \in AlertTypes : alert[req[r].jti][a] <= began[r]

\* The alerts a request's verdict calls for, by what the gate saw.
Due(r) == IF verdict[r].seen = "failed" THEN {}
          ELSE AlertFor(verdict[r], verdict[r].seen = "verified")

RefusalInv ==
  \A r \in Requests :
    pc[r] \in Refused \cup {"enforce"} => \A a \in Due(r) : Raised(r, a)

AlertInv == GateAlone /\ BeganInv /\ RefusalInv

\* What a verdict calls for are types of alerts.
LEMMA DueType ==
  ASSUME NEW r \in Requests
  PROVE  Due(r) \subseteq AlertTypes /\ Due(r)' \subseteq AlertTypes
BY DEF Due, AlertFor, AlertTypes

\* A pass dates the alerts it raises by its own beginning, and leaves the
\* others; unless that fails, every alert its verdict calls for is there.
LEMMA EvaluateAlerts ==
  ASSUME TypeOK, BeganInv, NEW r \in Requests, NEW v \in Verdicts, Evaluate(r, v),
         NEW a \in AlertTypes
  PROVE  LET s == req[r].jti IN
         /\ alert'[s][a] \in {alert[s][a], began[r]}
         /\ alert'[s][a] >= alert[s][a]
         /\ a \in Due(r)' =>
              alert'[s][a] # Never /\ alert'[s][a] + AlertWindow >= began[r]
<1> DEFINE s == req[r].jti
           loaded == snap[r][s]
<1>1. /\ s \in Sessions /\ clock \in Nat /\ began[r] \in Time /\ alert[s][a] \in Time
      /\ AlertWindow \in Nat
  BY TimesAssumption DEF TypeOK, Request
<1>2. /\ began[r] # Never /\ began[r] <= clock
      /\ alert[s][a] <= began[r]
  BY DEF Evaluate, BeganInv
<1>3. PICK seen \in {"failed", IF Verified(loaded) THEN "verified" ELSE "unverified"} :
        /\ alert' = IF seen = "failed" THEN alert
                    ELSE [alert EXCEPT ![s] = [b \in AlertTypes |->
                      IF b \in AlertFor(v, Verified(loaded)) /\ ~Recent(s, b)
                        THEN began[r] ELSE alert[s][b]]]
        /\ verdict' = [verdict EXCEPT ![r] =
             [decision |-> v.decision, score |-> v.score, seen |-> seen]]
  BY DEF Evaluate
<1>4. /\ verdict'[r].decision = v.decision /\ verdict'[r].score = v.score
      /\ verdict'[r].seen = seen
  BY <1>3 DEF TypeOK
<1>5. CASE seen = "failed"
  BY <1>1, <1>3, <1>4, <1>5 DEF Due
<1>6. CASE seen # "failed"
  <2>1. alert'[s][a] = IF a \in AlertFor(v, Verified(loaded)) /\ ~Recent(s, a)
                         THEN began[r] ELSE alert[s][a]
    BY <1>1, <1>3, <1>6 DEF TypeOK
  <2>2. Verified(loaded) <=> seen = "verified"
    BY <1>3, <1>6
  <2>3. a \in Due(r)' => a \in AlertFor(v, Verified(loaded))
    <3> HIDE DEF loaded
    <3> QED
      BY <1>4, <1>6, <2>2 DEF Due, AlertFor
  <2> HIDE DEF s, loaded
  <2> QED
    BY <1>1, <1>2, <2>1, <2>3 DEF Recent, s
<1> QED
  BY <1>5, <1>6

\* Alerts of an existing session change by a pass of the gate only.
LEMMA AlertStep ==
  ASSUME TypeOK, Held, BeganInv, [Next]_vars, NEW s \in Sessions
  PROVE  \/ alert'[s] = alert[s]
         \/ \E r \in Requests, v \in Verdicts : Evaluate(r, v) /\ req[r].jti = s
<1>1. CASE s \in issued
  BY <1>1, EverySessionStep DEF SessionStep, Scored
<1>2. CASE s \notin issued
  BY <1>2, NewSession
<1> QED
  BY <1>1, <1>2

\* An alert is never dated back, nor into the future.
LEMMA AlertsAdvance ==
  ASSUME TypeOK, TypeOK', Held, BeganInv, [Next]_vars, NEW s \in Sessions,
         NEW a \in AlertTypes
  PROVE  alert'[s][a] >= alert[s][a] /\ alert'[s][a] <= clock'
<1>0. /\ clock \in Nat /\ clock' \in Nat /\ clock' >= clock
      /\ alert[s][a] \in Time /\ alert[s][a] <= clock
  BY ClockStep DEF TypeOK, BeganInv
<1>1. CASE alert'[s] = alert[s]
  BY <1>0, <1>1
<1>2. ASSUME NEW r \in Requests, NEW v \in Verdicts, Evaluate(r, v), req[r].jti = s
      PROVE  alert'[s][a] >= alert[s][a] /\ alert'[s][a] <= clock'
  <2>1. began[r] \in Time /\ began[r] <= clock
    BY <1>2 DEF Evaluate, BeganInv, TypeOK
  <2>2. alert'[s][a] \in {alert[s][a], began[r]} /\ alert'[s][a] >= alert[s][a]
    BY <1>2, EvaluateAlerts
  <2> QED
    BY <1>0, <2>1, <2>2
<1> QED
  BY <1>1, <1>2, AlertStep

\* Every step keeps BeganInv.
LEMMA BeganStep ==
  ASSUME TypeOK, TypeOK', MfaInv, GateAlone, BeganInv, [Next]_vars
  PROVE  BeganInv'
<1>0. /\ clock \in Nat /\ clock' \in Nat /\ clock' >= clock /\ issued \subseteq Sessions
      /\ \A r \in Requests : /\ req[r].jti \in Sessions /\ req'[r].jti \in Sessions
                             /\ began[r] \in Time /\ began'[r] \in Time
      /\ \A s \in Sessions, a \in AlertTypes : alert[s][a] \in Time
  BY ClockStep DEF TypeOK, Request
<1>1. Held /\ \A r \in Requests : pc[r] # "idle" => req[r].jti \in issued
  BY DEF MfaInv, Held
<1>2. \A s \in Sessions, a \in AlertTypes : alert'[s][a] <= clock'
  BY <1>1, AlertsAdvance
<1>3. ASSUME NEW r \in Requests, pc'[r] \in Refused \cup {"score", "enforce"}
      PROVE  began'[r] # Never /\ began'[r] <= clock'
  <2>1. CASE UNCHANGED <<pc[r], began[r]>>
    BY <1>0, <1>3, <2>1 DEF BeganInv
  <2>2. CASE began'[r] = clock
    BY <1>0, <2>2
  <2>3. CASE pc[r] \in {"score", "enforce"} /\ began'[r] = began[r]
    BY <1>0, <2>3 DEF BeganInv
  <2> QED
    BY <1>3, <2>1, <2>2, <2>3, ControlStep DEF RequestStep, Refused
<1>4. ASSUME NEW r \in Requests, pc'[r] = "score", NEW s \in Sessions, s = req'[r].jti
      PROVE  \A a \in AlertTypes : alert'[s][a] <= began'[r]
  <2>1. CASE UNCHANGED <<pc[r], req[r], began[r]>>
    <3>1. /\ s \in issued /\ pc[r] = "score" /\ s = req[r].jti
          /\ began'[r] = began[r]
      BY <1>1, <1>4, <2>1
    <3>2. alert'[s] = alert[s]
      <4> SUFFICES ASSUME NEW q \in Requests, NEW v \in Verdicts, Evaluate(q, v)
                   PROVE  FALSE
        BY <1>1, AlertStep
      <4>1. q = r
        BY <3>1 DEF Evaluate, GateAlone, InGate
      <4> QED
        BY <1>4, <4>1 DEF Evaluate, Goto, TypeOK
    <3>3. \A a \in AlertTypes : alert[s][a] <= began[r]
      BY <3>1 DEF BeganInv
    <3> QED
      BY <1>0, <3>1, <3>2, <3>3
  <2>2. CASE began'[r] = clock /\ UNCHANGED <<req[r], alert>>
    BY <1>0, <1>4, <2>2 DEF BeganInv
  <2> QED
    BY <1>4, <2>1, <2>2, ControlStep DEF RequestStep, Refused
<1> QED
  BY <1>0, <1>2, <1>3, <1>4 DEF BeganInv

\* Every step keeps RefusalInv.
LEMMA RefusalStep ==
  ASSUME TypeOK, TypeOK', MfaInv, GateAlone, BeganInv, RefusalInv, [Next]_vars
  PROVE  RefusalInv'
<1>0. /\ AlertWindow \in Nat
      /\ \A r \in Requests : req[r].jti \in Sessions /\ began[r] \in Time
      /\ \A s \in Sessions, a \in AlertTypes : alert[s][a] \in Time /\ alert'[s][a] \in Time
  BY TimesAssumption DEF TypeOK, Request
<1>1. Held
  BY DEF MfaInv
<1>2. ASSUME NEW r \in Requests, UNCHANGED <<req[r], began[r]>>, NEW a \in AlertTypes,
             Raised(r, a)
      PROVE  Raised(r, a)'
  <2> DEFINE s == req[r].jti
  <2>1. s \in Sessions
    BY <1>0
  <2>2. alert'[s][a] >= alert[s][a]
    BY <1>1, <2>1, AlertsAdvance
  <2>3. alert[s][a] # Never /\ alert[s][a] + AlertWindow >= began[r]
    BY <1>2 DEF Raised
  <2>4. alert'[s][a] # Never /\ alert'[s][a] + AlertWindow >= began[r]
    <3> HIDE DEF s
    <3> QED
      BY <1>0, <2>1, <2>2, <2>3
  <2> QED
    BY <1>2, <2>4 DEF Raised
<1>3. ASSUME NEW r \in Requests, UNCHANGED <<req[r], began[r], verdict[r]>>,
             pc[r] \in Refused \cup {"enforce"}, NEW a \in Due(r)'
      PROVE  Raised(r, a)'
  <2>1. a \in Due(r) /\ a \in AlertTypes
    BY <1>3, DueType DEF Due, AlertFor
  <2> QED
    BY <1>2, <1>3, <2>1 DEF RefusalInv
<1>4. ASSUME NEW r \in Requests, NEW v \in Verdicts, Evaluate(r, v),
             UNCHANGED <<req[r], began[r]>>, NEW a \in Due(r)'
      PROVE  Raised(r, a)'
  BY <1>4, DueType, EvaluateAlerts DEF Raised
<1>5. ASSUME NEW r \in Requests, pc'[r] \in Refused \cup {"enforce"}, NEW a \in Due(r)'
      PROVE  Raised(r, a)'
  <2>1. CASE UNCHANGED <<pc[r], req[r], began[r], verdict[r]>>
    BY <1>3, <1>5, <2>1
  <2>2. CASE /\ pc[r] = "enforce" /\ UNCHANGED <<req[r], began[r], verdict[r]>>
    BY <1>3, <1>5, <2>2
  <2>3. CASE /\ UNCHANGED <<req[r], began[r]>> /\ \E v \in Verdicts : Evaluate(r, v)
    BY <1>4, <1>5, <2>3
  <2> QED
    BY <1>5, <2>1, <2>2, <2>3, ControlStep DEF RequestStep, Refused
<1> QED
  BY <1>5 DEF RefusalInv

\* Every refusal, of any verdict and on any route, has the alert its verdict
\* calls for within the deduplication window, unless creating it failed.
THEOREM RefusalsAlerted == Spec => []RefusalAlerted
<1>1. Init => AlertInv
  BY DEF Init, AlertInv, GateAlone, BeganInv, RefusalInv, InGate, Refused
<1>2. TypeOK /\ TypeOK' /\ MfaInv /\ AlertInv /\ [Next]_vars => AlertInv'
  BY GateAloneStep, BeganStep, RefusalStep DEF AlertInv
<1>3. AlertInv => RefusalAlerted
  BY DEF AlertInv, RefusalInv, Raised, Due, RefusalAlerted
<1> QED
  BY <1>1, <1>2, <1>3, TypeCorrect, MfaInvariant, PTL DEF Spec

-----------------------------------------------------------------------------
(* The abstract life of a session.  The mapping reads the stage off the    *)
(* row, the lists off the clock and the requests off their control state;  *)
(* it takes three more facts: an expired row is the only one that stays    *)
(* logged out, a token is revoked after its row was closed, and only an    *)
(* administrator's token runs a route of /admin.                           *)

LifeInv ==
  /\ \A s \in issued : row[s].decision = "logged_out" => row[s].expiresAt <= clock
  /\ \A r \in Requests : pc[r] = "revoke" => logout[req[r].jti] # "no"
  /\ \A r \in Requests : req[r].path \in AdminPaths => req[r].jti \in AdminSessions

\* A session's logout does not begin and a logout does not commit in a step
\* that sends a request elsewhere.
LEMMA NoLogoutCommit ==
  ASSUME TypeOK, NEW r \in Requests, NEW step, step # "revoke",
         pc' = [pc EXCEPT ![r] = step], NEW q \in Requests
  PROVE  ~LogoutCommit(q)
BY DEF TypeOK, LogoutCommit, Goto

\* What a logout committed or revoked stays so.
LEMMA EndedStays ==
  ASSUME TypeOK, [Next]_vars, NEW s \in Sessions, logout[s] # "no"
  PROVE  logout'[s] # "no"
<1> USE DEF dbVars, reqVars
<1>1. ASSUME NEW r \in Requests, LogoutCommit(r) \/ LogoutRevoke(r) PROVE logout'[s] # "no"
  BY <1>1 DEF LogoutCommit, LogoutRevoke, TypeOK
<1>2. ASSUME NEW r \in Requests,
             \/ CheckBlacklist(r) \/ LoadSession(r) \/ Enforce(r) \/ Serve(r)
             \/ VerifyLoad(r) \/ VerifyCommit(r) \/ OverrideLoad(r) \/ OverrideCommit(r)
             \/ ResetLoad(r) \/ ResetCommit(r) \/ Abort(r)
      PROVE  logout'[s] # "no"
  BY <1>2 DEF CheckBlacklist, LoadSession, Enforce, Serve, VerifyLoad, VerifyCommit,
     OverrideLoad, OverrideCommit, ResetLoad, ResetCommit, Abort
<1>3. ASSUME NEW u \in Sessions, NEW v \in Verdicts, Login(u, v) PROVE logout'[s] # "no"
  BY <1>3 DEF Login
<1>4. ASSUME NEW r \in Requests, NEW u \in Sessions, NEW t \in Sessions,
             NEW p \in Paths, Dispatch(r, u, p, t)
      PROVE  logout'[s] # "no"
  BY <1>4 DEF Dispatch
<1>5. ASSUME NEW r \in Requests, NEW v \in Verdicts, Evaluate(r, v) PROVE logout'[s] # "no"
  BY <1>5 DEF Evaluate
<1>6. ASSUME NEW r \in Requests, NEW u \in Sessions, LogoutLoad(r, u) PROVE logout'[s] # "no"
  BY <1>6 DEF LogoutLoad
<1>7. CASE Tick \/ RedisRestart \/ UNCHANGED vars
  BY <1>7 DEF Tick, RedisRestart, vars, TypeOK
<1> QED
  BY <1>1, <1>2, <1>3, <1>4, <1>5, <1>6, <1>7 DEF Next

\* A request is given a new route and token by the gate, which asks for an
\* administrator's token on a route of /admin, or by logout.
LEMMA RouteStep ==
  ASSUME TypeOK, [Next]_vars, NEW r \in Requests,
         req'[r].path \in AdminPaths, req'[r] # req[r]
  PROVE  req'[r].jti \in AdminSessions
<1> USE DEF dbVars, reqVars
<1>1. ASSUME NEW q \in Requests, Finish(q) PROVE FALSE
  BY <1>1 DEF Finish, NoRequest, TypeOK, AdminPaths, Targeted
<1>2. ASSUME NEW q \in Requests, NEW s \in Sessions, NEW t \in Sessions,
             NEW p \in Paths, Dispatch(q, s, p, t)
      PROVE  req'[r].jti \in AdminSessions
  BY <1>2 DEF Dispatch, TypeOK
<1>3. ASSUME NEW q \in Requests, NEW s \in Sessions, LogoutLoad(q, s) PROVE FALSE
  BY <1>3 DEF LogoutLoad, TypeOK, AdminPaths, Targeted
<1>4. ASSUME req' # req, NEW q \in Requests,
             \/ CheckBlacklist(q) \/ LoadSession(q) \/ Enforce(q) \/ Serve(q)
             \/ VerifyLoad(q) \/ VerifyCommit(q) \/ OverrideLoad(q) \/ OverrideCommit(q)
             \/ ResetLoad(q) \/ ResetCommit(q) \/ LogoutCommit(q) \/ LogoutRevoke(q)
             \/ Abort(q)
      PROVE  Finish(q)
  BY <1>4 DEF CheckBlacklist, LoadSession, Enforce, Serve, VerifyLoad, VerifyCommit,
     OverrideLoad, OverrideCommit, ResetLoad, ResetCommit, LogoutCommit, LogoutRevoke, Abort
<1>5. ASSUME NEW s \in Sessions, NEW v \in Verdicts, Login(s, v) PROVE req' = req
  BY <1>5 DEF Login
<1>6. ASSUME NEW q \in Requests, NEW v \in Verdicts, Evaluate(q, v) PROVE req' = req
  BY <1>6 DEF Evaluate
<1>7. CASE Tick \/ RedisRestart \/ UNCHANGED vars
  BY <1>7 DEF Tick, RedisRestart, vars
<1> QED
  BY <1>1, <1>2, <1>3, <1>4, <1>5, <1>6, <1>7 DEF Next

\* Every step keeps LifeInv.
LEMMA LifeStep ==
  ASSUME TypeOK, TypeOK', Held, ClosedInv, LifeInv, [Next]_vars
  PROVE  LifeInv'
<1>0. /\ clock \in Nat /\ clock' \in Nat /\ clock' >= clock /\ issued \subseteq Sessions
      /\ \A s \in Sessions : row[s].expiresAt \in Time /\ row'[s].expiresAt \in Time
      /\ \A r \in Requests : req[r].jti \in Sessions /\ req'[r].jti \in Sessions
  BY ClockStep DEF TypeOK, Row, Request
<1>1. ASSUME NEW s \in issued', row'[s].decision = "logged_out"
      PROVE  row'[s].expiresAt <= clock'
  <2>1. CASE s \notin issued
    <3>1. s \in Sessions /\ riskLog'[s].decision \in Decision
      BY DEF TypeOK, LogRow
    <3> QED
      BY <1>1, <2>1, <3>1, NewSession DEF Decision
  <2>2. CASE s \in issued
    <3>1. s \in Sessions /\ SessionStep(s)
      BY <1>0, <2>2, EverySessionStep
    <3>2. CASE Closed(s)
      BY <3>2, LogoutExpires DEF Closed
    <3>3. CASE ~Closed(s)
      <4>1. row'[s].expiresAt = row[s].expiresAt
        BY <3>1, <3>3 DEF SessionStep, Scored, Kept, Overridden
      <4>2. row[s].decision = "logged_out"
        <5>1. CASE Scored(s)
          <6>1. PICK r \in Requests, v \in Verdicts :
                  row'[s].decision = Dirty(row[s].decision, snap[r][s].decision, v.decision)
            BY <5>1 DEF Scored
          <6> QED
            BY <1>1, <6>1, VerdictsAssumption DEF Dirty, Decision
        <5> QED
          BY <1>1, <3>1, <3>3, <5>1 DEF SessionStep, Kept, Overridden
      <4> QED
        BY <1>0, <2>2, <3>1, <4>1, <4>2 DEF LifeInv
    <3> QED
      BY <3>2, <3>3
  <2> QED
    BY <2>1, <2>2
<1>2. ASSUME NEW r \in Requests, pc'[r] = "revoke" PROVE logout'[req'[r].jti] # "no"
  <2>1. CASE UNCHANGED <<pc[r], req[r]>>
    BY <1>0, <1>2, <2>1, EndedStays DEF LifeInv
  <2>2. CASE LogoutCommit(r) /\ req'[r] = req[r]
    BY <1>0, <2>2 DEF LogoutCommit, TypeOK
  <2> QED
    BY <1>2, <2>1, <2>2, ControlStep DEF RequestStep, Refused
<1>3. ASSUME NEW r \in Requests, req'[r].path \in AdminPaths
      PROVE  req'[r].jti \in AdminSessions
  BY <1>3, RouteStep DEF LifeInv
<1> QED
  BY <1>1, <1>2, <1>3 DEF LifeInv

\* The three invariants the mapping rests on hold in every reachable state.
LEMMA LifeInvariant ==
  ASSUME JwtExpire <= BlacklistTtl
  PROVE  Spec => [](RevocationInv /\ ClosedInv /\ LifeInv)
<1>1. Init => RevocationInv /\ ClosedInv /\ LifeInv
  <2>1. NoRequest.path \notin AdminPaths
    BY DEF NoRequest, AdminPaths, Targeted
  <2>2. Init => RevocationInv /\ ClosedInv
    BY DEF Init, RevocationInv, ClosedInv
  <2>3. Init => LifeInv
    BY <2>1 DEF Init, LifeInv
  <2> QED
    BY <2>2, <2>3
<1>2. TypeOK /\ TypeOK' /\ MfaInv /\ RevocationInv /\ ClosedInv /\ LifeInv /\ [Next]_vars
        => RevocationInv' /\ ClosedInv' /\ LifeInv'
  BY RevocationStep, ClosedStep, LifeStep DEF MfaInv
<1> QED
  BY <1>1, <1>2, TypeCorrect, MfaInvariant, PTL DEF Spec

-----------------------------------------------------------------------------
\* A flush that sets the pending flag saves it as it was loaded or clears it.
LEMMA FlushPending ==
  ASSUME NEW current \in Row, NEW loaded \in Row, NEW new \in Row
  PROVE  /\ new.pending = loaded.pending => Flush(current, loaded, new).pending = current.pending
         /\ ~new.pending /\ (current.pending => loaded.pending)
              => ~Flush(current, loaded, new).pending
<1>1. Flush(current, loaded, new).pending = Dirty(current.pending, loaded.pending, new.pending)
  BY DEF Flush
<1>2. current.pending \in BOOLEAN /\ loaded.pending \in BOOLEAN /\ new.pending \in BOOLEAN
  BY DEF Row
<1> QED
  BY <1>1, <1>2 DEF Dirty

\* A gate pass, an override and a logout leave every pending flag alone.
LEMMA OthersKeepPending ==
  ASSUME TypeOK, NEW r \in Requests, NEW s \in Sessions,
         \/ \E v \in Verdicts : Evaluate(r, v)
         \/ OverrideCommit(r) \/ LogoutCommit(r)
  PROVE  row'[s].pending = row[s].pending
<1>0. /\ clock \in Nat /\ req[r].jti \in Sessions /\ req[r].target \in Sessions
      /\ \A u \in Sessions : snap[r][u] \in Row /\ row[u] \in Row
  BY DEF TypeOK, Request
<1>1. ASSUME NEW u \in Sessions, NEW loaded \in Row, NEW new \in Row,
             new.pending = loaded.pending,
             row' = [row EXCEPT ![u] = Flush(row[u], loaded, new)]
      PROVE  row'[s].pending = row[s].pending
  <2>1. Flush(row[u], loaded, new).pending = row[u].pending
    BY <1>0, <1>1, FlushPending
  <2>2. row'[s] = IF s = u THEN Flush(row[u], loaded, new) ELSE row[s]
    BY <1>1, SavedRow
  <2> QED
    BY <2>1, <2>2
<1>2. ASSUME NEW v \in Verdicts, Evaluate(r, v) PROVE row'[s].pending = row[s].pending
  <2> DEFINE loaded == snap[r][req[r].jti]
             new == [loaded EXCEPT !.score = v.score, !.decision = v.decision]
  <2>1. loaded \in Row
    BY <1>0
  <2>2. new \in Row /\ new.pending = loaded.pending
    <3> HIDE DEF loaded
    <3> QED
      BY <2>1, VerdictsAssumption DEF Row, RowDecision
  <2>3. row' = [row EXCEPT ![req[r].jti] = Flush(row[req[r].jti], loaded, new)]
    BY <1>2 DEF Evaluate
  <2> QED
    BY <1>0, <1>1, <2>1, <2>2, <2>3
<1>3. ASSUME OverrideCommit(r) PROVE row'[s].pending = row[s].pending
  <2> DEFINE loaded == snap[r][req[r].target]
             new == [loaded EXCEPT !.score = OverrideScore, !.decision = "allow"]
  <2>1. loaded \in Row
    BY <1>0
  <2>2. new \in Row /\ new.pending = loaded.pending
    <3> HIDE DEF loaded
    <3> QED
      BY <2>1, ScoresAssumption DEF Row, RowDecision, Decision
  <2>3. row' = [row EXCEPT ![req[r].target] = Flush(row[req[r].target], loaded, new)]
    BY <1>3 DEF OverrideCommit
  <2> QED
    BY <1>0, <1>1, <2>1, <2>2, <2>3
<1>4. ASSUME LogoutCommit(r) PROVE row'[s].pending = row[s].pending
  <2> DEFINE loaded == snap[r][req[r].jti]
             new == CloseRow(loaded)
  <2>1. loaded \in Row
    BY <1>0
  <2>2. new \in Row /\ new.pending = loaded.pending
    <3> HIDE DEF loaded
    <3> QED
      BY <1>0, <2>1, CloseRowType DEF Row, CloseRow
  <2>3. row' = [row EXCEPT ![req[r].jti] = Flush(row[req[r].jti], loaded, new)]
    BY <1>4 DEF LogoutCommit
  <2> QED
    BY <1>0, <1>1, <2>1, <2>2, <2>3
<1> QED
  BY <1>2, <1>3, <1>4

\* A verification clears the flag of its own session and of no other.
LEMMA VerifyClears ==
  ASSUME TypeOK, MfaInv, NEW r \in Requests, VerifyCommit(r), NEW s \in Sessions
  PROVE  IF s = req[r].jti THEN ~row'[s].pending ELSE row'[s] = row[s]
<1> DEFINE u == req[r].jti
           loaded == snap[r][u]
<1> PICK now \in began[r]..clock :
      row' = [row EXCEPT ![u] =
        Flush(row[u], loaded, [loaded EXCEPT !.verifiedAt = now, !.pending = FALSE])]
  BY DEF VerifyCommit
<1> DEFINE new == [loaded EXCEPT !.verifiedAt = now, !.pending = FALSE]
<1>0. now \in Time
  BY DEF TypeOK
<1>1. u \in Sessions /\ loaded \in Row /\ row[u] \in Row
  BY DEF TypeOK, Request
<1>2. row[u].pending => loaded.pending
  BY DEF VerifyCommit, MfaInv, SnapsSound
<1>3. new \in Row /\ ~new.pending
  <2> HIDE DEF loaded
  <2> QED
    BY <1>0, <1>1 DEF Row
<1>4. row' = [row EXCEPT ![u] = Flush(row[u], loaded, new)]
  OBVIOUS
<1> HIDE DEF loaded, new
<1>5. ~Flush(row[u], loaded, new).pending
  BY <1>1, <1>2, <1>3, FlushPending
<1>6. row'[s] = IF s = u THEN Flush(row[u], loaded, new) ELSE row[s]
  <2> HIDE DEF u
  <2> QED
    BY <1>1, <1>4, SavedRow
<1> QED
  BY <1>5, <1>6

\* A reset clears the flags it loaded and no other.
LEMMA ResetClears ==
  ASSUME TypeOK, NEW r \in Requests, ResetCommit(r), NEW s \in Sessions
  PROVE  IF snap[r][s].pending THEN ~row'[s].pending ELSE row'[s] = row[s]
<1> DEFINE loaded == snap[r][s]
           new == [loaded EXCEPT !.pending = FALSE, !.verifiedAt = Never]
<1>1. loaded \in Row /\ row[s] \in Row
  BY DEF TypeOK
<1>2. new \in Row /\ ~new.pending
  <2> HIDE DEF loaded
  <2> QED
    BY <1>1 DEF Row
<1>3. row'[s] = IF loaded.pending THEN Flush(row[s], loaded, new) ELSE row[s]
  BY DEF ResetCommit
<1> HIDE DEF new
<1> QED
  BY <1>1, <1>2, <1>3, FlushPending

-----------------------------------------------------------------------------
(* What the steps do to the mapped variables.                              *)

\* Both mapped sets of requests are functions on the sessions.
LEMMA RequestSets ==
  /\ AdmittedTo = [s \in Sessions |-> AdmittedTo[s]] /\ ServedTo = [s \in Sessions |-> ServedTo[s]]
  /\ AdmittedTo' = [s \in Sessions |-> AdmittedTo'[s]] /\ ServedTo' = [s \in Sessions |-> ServedTo'[s]]
BY DEF AdmittedTo, ServedTo

\* A request that is answered leaves the gate and its route.
LEMMA Leaves ==
  ASSUME TypeOK, NEW r \in Requests, NEW step \in Resting,
         pc' = [pc EXCEPT ![r] = step],
         \A q \in Requests : q # r => req'[q] = req[q]
  PROVE  Life!Leave(r)
<1>1. pc'[r] \notin {"load", "score", "enforce", "handler", "commit"}
  BY DEF TypeOK, Resting, Refused
<1>2. ~Admitted(r)' /\ ~Running(r)'
  BY <1>1 DEF Admitted, Running
<1>3. ASSUME NEW q \in Requests, q # r
      PROVE  pc'[q] = pc[q] /\ req'[q] = req[q]
  BY <1>3 DEF TypeOK
<1>4. ASSUME NEW s \in Sessions
      PROVE  /\ AdmittedTo'[s] = AdmittedTo[s] \ {r}
             /\ ServedTo'[s] = ServedTo[s] \ {r}
  BY <1>2, <1>3 DEF AdmittedTo, ServedTo, Admitted, Running
<1> QED
  BY <1>4 DEF Life!Leave, AdmittedTo, ServedTo

\* A request that stays on its side of the check and of its route moves
\* nobody in or out.
LEMMA Stays ==
  ASSUME TypeOK, NEW r \in Requests, NEW step,
         pc' = [pc EXCEPT ![r] = step],
         \A q \in Requests : q # r => req'[q] = req[q],
         \/ ~Admitted(r) /\ ~Running(r) /\ ~Admitted(r)' /\ ~Running(r)'
         \/ /\ req'[r] = req[r]
            /\ Admitted(r)' <=> Admitted(r)
            /\ Running(r)' <=> Running(r)
  PROVE  UNCHANGED <<AdmittedTo, ServedTo>>
<1>1. ASSUME NEW q \in Requests, q # r
      PROVE  pc'[q] = pc[q] /\ req'[q] = req[q]
  BY <1>1 DEF TypeOK
<1>2. ASSUME NEW s \in Sessions, NEW q \in Requests
      PROVE  /\ (req'[q].jti = s /\ Admitted(q)') <=> (req[q].jti = s /\ Admitted(q))
             /\ (req'[q].jti = s /\ Running(q)') <=> (req[q].jti = s /\ Running(q))
  <2>1. CASE q = r
    BY <2>1
  <2>2. CASE q # r
    BY <1>1, <2>2 DEF Admitted, Running
  <2> QED
    BY <2>1, <2>2
<1> QED
  BY <1>2 DEF AdmittedTo, ServedTo

\* Stages follow the pending flags of the sessions there are.
LEMMA StageKept ==
  ASSUME TypeOK, issued' = issued, \A s \in issued : row'[s].pending = row[s].pending
  PROVE  UNCHANGED Stage
BY DEF Stage

\* A row that keeps its expiry, and its decision or loses an expired one's,
\* is listed as it was.
LEMMA LiveKept ==
  ASSUME TypeOK, LifeInv, UNCHANGED <<clock, issued>>,
         \A s \in issued : /\ row'[s].expiresAt = row[s].expiresAt
                           /\ \/ row'[s].decision = row[s].decision
                              \/ row'[s].decision # "logged_out"
  PROVE  UNCHANGED Live
<1>1. ASSUME NEW s \in Sessions PROVE Listed(s)' <=> Listed(s)
  <2>1. clock \in Nat /\ row[s].expiresAt \in Time
    BY DEF TypeOK, Row
  <2> QED
    BY <2>1 DEF Listed, LifeInv
<1> QED
  BY <1>1 DEF Live

\* A step in the gate or a handler that is not a logout's commit leaves the
\* list of live sessions alone.
LEMMA LiveStep ==
  ASSUME TypeOK, LifeInv, [Next]_vars, UNCHANGED <<clock, issued>>,
         \A q \in Requests : ~LogoutCommit(q)
  PROVE  UNCHANGED Live
<1>1. ASSUME NEW s \in issued
      PROVE  /\ row'[s].expiresAt = row[s].expiresAt
             /\ \/ row'[s].decision = row[s].decision
                \/ row'[s].decision # "logged_out"
  <2>1. SessionStep(s) /\ ~Closed(s)
    BY EverySessionStep DEF Closed
  <2>2. CASE Scored(s)
    <3>1. PICK r \in Requests, v \in Verdicts :
            /\ row'[s].decision = Dirty(row[s].decision, snap[r][s].decision, v.decision)
            /\ row'[s].expiresAt = row[s].expiresAt
      BY <2>2 DEF Scored
    <3> QED
      BY <3>1, VerdictsAssumption DEF Dirty, Decision
  <2>3. CASE Kept(s) \/ Overridden(s)
    BY <2>3 DEF Kept, Overridden
  <2> QED
    BY <2>1, <2>2, <2>3 DEF SessionStep
<1> QED
  BY <1>1, LiveKept

\* A step that writes no row, no token and no logout keeps the four mapped
\* variables that are read off them.
LEMMA SameSessions ==
  ASSUME UNCHANGED <<clock, issued, row, exp, logout>>
  PROVE  UNCHANGED <<Stage, Live, Ended, Revoked>>
BY DEF Stage, Live, Listed, Ended, Revoked

-----------------------------------------------------------------------------
(* The refinement, step by step.                                           *)

\* An answered request: the row and the keys stay.
LEMMA Answers ==
  ASSUME TypeOK, NEW r \in Requests, NEW step \in Resting,
         pc' = [pc EXCEPT ![r] = step],
         \A q \in Requests : q # r => req'[q] = req[q],
         UNCHANGED <<Stage, Live, Ended, Revoked>>
  PROVE  Life!Next
<1>1. Life!Leave(r)
  BY Leaves
<1> QED
  BY <1>1 DEF Life!Next, Life!Answer

\* A request that ends names the session and the route of no other.
LEMMA Finished ==
  ASSUME NEW r \in Requests, Finish(r)
  PROVE  /\ pc' = [pc EXCEPT ![r] = "idle"] /\ "idle" \in Resting
         /\ \A q \in Requests : q # r => req'[q] = req[q]
BY DEF Finish, Close, Goto, Resting

\* The life of sessions begins as the abstract one does.
LEMMA InitRefines == Init => Life!Init
<1> SUFFICES ASSUME Init PROVE Life!Init
  OBVIOUS
<1>1. Stage = [s \in Sessions |-> "none"]
  BY DEF Init, Stage
<1>2. Live = {} /\ Ended = {} /\ Revoked = {}
  BY DEF Init, Live, Listed, Ended, Revoked
<1>3. AdmittedTo = [s \in Sessions |-> {}] /\ ServedTo = [s \in Sessions |-> {}]
  BY DEF Init, AdmittedTo, ServedTo, Admitted, Running
<1> QED
  BY <1>1, <1>2, <1>3 DEF Life!Init, Life!Vacant

\* A login opens the session or leaves it pending, and lists it.
LEMMA LoginRefines ==
  ASSUME TypeOK, RevocationInv, NEW s \in Sessions, NEW v \in Verdicts, Login(s, v)
  PROVE  Life!Login(s)
<1> USE DEF dbVars, reqVars
<1>1. /\ s \notin issued /\ issued' = issued \cup {s}
      /\ row'[s].pending = (v.decision = "mfa")
      /\ row'[s].decision = v.decision /\ row'[s].expiresAt = clock + SessionLife
      /\ \A u \in Sessions : u # s => row'[u] = row[u] /\ exp'[u] = exp[u]
      /\ UNCHANGED <<clock, pc, req, logout>>
  BY DEF Login, TypeOK
<1>2. v.decision \in Decision /\ clock \in Nat /\ SessionLife \in Nat /\ SessionLife > 0
  BY VerdictsAssumption, TimesAssumption DEF TypeOK
<1>3. Stage[s] = "none" /\ \E first \in {"pending", "open"} : Stage' = [Stage EXCEPT ![s] = first]
  <2> DEFINE first == IF v.decision = "mfa" THEN "pending" ELSE "open"
  <2>1. Stage' = [Stage EXCEPT ![s] = first]
    BY <1>1 DEF Stage
  <2>2. Stage[s] = "none"
    BY <1>1 DEF Stage
  <2> QED
    BY <2>1, <2>2
<1>4. Live' = Live \cup {s}
  <2>1. Listed(s)'
    BY <1>1, <1>2 DEF Listed, Decision
  <2>2. ASSUME NEW u \in Sessions, u # s PROVE Listed(u)' <=> Listed(u)
    BY <1>1, <2>2 DEF Listed
  <2> QED
    BY <2>1, <2>2 DEF Live
<1>5. UNCHANGED <<Ended, Revoked>>
  BY <1>1 DEF Ended, Revoked, RevocationInv
<1>6. UNCHANGED <<AdmittedTo, ServedTo>>
  BY <1>1 DEF AdmittedTo, ServedTo, Admitted, Running
<1> QED
  BY <1>3, <1>4, <1>5, <1>6 DEF Life!Login

\* The check lets a request in on a token that is not revoked, or answers it.
LEMMA CheckRefines ==
  ASSUME TypeOK, Held, RevocationInv, NEW r \in Requests, CheckBlacklist(r)
  PROVE  Life!Next
<1> USE DEF dbVars, reqVars
<1> DEFINE s == req[r].jti
<1>1. s \in Sessions /\ s \in issued /\ pc[r] = "blacklist"
  BY DEF TypeOK, Request, Held, CheckBlacklist
<1>2. UNCHANGED <<Stage, Live, Ended, Revoked>>
  BY SameSessions DEF CheckBlacklist
<1>3. CASE Finish(r)
  BY <1>2, <1>3, Finished, Answers
<1>4. CASE MayMiss(s) /\ Goto(r, "load") /\ req' = req
  <2>1. /\ pc'[r] = "load" /\ req' = req
        /\ \A q \in Requests : q # r => pc'[q] = pc[q]
    BY <1>4 DEF Goto, TypeOK
  <2>2. s \notin Revoked
    <3>1. clock \in Nat /\ exp[s] \in Time /\ blacklist[s] \in Time
      BY <1>1 DEF TypeOK
    <3> QED
      BY <1>4, <3>1 DEF Revoked, MayMiss, RevocationInv
  <2>3. Stage[s] # "none"
    BY <1>1 DEF Stage
  <2>4. ~Admitted(r) /\ ~Running(r) /\ Admitted(r)' /\ ~Running(r)'
    BY <1>1, <2>1 DEF Admitted, Running
  <2>5. ASSUME NEW q \in Requests, q # r
        PROVE  (Admitted(q)' <=> Admitted(q)) /\ (Running(q)' <=> Running(q))
    BY <2>1, <2>5 DEF Admitted, Running
  <2>6. AdmittedTo' = [AdmittedTo EXCEPT ![s] = @ \cup {r}]
    <3>1. ASSUME NEW u \in Sessions
          PROVE  AdmittedTo'[u] = IF u = s THEN AdmittedTo[u] \cup {r} ELSE AdmittedTo[u]
      BY <2>1, <2>4, <2>5 DEF AdmittedTo
    <3> HIDE DEF s
    <3> QED
      BY <1>1, <3>1, RequestSets
  <2>7. ServedTo' = ServedTo
    BY <2>1, <2>4, <2>5 DEF ServedTo
  <2>8. \A u \in Sessions : r \notin AdmittedTo[u] \cup ServedTo[u]
    BY <2>4 DEF AdmittedTo, ServedTo
  <2>9. Life!Admit(r, s)
    BY <1>2, <2>2, <2>3, <2>6, <2>7, <2>8 DEF Life!Admit
  <2> QED
    BY <1>1, <2>9 DEF Life!Next
<1> QED
  BY <1>3, <1>4 DEF CheckBlacklist

\* The refusals of the gate answer the request; past them it runs its route,
\* for an open session, or verifies.
LEMMA EnforceRefines ==
  ASSUME TypeOK, Held, PastTheCheck, NEW r \in Requests, Enforce(r)
  PROVE  Life!Next \/ UNCHANGED <<Stage, Live, Ended, Revoked, AdmittedTo, ServedTo>>
<1> USE DEF dbVars, reqVars
<1> DEFINE s == req[r].jti
<1>1. s \in Sessions /\ s \in issued /\ pc[r] = "enforce"
  BY DEF TypeOK, Request, Held, Enforce
<1>2. UNCHANGED <<Stage, Live, Ended, Revoked>>
  BY SameSessions DEF Enforce
<1>4. CASE \E answer \in Refused : Close(r, answer) /\ req' = req
  BY <1>2, <1>4, Answers DEF Close, Goto, Resting
<1>5. CASE Close(r, "handler") /\ req' = req
  <2>1. /\ pc' = [pc EXCEPT ![r] = "handler"] /\ pc'[r] = "handler" /\ req' = req
        /\ \A q \in Requests : q # r => pc'[q] = pc[q]
    BY <1>5 DEF Close, Goto, TypeOK
  <2>2. CASE req[r].path = "verify"
    BY <1>1, <1>2, <2>1, <2>2, Stays DEF Admitted, Running
  <2>3. CASE req[r].path = "logout"
    <3>1. ASSUME NEW q \in Requests
          PROVE  IF q = r THEN ~Admitted(q)' /\ ~Running(q)' /\ ~Running(q)
                          ELSE (Admitted(q)' <=> Admitted(q)) /\ (Running(q)' <=> Running(q))
      BY <1>1, <2>1, <2>3 DEF Admitted, Running
    <3>2. ASSUME NEW u \in Sessions
          PROVE  AdmittedTo'[u] = AdmittedTo[u] \ {r} /\ ServedTo'[u] = ServedTo[u] \ {r}
      BY <2>1, <3>1 DEF AdmittedTo, ServedTo
    <3>3. Life!Leave(r)
      BY <3>2 DEF Life!Leave, AdmittedTo, ServedTo
    <3> QED
      BY <1>2, <3>3 DEF Life!Next, Life!Answer
  <2>4. CASE req[r].path \notin {"verify", "logout"}
    <3>1. Stage[s] = "open"
      BY <1>1, <2>4 DEF Stage, PastTheCheck
    <3>2. Admitted(r) /\ ~Running(r) /\ ~Admitted(r)' /\ Running(r)'
      BY <1>1, <2>1, <2>4 DEF Admitted, Running
    <3>3. ASSUME NEW q \in Requests, q # r
          PROVE  (Admitted(q)' <=> Admitted(q)) /\ (Running(q)' <=> Running(q))
      BY <2>1, <3>3 DEF Admitted, Running
    <3>4. AdmittedTo' = [AdmittedTo EXCEPT ![s] = @ \ {r}]
      <4>1. ASSUME NEW u \in Sessions
            PROVE  AdmittedTo'[u] = IF u = s THEN AdmittedTo[u] \ {r} ELSE AdmittedTo[u]
        BY <2>1, <3>2, <3>3 DEF AdmittedTo
      <4> HIDE DEF s
      <4> QED
        BY <1>1, <4>1, RequestSets
    <3>5. ServedTo' = [ServedTo EXCEPT ![s] = @ \cup {r}]
      <4>1. ASSUME NEW u \in Sessions
            PROVE  ServedTo'[u] = IF u = s THEN ServedTo[u] \cup {r} ELSE ServedTo[u]
        BY <2>1, <3>2, <3>3 DEF ServedTo
      <4> HIDE DEF s
      <4> QED
        BY <1>1, <4>1, RequestSets
    <3>6. Life!Serve(r, s)
      BY <1>1, <1>2, <3>1, <3>2, <3>4, <3>5 DEF Life!Serve, AdmittedTo
    <3> QED
      BY <1>1, <3>6 DEF Life!Next
  <2> QED
    BY <2>2, <2>3, <2>4
<1> QED
  BY <1>4, <1>5 DEF Enforce, Refused

\* Loading in the gate or in a handler changes nothing of the abstract life.
LEMMA LoadRefines ==
  ASSUME TypeOK, NEW r \in Requests,
         LoadSession(r) \/ VerifyLoad(r) \/ OverrideLoad(r) \/ ResetLoad(r)
  PROVE  Life!Next \/ UNCHANGED <<Stage, Live, Ended, Revoked, AdmittedTo, ServedTo>>
<1> USE DEF dbVars, reqVars
<1>1. UNCHANGED <<Stage, Live, Ended, Revoked>>
  BY SameSessions DEF LoadSession, VerifyLoad, OverrideLoad, ResetLoad
<1>2. CASE Finish(r)
  BY <1>1, <1>2, Finished, Answers
<1>3. CASE ~Finish(r)
  <2>1. \/ pc[r] = "load" /\ pc' = [pc EXCEPT ![r] = "score"] /\ req' = req
        \/ pc[r] = "handler" /\ pc' = [pc EXCEPT ![r] = "commit"] /\ req' = req
    BY <1>3 DEF LoadSession, VerifyLoad, OverrideLoad, ResetLoad, Goto
  <2>2. UNCHANGED <<AdmittedTo, ServedTo>>
    <3>1. (Admitted(r)' <=> Admitted(r)) /\ (Running(r)' <=> Running(r))
      BY <2>1 DEF Admitted, Running, TypeOK
    <3> QED
      BY <2>1, <3>1, Stays
  <2> QED
    BY <1>1, <2>2
<1> QED
  BY <1>2, <1>3

\* A token sent to the gate and a logout's load are not of the abstract life.
LEMMA ArrivalRefines ==
  ASSUME TypeOK, NEW r \in Requests, NEW s \in Sessions,
         LogoutLoad(r, s) \/ \E t \in Sessions, p \in Paths : Dispatch(r, s, p, t)
  PROVE  UNCHANGED <<Stage, Live, Ended, Revoked, AdmittedTo, ServedTo>>
<1> USE DEF dbVars, reqVars
<1>1. UNCHANGED <<Stage, Live, Ended, Revoked>>
  BY SameSessions DEF LogoutLoad, Dispatch
<1>2. /\ pc[r] \in Resting
      /\ \A q \in Requests : q # r => req'[q] = req[q]
      /\ \/ pc' = [pc EXCEPT ![r] = "blacklist"]
         \/ pc' = [pc EXCEPT ![r] = "commit"] /\ req'[r].path = "logout"
  BY DEF LogoutLoad, Dispatch, Goto, TypeOK
<1>3. ~Admitted(r) /\ ~Running(r) /\ ~Admitted(r)' /\ ~Running(r)'
  BY <1>2 DEF Admitted, Running, Resting, Refused, TypeOK
<1> QED
  BY <1>1, <1>2, <1>3, Stays

\* Scoring a session and answering a read or an override, or dying, opens,
\* closes and lists no session.
LEMMA ScoreRefines ==
  ASSUME TypeOK, LifeInv, [Next]_vars, NEW r \in Requests,
         \/ \E v \in Verdicts : Evaluate(r, v)
         \/ Serve(r) \/ OverrideCommit(r) \/ Abort(r)
  PROVE  Life!Next \/ UNCHANGED <<Stage, Live, Ended, Revoked, AdmittedTo, ServedTo>>
<1> USE DEF dbVars, reqVars
<1>1. CASE Serve(r) \/ Abort(r)
  <2>1. Finish(r) /\ UNCHANGED <<clock, issued, row, exp, logout>>
    BY <1>1 DEF Serve, Abort
  <2> QED
    BY <2>1, SameSessions, Finished, Answers
<1>2. CASE OverrideCommit(r) \/ \E v \in Verdicts : Evaluate(r, v)
  <2>1. /\ \/ OverrideCommit(r) /\ pc' = [pc EXCEPT ![r] = "idle"] /\ Finish(r)
           \/ pc[r] = "score" /\ pc' = [pc EXCEPT ![r] = "enforce"] /\ req' = req
        /\ UNCHANGED <<clock, issued, exp, logout>>
    BY <1>2 DEF OverrideCommit, Evaluate, Goto, Finish, Close
  <2>2. \A q \in Requests : ~LogoutCommit(q)
    BY <2>1, NoLogoutCommit
  <2>3. \A s \in issued : row'[s].pending = row[s].pending
    BY <1>2, OthersKeepPending DEF TypeOK
  <2>4. UNCHANGED <<Stage, Live, Ended, Revoked>>
    BY <2>1, <2>2, <2>3, LiveStep, StageKept DEF Ended, Revoked
  <2>5. CASE Finish(r)
    BY <2>4, <2>5, Finished, Answers
  <2>6. CASE pc[r] = "score" /\ pc' = [pc EXCEPT ![r] = "enforce"] /\ req' = req
    <3>1. Admitted(r)' /\ Admitted(r) /\ ~Running(r)' /\ ~Running(r)
      BY <2>6 DEF Admitted, Running, TypeOK
    <3> QED
      BY <2>4, <2>6, <3>1, Stays
  <2> QED
    BY <2>1, <2>5, <2>6
<1> QED
  BY <1>1, <1>2

\* A verification opens its own session.
LEMMA VerifyRefines ==
  ASSUME TypeOK, MfaInv, LifeInv, [Next]_vars, NEW r \in Requests, VerifyCommit(r)
  PROVE  Life!Verify(r, req[r].jti)
<1> USE DEF dbVars, reqVars
<1> DEFINE s == req[r].jti
<1>1. s \in Sessions /\ s \in issued
  BY DEF TypeOK, Request, MfaInv, Held, VerifyCommit
<1>2. Finish(r) /\ UNCHANGED <<clock, issued, exp, logout>>
  BY DEF VerifyCommit
<1>3. UNCHANGED <<Live, Ended, Revoked>>
  <2>1. \A q \in Requests : ~LogoutCommit(q)
    BY <1>2, Finished, NoLogoutCommit
  <2> QED
    BY <1>2, <2>1, LiveStep DEF Ended, Revoked
<1>4. Life!Leave(r)
  BY <1>2, Finished, Leaves
<1>5. r \in AdmittedTo[s] /\ Stage[s] # "none"
  BY <1>1 DEF AdmittedTo, Admitted, VerifyCommit, Stage
<1>6. Stage' = [Stage EXCEPT ![s] = "open"]
  <2>1. ASSUME NEW u \in Sessions PROVE Stage'[u] = IF u = s THEN "open" ELSE Stage[u]
    <3>1. IF u = s THEN ~row'[u].pending ELSE row'[u] = row[u]
      BY VerifyClears
    <3> QED
      BY <1>1, <1>2, <3>1 DEF Stage
  <2>2. Stage = [u \in Sessions |-> Stage[u]] /\ Stage' = [u \in Sessions |-> Stage'[u]]
    BY DEF Stage
  <2> HIDE DEF s
  <2> QED
    BY <1>1, <2>1, <2>2
<1> QED
  BY <1>3, <1>4, <1>5, <1>6 DEF Life!Verify

\* An open administrator's reset opens pending sessions.
LEMMA ResetRefines ==
  ASSUME TypeOK, LifeInv, [Next]_vars, NEW r \in Requests, ResetCommit(r)
  PROVE  Life!Next
<1> USE DEF dbVars, reqVars
<1> DEFINE a == req[r].jti
           S == {s \in issued : snap[r][s].pending /\ row[s].pending}
<1>1. a \in Sessions /\ a \in AdminSessions /\ issued \subseteq Sessions
  BY DEF TypeOK, Request, LifeInv, AdminPaths, Targeted, ResetCommit
<1>2. Finish(r) /\ UNCHANGED <<clock, issued, exp, logout>>
  BY DEF ResetCommit
<1>3. UNCHANGED <<Live, Ended, Revoked>>
  <2>1. \A q \in Requests : ~LogoutCommit(q)
    BY <1>2, Finished, NoLogoutCommit
  <2> QED
    BY <1>2, <2>1, LiveStep DEF Ended, Revoked
<1>4. Life!Leave(r)
  BY <1>2, Finished, Leaves
<1>5. r \in ServedTo[a]
  BY <1>1 DEF ServedTo, Running, ResetCommit
<1>6. \A s \in S : Stage[s] = "pending"
  BY <1>1 DEF Stage
<1>7. Stage' = [s \in Sessions |-> IF s \in S THEN "open" ELSE Stage[s]]
  <2>1. ASSUME NEW u \in Sessions PROVE Stage'[u] = IF u \in S THEN "open" ELSE Stage[u]
    <3>1. IF snap[r][u].pending THEN ~row'[u].pending ELSE row'[u] = row[u]
      BY ResetClears
    <3> QED
      BY <1>2, <3>1 DEF Stage
  <2>2. Stage' = [u \in Sessions |-> Stage'[u]]
    BY DEF Stage
  <2> HIDE DEF S
  <2> QED
    BY <2>1, <2>2
<1>8. Life!Reset(r, a, S)
  <2> HIDE DEF a, S
  <2> QED
    BY <1>1, <1>3, <1>4, <1>5, <1>6, <1>7 DEF Life!Reset
<1>9. S \in SUBSET Sessions
  BY <1>1
<1> HIDE DEF a, S
<1> QED
  BY <1>1, <1>8, <1>9 DEF Life!Next

\* A logout's commit closes its session and takes it off the list.
LEMMA CloseRefines ==
  ASSUME TypeOK, MfaInv, ClosedInv, NEW r \in Requests, LogoutCommit(r)
  PROVE  Life!Close(req[r].jti)
<1> USE DEF dbVars, reqVars
<1> DEFINE s == req[r].jti
<1>1. s \in Sessions /\ s \in issued /\ clock \in Nat
  BY DEF TypeOK, Request, MfaInv, Held, LogoutCommit
<1>2. /\ UNCHANGED <<clock, issued, exp, req>>
      /\ pc[r] = "commit" /\ req[r].path = "logout" /\ pc' = [pc EXCEPT ![r] = "revoke"]
      /\ logout' = [logout EXCEPT ![s] = IF logout[s] = "no" THEN "closed" ELSE logout[s]]
  BY DEF LogoutCommit, Goto
<1>3. UNCHANGED <<AdmittedTo, ServedTo>>
  <2>1. ~Admitted(r) /\ ~Running(r) /\ ~Admitted(r)' /\ ~Running(r)'
    BY <1>2 DEF Admitted, Running, TypeOK
  <2> QED
    BY <1>2, <2>1, Stays
<1>4. UNCHANGED Stage
  <2>1. \A u \in issued : row'[u].pending = row[u].pending
    BY OthersKeepPending DEF TypeOK
  <2> QED
    BY <1>2, <2>1, StageKept
<1>5. Live' = Live \ {s}
  <2>1. row'[s].expiresAt <= clock'
    BY <1>2, LogoutExpires
  <2>2. row'[s].expiresAt \in Time
    <3>1. snap[r][s] \in Row /\ CloseRow(snap[r][s]) \in Row /\ row[s] \in Row
      BY <1>1, CloseRowType DEF TypeOK
    <3>2. row'[s] = Flush(row[s], snap[r][s], CloseRow(snap[r][s]))
      BY <1>1 DEF LogoutCommit, TypeOK
    <3>3. row'[s] \in Row
      BY <3>1, <3>2, FlushType
    <3> QED
      BY <3>3 DEF Row
  <2>3. ASSUME NEW u \in Sessions, u = s PROVE ~Listed(u)'
    BY <1>1, <1>2, <2>1, <2>2, <2>3 DEF Listed
  <2>4. ASSUME NEW u \in Sessions, u # s PROVE row'[u] = row[u]
    BY <2>4 DEF LogoutCommit, TypeOK
  <2>5. ASSUME NEW u \in Sessions, u # s PROVE Listed(u)' <=> Listed(u)
    BY <1>2, <2>4, <2>5 DEF Listed
  <2> HIDE DEF s
  <2> QED
    BY <2>3, <2>5 DEF Live
<1>6. Ended' = Ended \cup {s} /\ Revoked' = Revoked
  <2> HIDE DEF s
  <2> QED
    BY <1>1, <1>2 DEF Ended, Revoked, TypeOK
<1>7. Stage[s] # "none"
  BY <1>1 DEF Stage
<1> QED
  BY <1>3, <1>4, <1>5, <1>6, <1>7 DEF Life!Close

\* The key a logout sets revokes a session already closed.
LEMMA RevokeRefines ==
  ASSUME TypeOK, LifeInv, NEW r \in Requests, LogoutRevoke(r)
  PROVE  Life!Next \/ UNCHANGED <<Stage, Live, Ended, Revoked, AdmittedTo, ServedTo>>
<1> USE DEF dbVars, reqVars
<1> DEFINE s == req[r].jti
<1>1. s \in Sessions /\ logout[s] # "no"
  BY DEF TypeOK, Request, LifeInv, LogoutRevoke
<1>2. /\ UNCHANGED <<clock, issued, row, exp>> /\ pc[r] = "revoke" /\ Finish(r)
      /\ logout' = [logout EXCEPT ![s] = "revoked"]
  BY DEF LogoutRevoke
<1>3. UNCHANGED <<AdmittedTo, ServedTo>>
  <2>1. pc'[r] = "idle"
    BY <1>2, Finished DEF TypeOK
  <2>2. ~Admitted(r) /\ ~Running(r) /\ ~Admitted(r)' /\ ~Running(r)'
    BY <1>2, <2>1 DEF Admitted, Running
  <2> QED
    BY <1>2, <2>2, Finished, Stays
<1>4. UNCHANGED <<Stage, Live>>
  BY <1>2 DEF Stage, Live, Listed
<1> HIDE DEF s
<1>5. Ended' = Ended /\ s \in Ended
  BY <1>1, <1>2 DEF Ended, TypeOK
<1>6. Revoked' = Revoked \/ Revoked' = Revoked \cup {s}
  BY <1>1, <1>2 DEF Revoked, TypeOK
<1> QED
  BY <1>1, <1>3, <1>4, <1>5, <1>6 DEF Life!Next, Life!Revoke

\* Time and Redis only take sessions off the list and keys away.
LEMMA LapseRefines ==
  ASSUME TypeOK, Tick \/ RedisRestart
  PROVE  Life!Lapse
<1> USE DEF dbVars, reqVars
<1>1. /\ UNCHANGED <<issued, row, exp, pc, req>> /\ clock' \in {clock, clock + 1}
      /\ \A s \in Sessions : \/ logout'[s] = logout[s]
                             \/ logout[s] = "revoked" /\ logout'[s] = "forgotten"
  BY DEF Tick, RedisRestart, TypeOK
<1>2. clock \in Nat /\ \A s \in Sessions : exp[s] \in Time /\ row[s].expiresAt \in Time
  BY DEF TypeOK, Row
<1>3. UNCHANGED <<Stage, AdmittedTo, ServedTo>>
  BY <1>1 DEF Stage, AdmittedTo, ServedTo, Admitted, Running
<1>4. Ended' = Ended
  BY <1>1 DEF Ended
<1>5. Live' \subseteq Live /\ Revoked' \subseteq Revoked
  BY <1>1, <1>2 DEF Live, Listed, Revoked
<1> QED
  BY <1>3, <1>4, <1>5 DEF Life!Lapse

\* Every step of the gate, of the handlers and of time is a step of the
\* abstract life or changes nothing of it.
LEMMA NextRefines ==
  ASSUME TypeOK, MfaInv, RevocationInv, ClosedInv, LifeInv, [Next]_vars
  PROVE  [Life!Next]_<<Stage, Live, Ended, Revoked, AdmittedTo, ServedTo>>
<1> DEFINE Same == UNCHANGED <<Stage, Live, Ended, Revoked, AdmittedTo, ServedTo>>
<1>0. \A r \in Requests : req[r].jti \in Sessions
  BY DEF TypeOK, Request
<1>1. ASSUME NEW s \in Sessions, NEW v \in Verdicts, Login(s, v) PROVE Life!Next
  BY <1>1, LoginRefines DEF Life!Next
<1>2. ASSUME NEW r \in Requests, VerifyCommit(r) PROVE Life!Next
  BY <1>0, <1>2, VerifyRefines DEF Life!Next
<1>3. ASSUME NEW r \in Requests, LogoutCommit(r) PROVE Life!Next
  BY <1>0, <1>3, CloseRefines DEF Life!Next
<1>4. ASSUME Tick \/ RedisRestart PROVE Life!Next
  BY <1>4, LapseRefines DEF Life!Next
<1>5. ASSUME NEW r \in Requests,
             \/ CheckBlacklist(r) \/ LoadSession(r) \/ Enforce(r) \/ Serve(r)
             \/ VerifyLoad(r) \/ OverrideLoad(r) \/ OverrideCommit(r)
             \/ ResetLoad(r) \/ ResetCommit(r) \/ LogoutRevoke(r) \/ Abort(r)
      PROVE  Life!Next \/ Same
  BY <1>5, CheckRefines, LoadRefines, EnforceRefines, ScoreRefines, ResetRefines,
     RevokeRefines DEF MfaInv
<1>6. ASSUME NEW r \in Requests, NEW v \in Verdicts, Evaluate(r, v) PROVE Life!Next \/ Same
  BY <1>6, ScoreRefines
<1>7. ASSUME NEW r \in Requests, NEW s \in Sessions,
             LogoutLoad(r, s) \/ \E t \in Sessions, p \in Paths : Dispatch(r, s, p, t)
      PROVE  Same
  BY <1>7, ArrivalRefines
<1>8. ASSUME UNCHANGED vars PROVE Same
  BY <1>8, SameSessions DEF vars, dbVars, reqVars, AdmittedTo, ServedTo, Admitted, Running
<1> HIDE DEF Same
<1>9. Life!Next \/ Same
  BY <1>1, <1>2, <1>3, <1>4, <1>5, <1>6, <1>7, <1>8 DEF Next
<1> QED
  BY <1>9 DEF Same

\* While a blacklist key outlives the token, the gate and the handlers
\* implement the abstract life of a session: what copies of its row they
\* hold and save late opens, lists and admits nobody the abstract life
\* would not.
THEOREM LifeImplemented ==
  ASSUME JwtExpire <= BlacklistTtl
  PROVE  Spec => SessionsImplemented
<1>1. TypeOK /\ MfaInv /\ RevocationInv /\ ClosedInv /\ LifeInv /\ [Next]_vars
        => [Life!Next]_<<Stage, Live, Ended, Revoked, AdmittedTo, ServedTo>>
  BY NextRefines
<1> QED
  BY <1>1, InitRefines, TypeCorrect, MfaInvariant, LifeInvariant, PTL
     DEF Spec, SessionsImplemented, Life!Spec, Life!vars
=============================================================================
