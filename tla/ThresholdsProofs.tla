---------------------------- MODULE ThresholdsProofs --------------------------
(***************************************************************************)
(* Theorems about Thresholds, for any number of updates and any bodies.    *)
(***************************************************************************)
EXTENDS Thresholds, TLAPS

\* Merging two columns of thresholds yields thresholds.
LEMMA ChangedType ==
  ASSUME NEW old \in Thresholds, NEW new \in Thresholds, NEW current \in Thresholds
  PROVE  Changed(old, new, current) \in Thresholds
BY DEF Changed, Thresholds

\* What an update holds: a body of its own between the load and its end, a
\* committed one once it is about to write its audit row, and a row that has
\* not gone away.
Holding ==
  \A u \in Updates :
    /\ pc[u] # "idle" => want[u] \in Wanted /\ Valid(want[u])
    /\ pc[u] = "audit" => want[u] \in committed
    /\ loaded[u] # NoRow => stored # NoRow

AuditInv == TypeOK /\ Holding /\ AuditTruthful

\* Every step keeps AuditInv.
LEMMA AuditStep == AuditInv /\ [Next]_vars => AuditInv'
<1> SUFFICES ASSUME AuditInv, [Next]_vars PROVE AuditInv'
  OBVIOUS
<1> USE DEF AuditInv, Holding, AuditTruthful
<1>1. ASSUME NEW u \in Updates, NEW t \in Wanted, Load(u, t) PROVE AuditInv'
  BY <1>1 DEF Load, Goto, TypeOK
<1>2. ASSUME NEW u \in Updates, Commit(u) PROVE AuditInv'
  <2>1. want[u] \in Wanted /\ want[u] \in Thresholds
    BY <1>2, WantedAssumption DEF Commit
  <2>2. stored' \in Thresholds
    <3>1. CASE loaded[u] = NoRow
      BY <1>2, <2>1, <3>1 DEF Commit
    <3>2. CASE loaded[u] # NoRow
      <4>1. loaded[u] \in Thresholds /\ stored \in Thresholds
        BY <3>2 DEF TypeOK
      <4> QED
        BY <1>2, <2>1, <3>2, <4>1, ChangedType DEF Commit
    <3> QED
      BY <3>1, <3>2
  <2>3. stored' # NoRow
    BY <2>2 DEF NoRow, Thresholds, Level
  <2> QED
    BY <1>2, <2>1, <2>2, <2>3 DEF Commit, Goto, TypeOK
<1>3. ASSUME NEW u \in Updates, Reject(u) \/ Abort(u) PROVE AuditInv'
  BY <1>3 DEF Reject, Abort, Done, Goto, TypeOK, history
<1>4. ASSUME NEW u \in Updates, Audit(u) PROVE AuditInv'
  BY <1>4 DEF Audit, Done, Goto, TypeOK
<1>5. CASE Restart
  <2>1. StartRow \in Thresholds
    BY DefaultAssumption DEF StartRow, TypeOK
  <2>2. stored' # NoRow
    BY <1>5, <2>1 DEF Restart, NoRow, Thresholds, Level
  <2> QED
    BY <1>5, <2>1, <2>2 DEF Restart, Stopped, TypeOK, history
<1>6. CASE RestartWithoutDb
  BY <1>6, DefaultAssumption DEF RestartWithoutDb, Stopped, TypeOK, history
<1>7. CASE UNCHANGED vars
  BY <1>7 DEF vars, TypeOK, history
<1> QED
  BY <1>1, <1>2, <1>3, <1>4, <1>5, <1>6, <1>7 DEF Next

\* The first states satisfy AuditInv.
LEMMA AuditInit == Init => AuditInv
BY DefaultAssumption DEF Init, AuditInv, TypeOK, Holding, AuditTruthful

\* Every variable keeps its type, and a row that exists stays.
THEOREM TypeCorrect == Spec => []TypeOK
<1>1. AuditInv => TypeOK
  BY DEF AuditInv
<1> QED
  BY <1>1, AuditInit, AuditStep, PTL DEF Spec

\* However updates overlap, die or fail, an audit row names a change that was
\* committed.
THEOREM AuditNamesCommitted == Spec => []AuditTruthful
<1>1. AuditInv => AuditTruthful
  BY DEF AuditInv
<1> QED
  BY <1>1, AuditInit, AuditStep, PTL DEF Spec

-----------------------------------------------------------------------------
(* The order of the stored thresholds.                                     *)

\* Thresholds merged into the row they were compared with are taken whole.
LEMMA ChangedAlone ==
  ASSUME NEW old \in Thresholds, NEW new \in Thresholds
  PROVE  Changed(old, new, old) = new
BY DEF Changed, Thresholds

\* An update that commits on the row it loaded stores its body.
LEMMA CommitWhole ==
  ASSUME AuditInv, NEW u \in Updates, Commit(u), loaded[u] = stored
  PROVE  stored' = want[u]
<1>1. want[u] \in Thresholds
  BY WantedAssumption DEF AuditInv, Holding, Commit
<1>2. CASE stored = NoRow
  BY <1>2 DEF Commit
<1>3. CASE stored # NoRow
  <2>1. Changed(stored, want[u], stored) = want[u]
    BY <1>1, <1>3, ChangedAlone DEF AuditInv, TypeOK
  <2> QED
    BY <1>3, <2>1 DEF Commit
<1> QED
  BY <1>2, <1>3

\* Every step keeps the order.
LEMMA OrderStep == AuditInv /\ OrderedUnlessMerged /\ [Next]_vars => OrderedUnlessMerged'
<1> SUFFICES ASSUME AuditInv, OrderedUnlessMerged, [Next]_vars PROVE OrderedUnlessMerged'
  OBVIOUS
<1> USE DEF OrderedUnlessMerged
<1>1. ASSUME NEW u \in Updates, Commit(u) PROVE OrderedUnlessMerged'
  <2>1. ~merged' => loaded[u] = stored
    BY <1>1 DEF Commit
  <2>2. want[u].mfa < want[u].block
    BY <1>1 DEF AuditInv, Holding, Valid, Commit
  <2> QED
    BY <1>1, <2>1, <2>2, CommitWhole
<1>2. CASE UNCHANGED <<stored, merged>>
  BY <1>2
<1>3. CASE Restart
  BY <1>3, DefaultAssumption DEF Restart, StartRow, history
<1> QED
  BY <1>1, <1>2, <1>3
     DEF Next, Load, Reject, Audit, Abort, RestartWithoutDb, history, vars

\* However updates overlap, die or race, the stored thresholds are ordered unless
\* the newest commit was merged into a row that its update had not loaded; what
\* an earlier merge left is gone with the next commit of a row as loaded.
THEOREM UpdatesOrdered == Spec => []OrderedUnlessMerged
<1>1. Init => OrderedUnlessMerged
  BY DefaultAssumption DEF Init, OrderedUnlessMerged
<1> QED
  BY <1>1, AuditInit, AuditStep, OrderStep, PTL DEF Spec

-----------------------------------------------------------------------------
(* One update at a time.  A lone update commits on the row it loaded, so    *)
(* the columns it leaves alone already have the values of its body.        *)

\* Until updates overlap: at most one is in flight, an update about to commit loaded the present row, and one about to write its
\* audit row wrote the present one.
Alone ==
  ~overlapped =>
    /\ \A u, v \in Updates : pc[u] # "idle" /\ pc[v] # "idle" => u = v
    /\ answered # NoRow => stored = answered
    /\ \A u \in Updates :
         /\ pc[u] = "commit" => loaded[u] = stored
         /\ pc[u] = "audit" => want[u] = stored

\* Every step keeps Alone.
LEMMA AloneStep == AuditInv /\ Alone /\ [Next]_vars => Alone'
<1> SUFFICES ASSUME AuditInv, Alone, [Next]_vars, ~overlapped' PROVE Alone'
  BY DEF Alone
<1>0. ~overlapped
  BY DEF Next, Load, Commit, Reject, Audit, Abort, Restart, RestartWithoutDb, vars, history
<1> USE <1>0 DEF AuditInv, Holding, Alone
<1>1. ASSUME NEW u \in Updates, NEW t \in Wanted, Load(u, t) PROVE Alone'
  BY <1>1 DEF Load, Goto, TypeOK, Valid
<1>2. ASSUME NEW u \in Updates, Commit(u) PROVE Alone'
  <2>2. stored' = want[u]
    BY <1>2, CommitWhole DEF Commit
  <2> QED
    BY <1>2, <2>2 DEF Commit, Goto, TypeOK
<1>3. ASSUME NEW u \in Updates, Reject(u) \/ Abort(u) PROVE Alone'
  BY <1>3 DEF Reject, Abort, Done, Goto, TypeOK, history
<1>4. ASSUME NEW u \in Updates, Audit(u) PROVE Alone'
  BY <1>4 DEF Audit, Done, Goto, TypeOK
<1>5. CASE Restart
  <2>1. answered # NoRow => stored' = answered
    BY <1>5 DEF Restart, StartRow
  <2> QED
    BY <1>5, <2>1 DEF Restart, Stopped, history
<1>6. CASE RestartWithoutDb
  BY <1>6 DEF RestartWithoutDb, Stopped, history
<1>7. CASE UNCHANGED vars
  BY <1>7 DEF vars, history
<1> QED
  BY <1>1, <1>2, <1>3, <1>4, <1>5, <1>6, <1>7 DEF Next

\* Alone holds throughout.
LEMMA AloneAlways == Spec => []Alone
<1>1. Init => Alone
  BY DefaultAssumption DEF Init, Alone
<1> QED
  BY <1>1, AuditInit, AuditStep, AloneStep, PTL DEF Spec

\* While updates do not overlap, the thresholds answered with 200 last are the
\* stored ones.
THEOREM AnswersStand == Spec => []AnsweredKept
<1>1. Alone => AnsweredKept
  BY DEF Alone, AnsweredKept
<1> QED
  BY <1>1, AloneAlways, PTL
=============================================================================
