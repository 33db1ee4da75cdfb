-------------------------- MODULE ModelRegistryProofs --------------------------
(***************************************************************************)
(* Theorems about ModelRegistry, for any sets of reloads, retrains and     *)
(* rows from before the migration.                                         *)
(***************************************************************************)
EXTENDS ModelRegistry, TLAPS

\* The newest of a set of rows is one of them.
LEMMA NewestIn ==
  ASSUME NEW S \in SUBSET Legacy, S # {}
  PROVE  Newest(S) \in S
<1>1. \E v \in S : \A w \in S : w = v \/ Age[w] < Age[v]
  BY AgeAssumption
<1> QED
  BY <1>1 DEF Newest

\* The newest of one row is that row.
LEMMA NewestOne ==
  ASSUME NEW v
  PROVE  Newest({v}) = v
BY DEF Newest

-----------------------------------------------------------------------------
(* Types.  The row locks a transaction holds are part of the argument from *)
(* the start: a row it deactivated is a row.                               *)

\* Before the migration nothing has happened but what was there.
BeforeMigration ==
  ~migrated => /\ rows = Legacy
               /\ \A t \in Txns : pc[t] = "idle"

TypeInv == TypeOK /\ BeforeMigration

\* One step of a transaction keeps the types.
LEMMA AdvanceTypes ==
  ASSUME TypeInv, NEW t \in Txns, Advance(t) \/ Fail(t)
  PROVE  TypeInv'
<1> USE DEF TypeInv, TypeOK, BeforeMigration, dbVars, Goto, Steps, Over
<1>0. migrated
  BY DEF Advance, Fail, Checksum, Deactivate, Deactivated, FireTrigger, Insert,
         Reject, Commit, LockRow
<1>1. CASE Checksum(t) \/ Deactivate(t) \/ Deactivated(t)
  BY <1>0, <1>1 DEF Checksum, Deactivate, Deactivated
<1>2. CASE FireTrigger(t) \/ Insert(t)
  BY <1>0, <1>2 DEF FireTrigger, Insert
<1>3. CASE Reject(t) \/ Fail(t)
  BY <1>0, <1>3 DEF Reject, Fail, Rollback
<1>4. CASE Commit(t)
  BY <1>0, <1>4 DEF Commit, Audits, Versions, Txns
<1>5. ASSUME NEW v \in Versions, LockRow(t, v) PROVE TypeInv'
  BY <1>0, <1>5 DEF LockRow
<1> QED
  BY <1>1, <1>2, <1>3, <1>4, <1>5 DEF Advance

\* The type invariant holds throughout, with what is known before the migration.
LEMMA TypeInvariant == Spec => []TypeInv
<1>1. Init => TypeInv
  BY DEF Init, TypeInv, TypeOK, BeforeMigration, Steps, Versions
<1>2. TypeInv /\ [Next]_vars => TypeInv'
  <2> SUFFICES ASSUME TypeInv, [Next]_vars PROVE TypeInv'
    OBVIOUS
  <2> USE DEF TypeInv, TypeOK, BeforeMigration, dbVars, Goto, Steps, Over
  <2>1. CASE Migrate
    BY <2>1, NewestIn DEF Migrate, txVars, Versions
  <2>2. ASSUME NEW r \in Reloads, Refuse(r) \/ Load(r) PROVE TypeInv'
    BY <2>2 DEF Refuse, Load, Txns
  <2>3. ASSUME NEW t \in Retrains, Retrain(t) PROVE TypeInv'
    BY <2>3 DEF Retrain, Txns
  <2>4. ASSUME NEW t \in Txns, Advance(t) \/ Fail(t) PROVE TypeInv'
    BY <2>4, AdvanceTypes
  <2>5. CASE Restart
    BY <2>5 DEF Restart
  <2>6. CASE UNCHANGED vars
    BY <2>6 DEF vars, txVars
  <2> QED
    BY <2>1, <2>2, <2>3, <2>4, <2>5, <2>6 DEF Next
<1> QED
  BY <1>1, <1>2, PTL DEF Spec

\* Every variable always has its type.
THEOREM TypeCorrect == Spec => []TypeOK
BY TypeInvariant, PTL DEF TypeInv

-----------------------------------------------------------------------------
(* One active row.  A transaction whose row the index has admitted holds   *)
(* every active row, so no other transaction holds one and none can be     *)
(* admitted beside it: its commit leaves its own row as the only active    *)
(* one.                                                                    *)

LockInv ==
  /\ \A t \in Txns : held[t] \subseteq active
  /\ \A t, u \in Txns : t # u => held[t] \cap held[u] = {}
  /\ \A t \in Txns : pc[t] = "commit" => active \subseteq held[t]
  /\ \A t, u \in Txns : pc[t] = "commit" /\ pc[u] = "commit" => t = u
  /\ \A t \in Txns : t \in rows => pc[t] = "done"
  /\ ExactlyOneActive
  /\ ~migrated => \A t \in Txns : held[t] = {}

\* A commit leaves the committed row alone active, and no other transaction
\* held a row.
LEMMA CommitAlone ==
  ASSUME TypeInv, LockInv, NEW t \in Txns, Commit(t)
  PROVE  /\ active' = {t}
         /\ \A u \in Txns : held'[u] = {}
<1>1. active \subseteq held[t]
  BY DEF Commit, LockInv
<1>2. \A u \in Txns \ {t} : held[u] = {}
  BY <1>1 DEF LockInv
<1> QED
  BY <1>1, <1>2 DEF Commit, TypeInv, TypeOK

\* One step of a transaction keeps LockInv.
LEMMA AdvanceLocks ==
  ASSUME TypeInv, LockInv, NEW t \in Txns, Advance(t) \/ Fail(t)
  PROVE  LockInv'
<1> USE DEF TypeInv, TypeOK, LockInv, ExactlyOneActive, dbVars, Goto
<1>0. migrated
  BY DEF Advance, Fail, Checksum, Deactivate, Deactivated, FireTrigger, Insert,
         Reject, Commit, LockRow, BeforeMigration
<1>1. CASE Checksum(t) \/ Deactivate(t) \/ Deactivated(t) \/ FireTrigger(t)
  <2>1. /\ UNCHANGED <<migrated, rows, active, held>>
        /\ \E step \in Steps \ {"commit"} : pc' = [pc EXCEPT ![t] = step]
        /\ pc[t] \notin {"commit", "done"}
    BY <1>1 DEF Checksum, Deactivate, Deactivated, FireTrigger, Steps, Over
  <2>2. PICK step \in Steps \ {"commit"} : pc' = [pc EXCEPT ![t] = step]
    BY <2>1
  <2>3. \A u \in Txns : (pc[u] = "done" => pc'[u] = "done")
                       /\ (pc'[u] = "commit" => pc[u] = "commit")
    BY <2>1, <2>2
  <2> QED
    BY <1>0, <2>1, <2>3
<1>2. CASE Insert(t)
  BY <1>0, <1>2 DEF Insert, Unique, Added
<1>3. CASE Reject(t) \/ Fail(t)
  <2>1. /\ pc' = [pc EXCEPT ![t] = "failed"]
        /\ held' = [held EXCEPT ![t] = {}]
        /\ UNCHANGED <<migrated, rows, active>>
        /\ pc[t] # "done"
    BY <1>3 DEF Reject, Fail, Rollback
  <2> QED
    BY <1>0, <2>1
<1>4. CASE Commit(t)
  <2>1. /\ active' = {t} /\ \A u \in Txns : held'[u] = {}
        /\ rows' = rows \cup {t} /\ pc' = [pc EXCEPT ![t] = "done"]
        /\ migrated' = migrated /\ pc[t] = "commit"
    BY <1>4, CommitAlone DEF Commit
  <2>2. \A u \in Txns : pc'[u] # "commit"
    BY <2>1
  <2> QED
    BY <1>0, <2>1, <2>2
<1>5. ASSUME NEW v \in Versions, LockRow(t, v) PROVE LockInv'
  <2>1. /\ held' = [held EXCEPT ![t] = held[t] \cup ({v} \cap active)]
        /\ \A u \in Txns \ {t} : v \notin held[u]
        /\ pc[t] # "commit"
        /\ UNCHANGED <<migrated, rows, active, pc>>
    BY <1>5 DEF LockRow
  <2> QED
    BY <1>0, <2>1
<1> QED
  BY <1>1, <1>2, <1>3, <1>4, <1>5 DEF Advance

\* LockInv holds throughout.
LEMMA LockInvariant == Spec => []LockInv
<1>1. Init => LockInv
  BY VersionsAssumption DEF Init, LockInv, ExactlyOneActive
<1>2. TypeInv /\ LockInv /\ [Next]_vars => LockInv'
  <2> SUFFICES ASSUME TypeInv, LockInv, [Next]_vars PROVE LockInv'
    OBVIOUS
  <2> USE DEF TypeInv, TypeOK, LockInv, ExactlyOneActive, dbVars, Goto
  <2>1. CASE Migrate
    BY <2>1 DEF Migrate, txVars, BeforeMigration
  <2>2. ASSUME NEW r \in Reloads, Refuse(r) \/ Load(r) PROVE LockInv'
    BY <2>2 DEF Refuse, Load, Txns
  <2>3. ASSUME NEW t \in Retrains, Retrain(t) PROVE LockInv'
    BY <2>3 DEF Retrain, Txns
  <2>4. ASSUME NEW t \in Txns, Advance(t) \/ Fail(t) PROVE LockInv'
    BY <2>4, AdvanceLocks
  <2>5. CASE Restart
    BY <2>5 DEF Restart, InFlight, Over
  <2>6. CASE UNCHANGED vars
    BY <2>6 DEF vars, txVars
  <2> QED
    BY <2>1, <2>2, <2>3, <2>4, <2>5, <2>6 DEF Next
<1> QED
  BY <1>1, <1>2, TypeInvariant, PTL DEF Spec

\* At most one row is active after the migration, and exactly one once a
\* version has been registered.
THEOREM OneActiveRow == Spec => []ExactlyOneActive
BY LockInvariant, PTL DEF LockInv

-----------------------------------------------------------------------------
(* The engine and the registry, after a reload that had both to itself.    *)

CalmInv ==
  calm =>
    /\ InFlight \subseteq {engine}
    /\ engine # AtStart =>
         /\ pc[engine] \notin {"idle", "failed"}
         /\ pc[engine] = "done" => active = {engine} /\ engine \in audit

\* One step of a transaction keeps CalmInv.
LEMMA AdvanceCalm ==
  ASSUME TypeInv, LockInv, CalmInv, NEW t \in Txns, Advance(t) \/ Fail(t)
  PROVE  CalmInv'
<1> USE DEF TypeInv, TypeOK, CalmInv, InFlight, Over, dbVars, Goto
<1>1. CASE Checksum(t) \/ Deactivate(t) \/ Deactivated(t) \/ FireTrigger(t) \/ Insert(t)
  BY <1>1 DEF Checksum, Deactivate, Deactivated, FireTrigger, Insert, Txns
<1>2. CASE Reject(t) \/ Fail(t)
  BY <1>2 DEF Reject, Fail, Rollback
<1>3. CASE Commit(t)
  <2>1. /\ active' = {t} /\ pc' = [pc EXCEPT ![t] = "done"] /\ pc[t] = "commit"
        /\ audit' = audit \cup ({t} \cap Reloads)
        /\ UNCHANGED <<engine, calm>>
    BY <1>3, CommitAlone DEF Commit, Audits
  <2>2. calm => t = engine
    BY <2>1
  <2> QED
    BY <2>1, <2>2, VersionsAssumption DEF Versions
<1>4. ASSUME NEW v \in Versions, LockRow(t, v) PROVE CalmInv'
  BY <1>4 DEF LockRow
<1> QED
  BY <1>1, <1>2, <1>3, <1>4 DEF Advance

\* Whatever reloads overlapped, failed or died before, one that has the registry
\* to itself and succeeds makes the engine run the audited model of the one
\* active row.
THEOREM EngineMatches == Spec => []EngineRegistered
<1>1. Init => CalmInv
  BY DEF Init, CalmInv, InFlight
<1>2. TypeInv /\ LockInv /\ CalmInv /\ [Next]_vars => CalmInv'
  <2> SUFFICES ASSUME TypeInv, LockInv, CalmInv, [Next]_vars PROVE CalmInv'
    OBVIOUS
  <2> USE DEF TypeInv, TypeOK, CalmInv, InFlight, Over, dbVars, Goto
  <2>1. CASE Migrate
    BY <2>1 DEF Migrate, txVars, BeforeMigration, Txns
  <2>2. ASSUME NEW r \in Reloads, Refuse(r) PROVE CalmInv'
    BY <2>2 DEF Refuse, Txns
  <2>3. ASSUME NEW r \in Reloads, Load(r) PROVE CalmInv'
    BY <2>3 DEF Load, Txns
  <2>4. ASSUME NEW t \in Retrains, Retrain(t) PROVE CalmInv'
    BY <2>4 DEF Retrain
  <2>5. ASSUME NEW t \in Txns, Advance(t) \/ Fail(t) PROVE CalmInv'
    BY <2>5, AdvanceCalm
  <2>6. CASE Restart
    BY <2>6 DEF Restart
  <2>7. CASE UNCHANGED vars
    BY <2>7 DEF vars, txVars
  <2> QED
    BY <2>1, <2>2, <2>3, <2>4, <2>5, <2>6, <2>7 DEF Next
<1>3. TypeInv /\ CalmInv => EngineRegistered
  BY DEF TypeInv, TypeOK, CalmInv, EngineRegistered, InFlight, Over, Txns
<1> QED
  BY <1>1, <1>2, <1>3, TypeInvariant, LockInvariant, PTL DEF Spec

-----------------------------------------------------------------------------
(* The refinement: a commit registers a version, and no other step changes *)
(* the rows or which of them is current.                                   *)

\* Initial states map to initial states of the abstract registry.
LEMMA InitRefines == Init => Abstract!Init
<1> SUFFICES ASSUME Init PROVE Abstract!Init
  OBVIOUS
<1>1. Current \in rows \cup {None}
  BY NewestIn DEF Init, Current
<1> QED
  BY <1>1 DEF Init, Abstract!Init, Versions

\* Every step maps to a registration or to a stutter.
LEMMA NextRefines ==
  ASSUME TypeInv, LockInv, [Next]_vars
  PROVE  [Abstract!Next]_<<rows, Current>>
<1>1. ASSUME NEW t \in Txns, Commit(t)
      PROVE  Abstract!Next
  <2>1. active' = {t} /\ rows' = rows \cup {t} /\ t \notin rows
    BY <1>1, CommitAlone DEF Commit, LockInv
  <2>2. Current' = t
    BY <2>1, NewestOne DEF Current
  <2> QED
    BY <2>1, <2>2 DEF Abstract!Next, Abstract!Register, Versions
<1>2. CASE Migrate
  <2>1. rows' = rows /\ active' = IF active = {} THEN {} ELSE {Newest(active)}
    BY <1>2 DEF Migrate
  <2>2. Current' = Current
    BY <2>1, NewestOne DEF Current
  <2> QED
    BY <2>1, <2>2
<1>3. CASE UNCHANGED <<rows, active>>
  BY <1>3 DEF Current
<1>4. ASSUME NEW t \in Txns, Advance(t) \/ Fail(t), ~Commit(t)
      PROVE  UNCHANGED <<rows, active>>
  BY <1>4 DEF Advance, Fail, Checksum, Deactivate, Deactivated, FireTrigger,
              Insert, Reject, Rollback, LockRow, dbVars
<1>5. ASSUME \/ \E r \in Reloads : Refuse(r) \/ Load(r)
             \/ \E t \in Retrains : Retrain(t)
             \/ Restart
             \/ UNCHANGED vars
      PROVE  UNCHANGED <<rows, active>>
  BY <1>5 DEF Refuse, Load, Retrain, Restart, vars, dbVars
<1> QED
  BY <1>1, <1>2, <1>3, <1>4, <1>5 DEF Next

\* The registry, with its trigger, its index and its transactions,
\* implements the abstract registry.
THEOREM RegistryRefined == Spec => RegistryImplemented
BY InitRefines, NextRefines, TypeInvariant, LockInvariant, PTL
   DEF Spec, RegistryImplemented, Abstract!Spec
-----------------------------------------------------------------------------
(* Progress.  That a transaction ends is liveness and stays with TLC; what *)
(* it rests on is proved: a step is always left to some transaction in     *)
(* flight, and a transaction has only so many steps.                       *)

\* Row locks belong to transactions in flight, and an UPDATE has at most one
\* row left to look at.
WaitInv ==
  \A t \in Txns :
    /\ held[t] # {} => pc[t] \in {"locking", "insert", "trigger", "commit"}
    /\ seen[t] # {} => pc[t] \in {"locking", "trigger"}
    /\ \A v, w \in seen[t] : v = w

\* One step of a transaction keeps WaitInv.
LEMMA AdvanceWaits ==
  ASSUME TypeInv, LockInv, WaitInv, NEW t \in Txns, Advance(t) \/ Fail(t)
  PROVE  WaitInv'
<1> USE DEF TypeInv, TypeOK, WaitInv, InFlight, Over, dbVars, Goto
<1>0. \A v, w \in active : v = w
  BY DEF Advance, Fail, Checksum, Deactivate, Deactivated, FireTrigger, Insert,
         Reject, Commit, LockRow, BeforeMigration, LockInv, ExactlyOneActive
<1>1. CASE Checksum(t) \/ Deactivated(t) \/ Insert(t)
  BY <1>1 DEF Checksum, Deactivated, Insert
<1>2. CASE Deactivate(t) \/ FireTrigger(t)
  BY <1>0, <1>2 DEF Deactivate, FireTrigger
<1>3. CASE Reject(t) \/ Fail(t)
  BY <1>3 DEF Reject, Fail, Rollback
<1>4. CASE Commit(t)
  BY <1>4 DEF Commit
<1>5. ASSUME NEW v \in Versions, LockRow(t, v) PROVE WaitInv'
  BY <1>5 DEF LockRow
<1> QED
  BY <1>1, <1>2, <1>3, <1>4, <1>5 DEF Advance

\* WaitInv holds throughout.
LEMMA WaitInvariant == Spec => []WaitInv
<1>1. Init => WaitInv
  BY DEF Init, WaitInv
<1>2. TypeInv /\ LockInv /\ WaitInv /\ [Next]_vars => WaitInv'
  <2> SUFFICES ASSUME TypeInv, LockInv, WaitInv, [Next]_vars PROVE WaitInv'
    OBVIOUS
  <2> USE DEF TypeInv, TypeOK, WaitInv, InFlight, Over, dbVars, Goto
  <2>1. CASE Migrate
    BY <2>1 DEF Migrate, txVars
  <2>2. ASSUME NEW r \in Reloads, Refuse(r) \/ Load(r) PROVE WaitInv'
    BY <2>2 DEF Refuse, Load, Txns
  <2>3. ASSUME NEW t \in Retrains, Retrain(t) PROVE WaitInv'
    BY <2>3 DEF Retrain, Txns
  <2>4. ASSUME NEW t \in Txns, Advance(t) \/ Fail(t) PROVE WaitInv'
    BY <2>4, AdvanceWaits
  <2>5. CASE Restart
    BY <2>5 DEF Restart
  <2>6. CASE UNCHANGED vars
    BY <2>6 DEF vars, txVars
  <2> QED
    BY <2>1, <2>2, <2>3, <2>4, <2>5, <2>6 DEF Next
<1> QED
  BY <1>1, <1>2, TypeInvariant, LockInvariant, PTL DEF Spec

\* Who holds the active row has nothing left to wait for.
LEMMA HolderAdvances ==
  ASSUME TypeInv, LockInv, WaitInv, NEW u \in Txns, held[u] # {}, Added = {}
  PROVE  u \in InFlight /\ CanAdvance(u)
<1>1. u \in InFlight /\ held[u] \subseteq active
  BY DEF WaitInv, LockInv, InFlight, Over
<1>2. active \subseteq held[u] /\ \A x \in Txns \ {u} : held[x] = {}
  BY <1>1 DEF LockInv, ExactlyOneActive, TypeInv, BeforeMigration, InFlight, Over
<1>3. CASE seen[u] # {}
  BY <1>1, <1>2, <1>3 DEF CanAdvance
<1>4. CASE seen[u] = {}
  BY <1>1, <1>2, <1>4 DEF CanAdvance, Unique, InFlight, Over, Steps, TypeInv, TypeOK
<1> QED
  BY <1>3, <1>4

\* The transactions in flight never all wait for each other.
THEOREM NoDeadlock == Spec => []NoneStuck
<1>1. TypeInv /\ LockInv /\ WaitInv => NoneStuck
  <2> SUFFICES ASSUME TypeInv, LockInv, WaitInv, NEW t \in InFlight
               PROVE  \E u \in InFlight : CanAdvance(u)
    BY DEF NoneStuck
  <2>1. CASE Added # {}
    BY <2>1 DEF Added, InFlight, Over, CanAdvance
  <2>2. CASE Added = {} /\ \E u \in Txns : held[u] # {}
    BY <2>2, HolderAdvances
  <2>3. CASE Added = {} /\ \A u \in Txns : held[u] = {}
    <3>1. CASE seen[t] # {}
      BY <2>3, <3>1 DEF CanAdvance
    <3>2. CASE seen[t] = {}
      BY <2>3, <3>2 DEF CanAdvance, Unique, Duplicate, InFlight, Over, Steps,
                        TypeInv, TypeOK
    <3> QED
      BY <3>1, <3>2
  <2> QED
    BY <2>1, <2>2, <2>3
<1> QED
  BY <1>1, TypeInvariant, LockInvariant, WaitInvariant, PTL

\* The steps a transaction still has before it, at most.
Rank == [idle |-> 0, checksum |-> 6, deactivate |-> 5, locking |-> 4, insert |-> 3,
         trigger |-> 2, commit |-> 1, done |-> 0, failed |-> 0]
Measure(t) == 2 * Rank[pc[t]] + IF seen[t] = {} THEN 0 ELSE 1

\* A step of a transaction leaves it fewer steps, and no step of another, nor
\* a restart or the migration, gives it more once it is in flight.
Runs(t) == /\ Advance(t) => Measure(t)' < Measure(t)
           /\ t \in InFlight => Measure(t)' <= Measure(t)

\* One step of the transaction itself.
LEMMA AdvanceRuns ==
  ASSUME TypeInv, WaitInv, NEW t \in Txns, Advance(t) \/ Fail(t)
  PROVE  Measure(t)' < Measure(t)
<1> USE DEF TypeInv, TypeOK, WaitInv, Goto, Measure, Rank
<1>1. CASE Checksum(t)
  BY <1>1 DEF Checksum
<1>2. CASE Deactivate(t)
  BY <1>2 DEF Deactivate
<1>3. CASE Deactivated(t)
  BY <1>3 DEF Deactivated
<1>4. CASE FireTrigger(t)
  BY <1>4 DEF FireTrigger
<1>5. CASE Insert(t)
  BY <1>5 DEF Insert
<1>6. CASE Reject(t) \/ Fail(t)
  BY <1>6 DEF Reject, Fail, Rollback
<1>7. CASE Commit(t)
  BY <1>7 DEF Commit
<1>8. ASSUME NEW v \in Versions, LockRow(t, v) PROVE Measure(t)' < Measure(t)
  <2>1. seen'[t] = {} /\ seen[t] # {} /\ pc' = pc
    BY <1>8 DEF LockRow
  <2> QED
    BY <2>1
<1> QED
  BY <1>1, <1>2, <1>3, <1>4, <1>5, <1>6, <1>7, <1>8 DEF Advance

\* A step of another transaction does not touch this one.
LEMMA OthersRun ==
  ASSUME TypeInv, NEW t \in Txns, NEW u \in Txns \ {t}, Advance(u) \/ Fail(u)
  PROVE  pc'[t] = pc[t] /\ seen'[t] = seen[t]
<1> USE DEF TypeInv, TypeOK, Goto
<1>1. CASE Checksum(u) \/ Deactivate(u) \/ Deactivated(u) \/ FireTrigger(u) \/ Insert(u)
  BY <1>1 DEF Checksum, Deactivate, Deactivated, FireTrigger, Insert
<1>2. CASE Reject(u) \/ Commit(u) \/ Fail(u)
  BY <1>2 DEF Reject, Commit, Fail, Rollback
<1>3. ASSUME NEW v \in Versions, LockRow(u, v)
      PROVE  pc'[t] = pc[t] /\ seen'[t] = seen[t]
  BY <1>3 DEF LockRow
<1> QED
  BY <1>1, <1>2, <1>3 DEF Advance

\* No transaction runs for ever: each of its steps brings it nearer its end.
THEOREM StepsRunOut == Spec => [][\A t \in Txns : Runs(t)]_vars
<1>1. TypeInv /\ WaitInv /\ [Next]_vars => [\A t \in Txns : Runs(t)]_vars
  <2> SUFFICES ASSUME TypeInv, WaitInv, Next, NEW t \in Txns PROVE Runs(t)
    BY DEF vars
  <2> USE DEF TypeInv, TypeOK
  <2>1. Advance(t) => Measure(t)' < Measure(t)
    BY AdvanceRuns
  <2>2. SUFFICES ASSUME t \in InFlight PROVE Measure(t)' <= Measure(t)
    BY <2>1 DEF Runs
  <2>3. Measure(t) \in Nat
    BY DEF Measure, Rank, Steps, Over
  <2>4. CASE pc'[t] = pc[t] /\ seen'[t] = seen[t]
    <3>1. Measure(t)' = Measure(t)
      BY <2>4 DEF Measure
    <3> QED
      BY <3>1, <2>3
  <2>5. CASE Advance(t) \/ Fail(t)
    <3>1. Measure(t)' < Measure(t)
      BY <2>5, AdvanceRuns
    <3>2. Measure(t)' \in Nat
      BY <2>5, AdvanceTypes DEF Measure, Rank, Steps, Over
    <3> QED
      BY <3>1, <3>2, <2>3
  <2>6. ASSUME NEW u \in Txns \ {t}, Advance(u) \/ Fail(u)
        PROVE  Measure(t)' <= Measure(t)
    BY <2>4, <2>6, OthersRun
  <2>7. CASE Migrate
    BY <2>4, <2>7 DEF Migrate, txVars
  <2>8. CASE \E r \in Reloads : Refuse(r) \/ Load(r)
    <3>1. PICK r \in Reloads : Refuse(r) \/ Load(r)
      BY <2>8
    <3>2. t # r
      BY <2>2, <3>1 DEF Refuse, Load, InFlight
    <3> QED
      BY <2>4, <3>1, <3>2 DEF Refuse, Load, Goto
  <2>9. CASE \E r \in Retrains : Retrain(r)
    <3>1. PICK r \in Retrains : Retrain(r)
      BY <2>9
    <3>2. t # r
      BY <2>2, <3>1 DEF Retrain, InFlight
    <3> QED
      BY <2>4, <3>1, <3>2 DEF Retrain, Goto
  <2>10. CASE Restart
    <3>1. CASE t \in Reloads
      <4>1. pc'[t] = "failed" /\ seen'[t] = {}
        BY <2>2, <2>10, <3>1 DEF Restart
      <4>2. Measure(t)' = 0
        BY <4>1 DEF Measure, Rank
      <4> QED
        BY <4>2, <2>3
    <3>2. CASE t \notin Reloads
      BY <2>4, <2>10, <3>2 DEF Restart
    <3> QED
      BY <3>1, <3>2
  <2> QED
    BY <2>5, <2>6, <2>7, <2>8, <2>9, <2>10 DEF Next
<1> QED
  BY <1>1, TypeInvariant, WaitInvariant, PTL DEF Spec
=============================================================================
