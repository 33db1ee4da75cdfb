----------------------------- MODULE ModelRegistry -----------------------------
(***************************************************************************)
(* The registry of ML models: POST /admin/model/reload (app/routes/        *)
(* admin.py), the ML pipeline's INSERT, and what migration b8f2e3d5a1c4    *)
(* puts into the database: a BEFORE trigger that deactivates the active    *)
(* row and a partial unique index on active.                               *)
(*                                                                         *)
(* A transaction inserts one active row.  PostgreSQL runs it at READ       *)
(* COMMITTED: an UPDATE sees the rows active when the statement began,     *)
(* waits for the transaction that holds one of them and then looks at the  *)
(* row again; the index makes an INSERT wait for every transaction that    *)
(* may still keep or add an active row, and fail if one remains.           *)
(***************************************************************************)
EXTENDS Naturals

CONSTANTS
  Reloads,     \* reload requests
  Retrains,    \* inserts of the ML pipeline
  Legacy,      \* rows from before the migration
  Age,         \* Age[v]: the order by created_at, then id, of those rows
  AtStart,     \* the model the process loads when it starts (MODEL_PATH)
  None         \* no active version

Txns     == Reloads \cup Retrains
Versions == Txns \cup Legacy

ASSUME VersionsAssumption ==
  /\ Reloads \cap Retrains = {} /\ Txns \cap Legacy = {}
  /\ AtStart \notin Versions /\ None \notin Versions
ASSUME AgeAssumption ==
  /\ Age \in [Legacy -> Nat]
  /\ \A S \in (SUBSET Legacy) \ {{}} :
       \E v \in S : \A w \in S : w = v \/ Age[w] < Age[v]

VARIABLES
  migrated,  \* whether the migration has run
  rows,      \* ml_model_versions: the committed rows, named by who wrote them
  active,    \* those with active = TRUE
  audit,     \* the reloads with a committed reload_model audit row
  engine,    \* the reload whose model the engine runs, or AtStart
  pc,        \* pc[t]: the next step of the transaction or request
  seen,      \* seen[t]: the active rows its UPDATE has still to look at
  held,      \* held[t]: the rows it deactivated and has not committed
  calm       \* history: since the newest load of a model, which began with no
             \* other transaction in flight, none failed, the pipeline inserted
             \* nothing and the process did not restart

dbVars == <<rows, active, audit>>
txVars == <<pc, seen, held>>
vars   == <<migrated, dbVars, engine, txVars, calm>>

Over     == {"done", "failed"}
Steps    == {"idle", "checksum", "deactivate", "locking", "insert", "trigger",
             "commit"} \cup Over
InFlight == {t \in Txns : pc[t] \notin {"idle"} \cup Over}
Added    == {t \in Txns : pc[t] = "commit"}   \* rows not committed yet

Newest(S) == CHOOSE v \in S : \A w \in S : w = v \/ Age[w] < Age[v]

Goto(t, step) == pc' = [pc EXCEPT ![t] = step]

-----------------------------------------------------------------------------
Init ==
  /\ migrated = FALSE
  /\ rows = Legacy
  /\ active \in SUBSET Legacy
  /\ audit = {}
  /\ engine = AtStart
  /\ pc = [t \in Txns |-> "idle"]
  /\ seen = [t \in Txns |-> {}]
  /\ held = [t \in Txns |-> {}]
  /\ calm = TRUE

\* Only the newest active row stays active, or the index could not be created.
Migrate ==
  /\ ~migrated
  /\ migrated' = TRUE
  /\ active' = IF active = {} THEN {} ELSE {Newest(active)}
  /\ UNCHANGED <<rows, audit, engine, txVars, calm>>

\* reload_model: a bad file name, a missing file or an error code of the
\* engine ends the request; otherwise the engine runs the new model.
Refuse(r) ==
  /\ migrated /\ pc[r] = "idle"
  /\ Goto(r, "failed")
  /\ UNCHANGED <<migrated, dbVars, engine, seen, held, calm>>

\* Variant: the engine's return code is not looked at.
LoadUnchecked(r) ==
  /\ migrated /\ pc[r] = "idle"
  /\ engine' \in {engine, r}
  /\ calm' = (InFlight = {})
  /\ Goto(r, "checksum")
  /\ UNCHANGED <<migrated, dbVars, seen, held>>
Load(r) ==
  /\ migrated /\ pc[r] = "idle"
  /\ engine' = r
  /\ calm' = (InFlight = {})
  /\ Goto(r, "checksum")
  /\ UNCHANGED <<migrated, dbVars, seen, held>>

\* The file is read again for its checksum, outside the try block.
Checksum(r) ==
  /\ pc[r] = "checksum"
  /\ \/ Goto(r, "deactivate") /\ UNCHANGED calm
     \/ Goto(r, "failed") /\ calm' = FALSE
  /\ UNCHANGED <<migrated, dbVars, engine, seen, held>>

\* The statement UPDATE ... WHERE active, of the handler ...
Deactivate(r) ==
  /\ pc[r] = "deactivate"
  /\ seen' = [seen EXCEPT ![r] = active]
  /\ Goto(r, "locking")
  /\ UNCHANGED <<migrated, dbVars, engine, held, calm>>

\* Variant: the UPDATE is committed before the new row is added.
DeactivatedFirst(r) ==
  /\ pc[r] = "locking" /\ seen[r] = {}
  /\ Goto(r, "insert")
  /\ active' = active \ held[r]
  /\ held' = [held EXCEPT ![r] = {}]
  /\ UNCHANGED <<migrated, rows, audit, engine, seen, calm>>
Deactivated(r) ==
  /\ pc[r] = "locking" /\ seen[r] = {}
  /\ Goto(r, "insert")
  /\ UNCHANGED <<migrated, dbVars, engine, seen, held, calm>>

\* ... and of the trigger, when the row is inserted.
Retrain(t) ==
  /\ migrated /\ pc[t] = "idle"
  /\ Goto(t, "insert")
  /\ calm' = FALSE
  /\ UNCHANGED <<migrated, dbVars, engine, seen, held>>

FireTrigger(t) ==
  /\ pc[t] = "insert"
  /\ seen' = [seen EXCEPT ![t] = active \ held[t]]
  /\ Goto(t, "trigger")
  /\ UNCHANGED <<migrated, dbVars, engine, held, calm>>

\* An UPDATE takes the lock of a row it saw, when it is free, and changes the
\* row if it is still active.
LockRow(t, v) ==
  /\ pc[t] \in {"locking", "trigger"} /\ v \in seen[t]
  /\ \A u \in Txns \ {t} : v \notin held[u]
  /\ seen' = [seen EXCEPT ![t] = @ \ {v}]
  /\ held' = [held EXCEPT ![t] = @ \cup ({v} \cap active)]
  /\ UNCHANGED <<migrated, dbVars, engine, pc, calm>>

\* The unique index admits the new row ...
\* Variant: there is no index, the trigger alone keeps the registry.
TriggerOnly(t) == TRUE
Unique(t) == Added = {} /\ active \subseteq held[t]

Insert(t) ==
  /\ pc[t] = "trigger" /\ seen[t] = {}
  /\ Unique(t)
  /\ Goto(t, "commit")
  /\ UNCHANGED <<migrated, dbVars, engine, seen, held, calm>>

\* ... or finds a committed one that no transaction is deactivating.
\* Variant: the check waits for ever.
NoConflict(t) == FALSE
Duplicate(t) == \E v \in active : \A u \in Txns : v \notin held[u]

Rollback(t) ==
  /\ Goto(t, "failed")
  /\ seen' = [seen EXCEPT ![t] = {}]
  /\ held' = [held EXCEPT ![t] = {}]
  /\ calm' = FALSE
  /\ UNCHANGED <<migrated, dbVars, engine>>

Reject(t) ==
  /\ pc[t] = "trigger" /\ seen[t] = {}
  /\ Duplicate(t)
  /\ Rollback(t)

\* Variant: the database audits every insert.
EveryInsert(t) == {t}
Audits(t) == {t} \cap Reloads

\* The new row, the deactivated ones and the audit row become visible at once.
Commit(t) ==
  /\ pc[t] = "commit"
  /\ rows' = rows \cup {t}
  /\ active' = (active \ held[t]) \cup {t}
  /\ audit' = audit \cup Audits(t)
  /\ held' = [held EXCEPT ![t] = {}]
  /\ Goto(t, "done")
  /\ UNCHANGED <<migrated, engine, seen, calm>>

\* The database may refuse any statement of the transaction.
Fail(t) ==
  /\ pc[t] \in {"deactivate", "locking", "insert", "trigger", "commit"}
  /\ Rollback(t)

\* The process dies and starts again; the pipeline is a process of its own.
Restart ==
  /\ migrated
  /\ engine' = AtStart
  /\ pc' = [t \in Txns |-> IF t \in InFlight \cap Reloads THEN "failed" ELSE pc[t]]
  /\ seen' = [t \in Txns |-> IF t \in Reloads THEN {} ELSE seen[t]]
  /\ held' = [t \in Txns |-> IF t \in Reloads THEN {} ELSE held[t]]
  /\ calm' = FALSE
  /\ UNCHANGED <<migrated, dbVars>>

Advance(t) ==
  \/ Checksum(t) \/ Deactivate(t) \/ Deactivated(t) \/ FireTrigger(t)
  \/ Insert(t) \/ Reject(t) \/ Commit(t)
  \/ \E v \in Versions : LockRow(t, v)

Next ==
  \/ Migrate
  \/ \E r \in Reloads : Refuse(r) \/ Load(r)
  \/ \E t \in Retrains : Retrain(t)
  \/ \E t \in Txns : Advance(t) \/ Fail(t)
  \/ Restart

Spec == Init /\ [][Next]_vars

\* Statements run, and a lock that is free is granted.
FairSpec == Spec /\ \A t \in Txns : WF_vars(Advance(t))

-----------------------------------------------------------------------------
(* Properties                                                              *)

\* Every variable has its type.
TypeOK ==
  /\ migrated \in BOOLEAN
  /\ rows \subseteq Versions /\ active \subseteq rows
  /\ audit \subseteq Reloads
  /\ engine \in Reloads \cup {AtStart}
  /\ pc \in [Txns -> Steps]
  /\ seen \in [Txns -> SUBSET Versions]
  /\ held \in [Txns -> SUBSET Versions]
  /\ calm \in BOOLEAN

\* However reloads and retrains overlap, roll back or die, at most one row is
\* active, and exactly one is from the first registration on.
ExactlyOneActive ==
  migrated =>
    /\ \A v, w \in active : v = w
    /\ active = {} => rows = Legacy

\* Whatever overlapped, failed or restarted before, a reload that has the
\* registry to itself and succeeds leaves the engine with the model of the one
\* active row, and audited, until the next of these disturbs them.
EngineRegistered ==
  calm /\ InFlight = {} /\ engine # AtStart
    => active = {engine} /\ engine \in audit

\* The registry implements the abstract one: a commit registers a version,
\* every other step of a transaction changes nothing that a reader can see.
Current  == IF active = {} THEN None ELSE Newest(active)
Abstract == INSTANCE Registry WITH known <- rows, current <- Current
RegistryImplemented == Abstract!Spec

\* What a transaction waits for: the loop of an UPDATE over the rows it saw,
\* each until its lock is free, and the verdict of the index.
CanAdvance(t) ==
  \/ pc[t] \in {"checksum", "deactivate", "insert", "commit"}
  \/ \E v \in seen[t] : \A u \in Txns \ {t} : v \notin held[u]
  \/ pc[t] = "locking" /\ seen[t] = {}
  \/ pc[t] = "trigger" /\ seen[t] = {} /\ (Unique(t) \/ Duplicate(t))

\* The transactions in flight never all wait for each other, over row locks,
\* over the index or over both.
NoneStuck == InFlight # {} => \E t \in InFlight : CanAdvance(t)

\* A reload that loaded a model, or an insert that began, ends: the row locks
\* and the index never leave transactions waiting for each other.
TransactionsEnd == \A t \in Txns : t \in InFlight ~> pc[t] \in Over
=============================================================================
