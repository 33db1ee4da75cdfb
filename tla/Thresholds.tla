------------------------------- MODULE Thresholds -----------------------------
(***************************************************************************)
(* The MFA and block thresholds: the single threshold_config row, the      *)
(* values the engine runs with, POST /admin/threshold                      *)
(* (app/routes/admin.py, update_threshold) and the start of the process    *)
(* (app/main.py, load_thresholds).                                         *)
(*                                                                         *)
(* An update loads the row, commits the columns it changed and commits its *)
(* audit row in a second transaction; updates run in worker threads.       *)
(***************************************************************************)
EXTENDS Integers

CONSTANTS
  Updates,    \* slots for concurrent POST /admin/threshold requests
  Wanted,     \* the bodies the administrators send
  Default     \* the thresholds of a fresh installation

Level      == 0 .. 100
Thresholds == [mfa : Level, block : Level]
\* Variant: the request is validated column by column only.
InRange(t) == t.mfa \in Level /\ t.block \in Level
Valid(t) == t.mfa < t.block

ASSUME WantedAssumption  == Wanted \subseteq Thresholds
ASSUME DefaultAssumption == Default \in Thresholds /\ Default.mfa < Default.block

NoRow == [mfa |-> -1, block |-> -1]

VARIABLES
  stored,     \* the threshold_config row, or NoRow
  running,    \* the thresholds in the engine's configuration
  pc,         \* pc[u]: the next step of update u
  want,       \* want[u]: the thresholds of its body
  loaded,     \* loaded[u]: the row as it read it
  audit,      \* the bodies named by the change_threshold audit rows
  committed,  \* history: the bodies whose first commit succeeded
  answered,   \* history: the newest body answered with 200, or NoRow when
              \* a later update has touched the row
  overlapped, \* history: whether two updates have been in flight at once
  merged      \* history: whether the newest commit changed another row than the
              \* one its update had loaded

history == <<committed, answered, overlapped, merged>>
vars    == <<stored, running, pc, want, loaded, audit, history>>

Init ==
  /\ stored \in {Default, NoRow}
  /\ running = Default
  /\ pc = [u \in Updates |-> "idle"]
  /\ want = [u \in Updates |-> NoRow]
  /\ loaded = [u \in Updates |-> NoRow]
  /\ audit = {}
  /\ committed = {}
  /\ answered = NoRow
  /\ overlapped = FALSE
  /\ merged = FALSE

-----------------------------------------------------------------------------
(* update_threshold                                                        *)

Goto(u, step) == pc' = [pc EXCEPT ![u] = step]
Done(u) == /\ Goto(u, "idle")
           /\ want' = [want EXCEPT ![u] = NoRow]
           /\ loaded' = [loaded EXCEPT ![u] = NoRow]

Load(u, t) ==
  /\ pc[u] = "idle"
  /\ Valid(t)
  /\ Goto(u, "commit")
  /\ want' = [want EXCEPT ![u] = t]
  /\ loaded' = [loaded EXCEPT ![u] = stored]
  /\ overlapped' = (overlapped \/ \E v \in Updates : pc[v] # "idle")
  /\ UNCHANGED <<stored, running, audit, committed, answered, merged>>

\* An UPDATE writes the columns that differ from the row as it was loaded.
Changed(old, new, current) ==
  [mfa   |-> IF new.mfa   = old.mfa   THEN current.mfa   ELSE new.mfa,
   block |-> IF new.block = old.block THEN current.block ELSE new.block]

\* The row is inserted when none was loaded; a second INSERT of id 1 fails.
Conflict(u) == loaded[u] = NoRow /\ stored # NoRow

Commit(u) ==
  /\ pc[u] = "commit"
  /\ ~Conflict(u)
  /\ stored' = IF loaded[u] = NoRow THEN want[u]
                                    ELSE Changed(loaded[u], want[u], stored)
  /\ committed' = committed \cup {want[u]}
  /\ merged' = (loaded[u] # stored)
  /\ answered' = NoRow
  /\ Goto(u, "audit")
  /\ UNCHANGED <<running, want, loaded, audit, overlapped>>

\* Variant: the failed INSERT is swallowed and the update goes on.
RejectSwallowed(u) ==
  /\ pc[u] = "commit"
  /\ Conflict(u)
  /\ Goto(u, "audit")
  /\ UNCHANGED <<stored, running, want, loaded, audit, history>>
Reject(u) ==
  /\ pc[u] = "commit"
  /\ Conflict(u)
  /\ Done(u)
  /\ UNCHANGED <<stored, running, audit, history>>

Audit(u) ==
  /\ pc[u] = "audit"
  /\ audit' = audit \cup {want[u]}
  /\ answered' = want[u]
  /\ Done(u)
  /\ UNCHANGED <<stored, running, committed, overlapped, merged>>

Abort(u) ==
  /\ pc[u] # "idle"
  /\ Done(u)
  /\ UNCHANGED <<stored, running, audit, history>>

-----------------------------------------------------------------------------
(* load_thresholds: the stored row, or the defaults, which are stored.  The *)
(* process takes the updates in flight with it.                            *)

\* Variant: every start stores the defaults.
DefaultRow == Default
StartRow == IF stored = NoRow THEN Default ELSE stored

Stopped == /\ pc' = [u \in Updates |-> "idle"]
           /\ want' = [u \in Updates |-> NoRow]
           /\ loaded' = [u \in Updates |-> NoRow]

Restart ==
  /\ Stopped
  /\ stored' = StartRow
  /\ running' = stored'
  /\ UNCHANGED <<audit, history>>

\* The database is not reachable while the process starts.
RestartWithoutDb ==
  /\ Stopped
  /\ running' = Default
  /\ UNCHANGED <<stored, audit, history>>

Next ==
  \/ \E u \in Updates, t \in Wanted : Load(u, t)
  \/ \E u \in Updates : Commit(u) \/ Reject(u) \/ Audit(u) \/ Abort(u)
  \/ Restart
  \/ RestartWithoutDb

Spec == Init /\ [][Next]_vars

-----------------------------------------------------------------------------
(* Properties                                                              *)

\* Every variable has its type.
TypeOK ==
  /\ stored \in Thresholds \cup {NoRow}
  /\ running \in Thresholds
  /\ pc \in [Updates -> {"idle", "commit", "audit"}]
  /\ want \in [Updates -> Wanted \cup {NoRow}]
  /\ loaded \in [Updates -> Thresholds \cup {NoRow}]
  /\ audit \subseteq Wanted
  /\ committed \subseteq Wanted
  /\ answered \in Wanted \cup {NoRow}
  /\ overlapped \in BOOLEAN /\ merged \in BOOLEAN

\* An audit row names a change whose commit succeeded, however the updates
\* overlap, die or lose the race to insert the row.
AuditTruthful == audit \subseteq committed

\* The stored thresholds are ordered, although each update saves only the columns
\* it changes, however updates overlap, die and race to insert the row; but for
\* one whose commit is merged into a row it had not loaded, and the next update
\* of a row as it was loaded puts them in order again.
OrderedUnlessMerged == ~merged /\ stored # NoRow => stored.mfa < stored.block

\* While no two updates have overlapped, thresholds answered with 200 are the
\* stored ones until the next commit, whatever updates die and however often
\* the process restarts with or without the database.
AnsweredKept == ~overlapped /\ answered # NoRow => stored = answered
=============================================================================
