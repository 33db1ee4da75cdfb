# Formal model of the Zero Trust backend

TLA+ modules, TLC configurations and TLAPS proofs for the FastAPI backend in
`src/`. The modules were written from the code; the repository's documents are
quoted only where a run shows that the code does something else. Paths below
are relative to `src/` unless they name a file of this directory.

## 1. The system

One process (`Dockerfile`: a single uvicorn worker) serves a REST API. The
middleware is a coroutine on the event loop; route handlers are plain functions
that run in worker threads. They share PostgreSQL (one SQLAlchemy session per
request), Redis, and one C risk engine behind ctypes.

| Component | Code | State it keeps | Operations | Talks to |
|---|---|---|---|---|
| Risk middleware ("gate") | `app/middleware/risk.py` | none of its own; the session row, log rows, alerts | `dispatch` | Redis (blacklist), engine, database, live feed |
| Login and lockout | `app/routes/auth.py` `login` | `failed:<email>` in Redis; a new session row; profile blob; device registry | `login` | engine, database, Redis |
| MFA (TOTP) | `auth.py` `mfa_setup`, `mfa_verify`; `app/core/totp.py` | `mfa_fail:<user>`, `totp_used:<user>:<counter>`; MFA columns of the user and of the session | setup, verify | database, Redis, clock |
| Logout, tokens | `auth.py` `logout`; `app/core/security.py` | `blacklist:<jti>`; decision and expiry of the row | `logout`, `create_jwt`, `decode_jwt` | database, Redis |
| Session administration | `app/routes/admin.py` `override_session`, `reset_mfa` | session row, user row, audit log | override, reset | database |
| User administration | `admin.py` `deactivate_user`, `force_mfa` | user row, audit log | deactivate, force | database |
| Thresholds | `admin.py` `update_threshold`; `app/main.py` `load_thresholds` | `threshold_config` row; engine configuration | update, start | database, engine at start |
| Alerts | `risk.py` 140-176; `admin.py` `acknowledge_alert` | `alerts` | raise, acknowledge | database, live feed |
| Model registry | `admin.py` `reload_model`; migration `b8f2e3d5a1c4` | model in the engine; `ml_model_versions` | reload, register, migrate | engine, database |
| Live feed | `app/core/websocket.py`, `app/routes/ws.py` | table of connections | connect, disconnect, broadcast | event loop |
| Database sessions | `app/core/database.py` and whoever opens a session | the connection pool | take, give back, time out | event loop, worker threads |
| Engine bridge | `app/engine/ffi_engine.py` | the C engine's sessions and profiles | evaluate, serialize, tick, reload | C library |
| Reads | `GET` routes | none | lists, statistics | database |

What is hard here:

* **Stale rows.** A handler loads a row, works, and saves it. SQLAlchemy saves
  only the columns whose value changed from the one loaded, so two writers
  neither overwrite each other wholly nor see each other. Gate, override, reset,
  verify and logout do this to a session row; login, enrolment and
  administrators to a user row; updates to the thresholds.
* **Check, then act.** The blacklist, the pending flag, the failure counters,
  the validity of a TOTP code, the device of a login and the state of an alert
  are read at one moment and relied upon later.
* **Two stores, two commits.** Logout commits to PostgreSQL and then to Redis;
  a counter is incremented and then given an expiry; a threshold is changed and
  then audited; the engine has a new model before the registry does. A process
  may die in between, and Redis keeps nothing across a crash.
* **Waiting.** Row locks and a unique index make registrations wait for each
  other; the event loop, worker threads and connections wait for each other too;
  a broadcast waits for a slow client while the table it iterates over changes.
* **Time.** Token, blacklist key, verification, replay key, alert window and
  lockout all have lifetimes that must fit each other.

What makes each component correct, as the runs check it:

| Component | Properties |
|---|---|
| Gate | nothing but verification runs while a login MFA is pending; a revoked token is refused; every refusal is alerted; rows and logs stem from verdicts |
| Lockout | passwords tried before expiry are bounded; nothing keeps a lock up, and it ends |
| MFA | a code works once; wrong codes are bounded; a verification is not undone, and only one that overlaps another moves its time back; an enabled secret was confirmed |
| Logout | the token is refused and the session is not listed again |
| Thresholds | stored thresholds are ordered but for a merge of two updates, and audited; an answered change survives restarts |
| User administration | a deactivation is audited and no stale save takes it back |
| Alerts | the administrator an alert names has an audit row, and one alone |
| Registry | at most one active row, and it names the engine's model; registrations never block each other for good |
| Live feed | live listeners stay; an undisturbed broadcast reaches everybody; nobody gets a message twice; lost listeners leave |
| Profile, devices | what was learnt and saved stays in the profile while the engine can read it; a device counts no logins there were not |
| Connection pool | a request waits for a connection under load only and never while it has one; each is answered |
| A session's life | opened by its own verification or an open administrator's reset only; served while open; logged out and revoked for good |

## 2. Plan

In order of importance. 1 to 9 are done, with their runs and proofs.

| # | Module | Models | Result aimed at |
|---|---|---|---|
| 1 | `RiskGate` | the gate and the handlers that share the session row and the blacklist | MFA before service, MFA progress, revocation, traceability, alerts: proved |
| 2 | `Lockout` | the failed-login counter | bound on tries proved; a lock ends |
| 3 | `MfaVerify` | TOTP check, replay key, wrong-code counter | codes work once, bound on guesses: proved |
| 4 | `Thresholds` | threshold row, audit, process start | audit truthful, order unless merged, answers stand: proved |
| 5 | `ModelRegistry` with the abstract `Registry` | reload, retrain, trigger, unique index, migration | one active row; the refinement: proved |
| 6 | `Accounts` | users row, alert, profile and device through login, enrolment and administration | deactivation, acknowledgement, enrolment, profile, devices: proved |
| 7 | `LiveFeed` | connection table, endpoint, broadcasts | delivery without disturbance proved; broadcasts end |
| 8 | `ConnectionPool` with the abstract `Pool` | event loop, worker threads, connections, timeout | exhaustion by load only, the refinement: proved; everybody answered |
| 9 | `SessionLifecycle` | abstract session: issued, pending, open, closed, revoked | `RiskGate` refines it: proved |
| 10 | `RiskGate`, extended | the audit row of an override, the device and network hashes of the log | an override is audited with the scores it changed |

10 is one insert in an existing commit.

## 3. Modules and the code they model

`PROJECT.json` ("map") gives the lines of every definition. In each module some
operators are marked "Variant": mistakes the code could have made, used to
test that the properties notice them. Variables marked "history" are not in the
code; they record what happened for a property to speak of.

**`RiskGate`.** A request slot `r` goes through `pc[r]`: `idle`, then in the
gate `blacklist`, `load`, `score`, `enforce`, then `handler` and, for handlers
that write, `commit` and `revoke`; `blocked`, `step_up` and `restricted` are the
gate's refusals, which keep their verdict for a property to speak of. Each arrow
is one access to Redis or the database. `snap[r]` is the identity map of the
request's SQLAlchemy session (rows as loaded) and `Flush` is the UPDATE of the
dirty columns. `Dispatch` needs `LoopFree`: the coroutine does not await between
decoding the token and closing its database session, so at most one request is
inside the gate, while handlers interleave freely. `Evaluate` is one commit: the
row's score and decision, the log row, the alert if none of its type is recent;
an exception on the way to the alert is swallowed (`seen = "failed"`) and the
pass goes on without one. `began[r]` is when the gate's transaction began, which
is what `now()` stores in `alerts.created_at`, and later when a verification
loaded the row: the time it stamps, `now` in `VerifyCommit`, lies between that
and its commit. The path `list` stands for the GET routes of `/admin`, which a
restrict verdict refuses like the others. `Enforce` reads the row again because
the commit expired it. A verdict is any element of `Verdicts`: the engine is a C
library and its scoring is not in the repository. `exp` and `blacklist` are the
token's claim and the key's deadline; in the second of a Redis deadline the key
may be there or not (`MayHit`, `MayMiss`). `logout` records how far a logout
got; a restart of Redis turns "revoked" into "forgotten". `Abort` ends any
request between two steps.

**`SessionLifecycle`** is what the gate and the handlers of login, verification,
reset, override and logout promise together about a session, without rows,
copies and stores: its `stage` ("none", "pending", "open"), whether it is
`listed`, `closed` or `revoked`, and which requests its token has `admitted`
and is `serving`. A session is opened by its own verification or by a reset of
an administrator whose own session is open; only an open one is served; a closed
one is never listed again and lets nobody in once it is revoked, until its token
expires or Redis forgets it (`Lapse`). `RiskGate` implements it (`Life`): `stage`
is the committed row's `pending` flag, `listed` the filter of `GET
/admin/sessions`, `revoked` a logout that has set its key and whose token has
not expired, and the requests are those past the blacklist check (`Admitted`)
and those in a handler (`Running`). The gate's passes, overrides, expired
verifications and every load and save that changes no flag are stutters there.

**`Lockout`.** One account; `GET`, password check, `INCR`, `EXPIRE` are separate
steps of a login. `INCR` creates a key without expiry and `EXPIRE` on a missing
key does nothing, as in Redis. A login may die at any step (`Abort`); `lost`
records that one died between `INCR` and `EXPIRE` of the present key.

**`MfaVerify`.** One user; `CodeOf` maps time counters to digits and may
collide, as six digits do. `SET NX EX` is one step (`Claim` or `AlreadyUsed`).
`checkedAt` remembers when the code was checked, and `Tick` lets at most
`MaxStall` pass until the key is set: a bound on how long a worker thread and
Redis may take. The theorem states what that bound must be. A restart of Redis
forgets the keys, and `accepted` counts from there.

**`Thresholds`.** `Load`, `Commit`, `Audit` are the three database steps of an
update, and it may die between any two (`Abort`). `Reject` is the primary-key
violation when two updates insert the row. `Restart` is `load_thresholds`;
`RestartWithoutDb` its except branch. The histories record what was committed,
what was answered last, whether two updates were ever in flight at once, and
whether the newest commit found the row as its update had loaded it (`merged`).

**`ModelRegistry`, `Registry`.** A transaction is a reload (`reload_model`) or a
retrain (the ML pipeline's INSERT, seen only through the trigger and the index
that the migration installs for it). PostgreSQL is modelled at READ COMMITTED,
as far as the two statements need it: an UPDATE remembers the rows active when
it began (`seen`), takes the lock of each when it is free and looks at it again
(`LockRow`, `held`); the handler's UPDATE comes first, the trigger's when the row
is inserted; `Unique` and `Duplicate` are the partial unique index, which makes
an INSERT wait for every transaction that may still keep or add an active row.
`Migrate` keeps the newest active row. `Restart` ends the server's transactions
and leaves the pipeline's. `Registry` says what a reader may see: versions are
registered one after the other and the newest is the active one. The refinement
maps `known` to `rows` and `current` to the active row (before the migration, to
the newest of the active rows, which is the one that stays).

**`LiveFeed`.** `endpoint[c]` is the coroutine of `/ws/admin`, `link[c]` the
connection, `task[b]` one scheduled broadcast. A coroutine keeps the loop until
it waits, so `Idle` guards every step of the others; a broadcast waits only for
a client whose buffer is full. The table is CPython's dict: entries keep the
order of insertion, a removed one leaves a hole and an insertion may pack the
table (`Packed`). An iterator of CPython 3.12 (the `Dockerfile`'s) raises when
the number of entries is not what it was, or when one is left after it has
handed out as many as there were at its start (`left`, `Upset`, `Stumble`). So
where a client it has handed out leaves and another joins behind it, it raises
before it would hand out one client too many; a packed table may move clients
behind the iterator. `Crash` is any exception but `WebSocketDisconnect`: the
entry stays.

**`Accounts`.** A request loads a row and commits the columns it changed with
its audit row; login takes the blob into the engine, has it scored, takes the
profile out again, saves it with the session and then looks the device up and
counts it in a transaction of its own. A profile is the set of logins it was
learnt from. `engine[u]` is the profile in the engine's memory, which a restart
of the process empties; `Serialize` may fail and leave no bytes, and the engine
may refuse the stored blob, which the login ignores (`RestoreFails`): `learnt`
then drops the logins that the engine does not have in memory either, which are
lost once the profile is saved. The administrators who act are not among
`Users`, so the refusal to deactivate oneself never applies. `serial[u]`
holds the kinds of request to `u` that never overlapped a rival (a request that
works on the same columns); the properties that hold only without overlap are
stated with it.

**`ConnectionPool`.** A request's `pc` says whether its coroutine has the event
loop, a worker thread, or waits; `gate` and `route` are the requests whose
middleware (or feed) session and whose `get_db` session have a connection.
`get_admin_user` and the handler are two calls to worker threads, and the
connection the first takes is kept between them. `Part` and `PartClose` keep the
gate's (or feed's) connection over an await: the feed's `close`, and the answer
to a path that begins like a skipped one (`risk.py:88-90`). `GateTimeout` and
`Timeout` are the pool's timeout, possible only while no connection is free.
`Pool` is what the requests owe each other there: who asks has no connection,
one is granted while one is free, only a full pool sends anyone away.
`ConnectionPool` implements it (`Conns`) with `gate` and `route` together as the
holders and the requests in `Waiting` as those that wait; the commit of the gate
gives back and asks again in one step (`Release`).

The modules share no variables. `RiskGate` and `Accounts` both have
`/auth/mfa/verify`, reset and login: one the session row, the other the user row,
written in the same commit; no property relates the two rows.
`ConnectionPool` has the same control as `RiskGate`'s gate, with the database
accesses told apart by who holds what and not by what they do.

## 4. Runs

| Run | Shows | Instance |
|---|---|---|
| `mfa` | types; nothing but verify runs while MFA is pending; stale saves never undo a verification or revive a pending flag; `SessionLifecycle` is implemented (its logouts and expiries by the theorem) | a user's and an administrator's session, two requests: passes, verifications, resets |
| `sessions` | row and log stem from verdicts, overrides or logouts; the log is a chain; a logged-out session is never listed again; its token is refused until it expires or Redis loses its keys | passes, overrides and logouts of one session over the whole life of its token, Redis restarts |
| `alerts` | every refusal is alerted within the deduplication window, unless creating the alert failed; a verification's time moves back only where two verifications overlap | an administrator's session listing and verifying, two requests, all kinds of verdict at a score that calls for an alert, two ticks, windows of one |
| `lock` | tries are bounded; every step of a locked account brings it nearer to opening; a lock has an expiry, and ends, unless a login died between `INCR` and `EXPIRE` | three logins that may die anywhere, limit three |
| `mfa_codes` | a code is accepted once; wrong codes are bounded | two neighbouring codes, all moments of their windows, stalls of one step, Redis restarts |
| `thresholds` | audit rows name committed changes; the row is ordered unless the newest commit was merged into another's; until updates overlap it is what was answered | two updates, four bodies, deaths, restarts with and without the database |
| `registry` | at most one active row; a reload that has the registry to itself leaves the engine running the active version, whatever went before; `Registry` is implemented; the transactions never all wait for each other, and none waits for ever | three reloads, a retrain, two old rows of which any may be active, failures and restarts |
| `feed` | live listeners stay; undisturbed broadcasts reach everybody; nobody gets a message twice; broadcasts end and lost listeners leave | three clients, one of them slow, two broadcasts |
| `accounts` | deactivations stand and are audited; acknowledgement, enrolment, profile and device while rivals do not overlap | three requests of any kind to one account, failures of handlers and engine, restarts |
| `pool` | exhaustion only under load; `Pool` is implemented; everybody is answered | three requests, two connections, one worker thread, up to three transactions each |

The types of the modules not named here (`Lockout`, `Thresholds`, `LiveFeed`,
`Accounts`) are proved for every instance and no longer have a run.

Two runs must be found violated, each against sentences of the repository
(the quotations are in `PROJECT.json`, "findings"):

| Run | What happens |
|---|---|
| `stepup` | the gate answers `/auth/mfa/verify` itself with step-up or a block, so the documented way out of a step-up is closed |
| `redis_restart` | after a loss of Redis a logged-out token passes: the gate ignores the row's `logged_out` and `expires_at` |

Other disagreements were met while modelling, allowed by the models, and have no
run of their own:

* a login that dies between `INCR` and `EXPIRE` leaves a lock that never ends
  (`auth.py:52`, "Try again in 15 minutes"): the exception in `LockEnds`;
* updates (40,50) and (60,75) of the row (40,75) merge into (60,50)
  (`admin.py:383` asks for MFA below block): the "unless merged" of
  `OrderedUnlessMerged`;
* two overlapping verifications may commit the later time first and leave the
  earlier one, which ends sooner than "the next 15 minutes" (`auth.py:250-251`)
  after the later: `Overtakes` in `MfaProgress`;
* when the engine refuses the stored profile the login goes on
  (`auth.py:66-68`, the result of `ffi_engine.py:209-214` is not looked at), and
  after a restart it saves a profile without the earlier logins: `learnt` in
  `SerialProfile`;
* an update that dies between its two commits leaves a change without an audit
  row (`Technical_Note.md:274`, "every administrator action");
* a setup, force or reset that overlaps a verification enables a secret nobody
  confirmed, or MFA without a secret (`auth.py:239`, "only after first valid
  code"): the "while they do not overlap" of `SerialEnrolment`;
* a broadcast whose table changes while it waits may raise and skip the
  remaining clients (`websocket.py:25`, "ALL connected admin clients"): `calm`
  in `CalmReachesAll`.

**Bounds and why they are enough.** Clocks stop at `MaxClock`, chosen per run so
that every lifetime the property compares both holds and runs out; a run about
row contents that compares no times needs no tick: `mfa` has none, and what time
adds to `MfaProgress` is checked in `alerts`. Two request slots exhibit
every pairwise race of loads and saves, and each handler saves a row once;
`accounts` has three, so that a third save may fall on what two have left.
Scores are a few integers that only need to differ from each other, from the
override's score and around the alert limit. Times are scaled: what matters is
their order and their sums. In `registry` three transactions can form a cycle
of waits, and two old rows can be active together. In `feed` a slow client
makes a broadcast wait while two others change the table, in either order of
entries, and the second broadcast removes what the first still has in its list.
In `pool` there is one request more than connections and fewer threads than
either, so each can be what the others wait for. The real sizes (15 connections,
40 threads, five failures) enter the theorems, which hold for all values.

Requests are interchangeable in the safety runs of `RiskGate`, `MfaVerify`,
`Thresholds` and `Accounts`, hence the symmetry; runs that check liveness have
none. `CHECK_DEADLOCK FALSE` stands where requests are served once or a bounded
clock lets every session expire, so that the model comes to rest.

**Fairness.** Four modules have liveness properties, each under the weakest
fairness the code's scheduling gives.

* `Lockout`: time passes, and a login past the lock check proceeds, in a worker
  thread that nothing blocks for ever. New logins are not assumed: clients owe
  the server nothing. A login may still die instead of proceeding.
* `ModelRegistry`: a transaction that can take its next statement or lock does.
  Nothing is assumed of failures, restarts or new reloads, so `TransactionsEnd`
  says that the locks alone never block two transactions for good.
* `LiveFeed`: the event loop runs what is ready in turn (`Run`, `Leave`), and a
  connection that stays backed up drains or is ended by the server's keepalive.
  Joins and new broadcasts are not assumed, nor that lost connections are noticed
  by anything but the endpoint's own receive.
* `ConnectionPool`: a request that can take its next step takes one, in a thread
  or on the loop; where it waits for a connection, that step is to get one or to
  time out, as the pool's `pool_timeout` guarantees.

## 5. Proofs

Every theorem holds for all values of the constants that satisfy the named
assumptions of its module.

| Theorem | Statement | Extra assumption |
|---|---|---|
| `RiskGateProofs!TypeCorrect` | `Spec => []TypeOK` | |
| `RiskGateProofs!PendingSessionsWait` | `Spec => []MfaBeforeService` | |
| `RiskGateProofs!MfaNeverUndone` | `Spec => MfaProgress` | |
| `RiskGateProofs!LogoutRevokes` | `Spec => RevokedTokenRefused` | `JwtExpire <= BlacklistTtl` |
| `RiskGateProofs!OnlyRestartsForget` | `Spec => LogoutFinal` | `JwtExpire <= BlacklistTtl`, `~RedisMayRestart` |
| `RiskGateProofs!LifeImplemented` | `Spec => SessionsImplemented` | `JwtExpire <= BlacklistTtl` |
| `RiskGateProofs!RowsTraceable`, `TrailUnbroken` | `Spec => []RowTraceable`; `Spec => RiskTrailChained` | |
| `RiskGateProofs!LoggedOutStaysUnlisted` | `Spec => []LoggedOutNotListed` | |
| `RiskGateProofs!RefusalsAlerted` | `Spec => []RefusalAlerted` | |
| `LockoutProofs!TypeCorrect`, `TriesNeverExceed` | types; `Spec => []TriesBounded` | |
| `LockoutProofs!LocksHaveEnds`, `LocksWearOff` | `Spec => []LockHasEnd`; `Spec => LockWearsOff` | |
| `MfaVerifyProofs!TypeCorrect`, `GuessesNeverExceed` | types; `Spec => []GuessesBounded` | |
| `MfaVerifyProofs!CodesWorkOnce` | `Spec => []CodeUsedOnce` | `UsedTtl >= (2*Window+1)*Step + MaxStall` |
| `ThresholdsProofs!TypeCorrect`, `AuditNamesCommitted` | types; `Spec => []AuditTruthful` | |
| `ThresholdsProofs!UpdatesOrdered`, `AnswersStand` | `Spec => []OrderedUnlessMerged`; `Spec => []AnsweredKept` | |
| `ModelRegistryProofs!TypeCorrect`, `OneActiveRow` | types; `Spec => []ExactlyOneActive` | |
| `ModelRegistryProofs!EngineMatches` | `Spec => []EngineRegistered` | |
| `ModelRegistryProofs!RegistryRefined` | `Spec => RegistryImplemented` | |
| `ModelRegistryProofs!NoDeadlock`, `StepsRunOut` | `Spec => []NoneStuck`; a measure falls with every step of a transaction | |
| `LiveFeedProofs!TypeCorrect`, `LiveListenersStay` | types; `Spec => []ListenersStay` | |
| `LiveFeedProofs!CalmBroadcastsReachAll`, `NoClientTwice` | `Spec => CalmReachesAll`; `Spec => OncePerClient` | |
| `LiveFeedProofs!SleepsForOneClient`, `StepsRunOut` | who sleeps waits for one client, backed up or gone; a measure falls with every step of a broadcast | |
| `AccountsProofs!TypeCorrect`, `DeactivationStands` | types; `Spec => []InactiveAudited` | |
| `AccountsProofs!AcknowledgedOnce` | `Spec => []AcknowledgedAudited` | |
| `AccountsProofs!SerialEnrolmentConfirmed` | `Spec => []SerialEnrolment` | |
| `AccountsProofs!SerialProfileKept`, `DevicesCounted` | `Spec => []SerialProfile`; `Spec => []DeviceCounts` | |
| `ConnectionPoolProofs!TypeCorrect`, `OnlyLoadExhausts` | types; `Spec => []ExhaustedByLoad` | |
| `ConnectionPoolProofs!StepsRunOut` | a measure falls with every step of a request | |
| `ConnectionPoolProofs!PoolRefined` | `Spec => PoolImplemented` | |

The extra assumptions say something about deployment. `JwtExpire <=
BlacklistTtl`: the key lives 3600 seconds whatever `JWT_EXPIRE_MINUTES` is set
to, so a longer token lifetime breaks revocation. `~RedisMayRestart`: Redis keeps
its keys, which the deployment does not see to. The one on `UsedTtl`: with a
window of one 30-second step either side and a key of 120 seconds, a request may
stall for 30 seconds between checking a code and setting its key, and no longer.

The arguments:

* *MFA.* `MfaBeforeService` is not inductive: a stale save could raise the flag
  again. `MfaInv` adds that a row with the flag up was never verified, that this
  holds of every loaded copy too, and that a verification about to commit for a
  row whose flag is up has loaded the flag up (so that clearing it is a change
  that `Flush` writes). A verification in flight loaded no later time than the
  one it began at (`SnapsSound`), so a time it saves is earlier than the row's
  only if another verification has committed since. `RowsStep` and `ControlStep`
  reduce the actions to what they do to rows and to one request; the
  preservation proof uses only those.
* *Revocation.* `RevocationInv` bounds `exp` by `clock + JwtExpire` and the key's
  deadline from below by `exp`. The step past the check then needs a moment at
  which the key may be missing, which is not before `exp`.
* *Logout, for good.* Without a restart of Redis no logout is ever "forgotten",
  so revocation until expiry is all there is to `LogoutFinal`; the violated run
  and this theorem together say that the loss of Redis is the only way round it.
* *A session's life.* The refinement needs the invariants above and `LifeInv`:
  an administrator's request came with an administrator's token, a logout about
  to revoke has been committed, and a row that says logged out has expired. That
  a login lists its session needs `SessionLife > 0` (`auth.py:108`, 60 minutes).
  It is then one lemma per handler: `Flush` leaves `pending` alone unless the
  handler changes it (`FlushPending`), so only `VerifyCommit` and `ResetCommit`
  move a stage (`VerifyClears`, `ResetClears`), nothing lists a session but its
  login (`LiveStep`), and a request is moved between `admitted` and `serving` by
  the gate alone (`Leaves`, `Stays`).
* *Traceability.* Only one request is in the gate, so from its load to its commit
  the newest log row stays the one it started from; what it loaded is what that
  row, an override or a logout left (`TraceInv`). `EverySessionStep` says what a
  step may do to one session.
* *Listing.* A logout about to commit knows the row's expiry, or another logout
  has brought it forward already; nothing moves an expiry back (`ClosedInv`).
* *Alerts.* A request in the gate is no older than the alerts of its session, so
  raising one never dates an alert back (`BeganInv`). Once scored, its refusal is
  `Due` an alert, or none if creating it failed or the session was verified at
  that moment, and passes of other requests only raise more (`RefusalInv`).
* *Bounds on tries and guesses.* The counter plus the requests past the check
  is inductive as it stands: a check that passes starts below the limit, and a
  wrong answer moves one unit from the set to the counter.
* *Locks.* A counter without an expiry is one whose `EXPIRE` is still to come or
  was lost (`ExpiryInv`). While the account is locked no login passes the check,
  so the logins past it only grow fewer, each may renew the expiry once, and a
  tick shortens it: the pair of what is `Pending` and `ttl` falls.
* *Replay.* The clock stood in the counter's window when the code was checked
  and at most `MaxStall` ago; a key set for the counter lives until the window's
  first moment plus `UsedTtl` at least. `(2*Window+1)*Step` separates the two.
* *Thresholds.* A loaded row has not gone away, and an update about to write its
  audit row has committed. One that commits on the row it loaded stores its
  whole body, which `Valid` orders; any other commit is `merged` (`OrderStep`).
* *Registry.* A transaction admitted by the index holds every active row, so no
  other holds one and none is admitted beside it (`LockInv`): its commit leaves
  its own row as the only active one. That is `Registry`'s step, and every other
  step maps to a stutter. A reload that has the registry to itself since it
  loaded its model (`CalmInv`) commits that model; what went before is of no
  account.
* *No deadlock in the registry.* At most one row is active, so an UPDATE has one
  row at most left to look at, and locks belong to transactions in flight
  (`WaitInv`). Who holds the active row has nothing to wait for: no other lock
  is of use, and the index admits it. If nobody holds it, everybody's next lock
  is free, and the index rejects or admits at once.
* *The abstract pool.* A request has its connection from the gate or from its
  route and never both (`OneEach`), so the two sets count the holders, and a
  step that starts to wait starts from none.
* *Steps run out.* For a transaction twice the steps left plus the row it has to
  look at; for a request three per transaction, four per call to a thread and
  the steps in between; for a broadcast three per client it has not dealt with.
  Each own step lowers it and nobody else's raises it. With `NoDeadlock` this is
  what can be proved of `TransactionsEnd`: there is always a step, and there are
  finitely many; that the step is taken is fairness. Of `AllAnswered` it is the
  half that can be proved; that a request in want of a connection gets one or
  times out is the pool's timeout, and `NeverGivesUp` is the mutant that shows
  the cycle of requests without it.
* *Feed.* Entries before the iterator are exactly those it has written to or
  given up, and packing moves nobody back; what a broadcast removes is gone
  already (`LoopInv`), and an undisturbed one still sees the table it began with
  and has as many to hand out as are ahead (`CalmInv`, `LeftInv`).
* *Accounts.* `Effects` reduces the handlers to one save of the columns each
  works on; `Untouched` and `Touched` say what `Flush` makes of a column. A row
  loaded inactive is still inactive; and of two rivals in flight neither kind is
  serial (`SerialInv`), so a handler whose kind is serial saves on what it
  loaded; a login in flight that restored the blob owes it all that is `learnt`,
  and so does one that the engine refused (`Owed`). For devices, a login counts
  itself last: the count in a row, and the one about to be written, are at most
  the sessions whose login is past it (`DeviceInv`).
* *Pool.* A request has at most one connection and none while it waits
  (`Holders`); so a full pool and one that waits are more requests than the pool
  has connections.

Every safety property that a passing run checks is proved. Only model-checked:
liveness (`LockEnds`, `TransactionsEnd`, `BroadcastsEnd`, `LostListenersLeave`,
`AllAnswered`), since fairness and `ENABLED` are out of the prover's reach; what
the first three and the last rest on is proved, as said above. `CanAdvance`
spells out the guards of the steps because `ENABLED` cannot be reasoned about;
that a step with its guard true is then taken stays with TLC. Of the two
violated properties, `LogoutFinal` is proved where Redis keeps its keys.

## 6. Not modelled

* The engine's scoring: a C library without source; verdicts are arbitrary.
  `tick_loop`: what a tick does, and whether it can raise, is inside the engine.
* The audit row of an override, written in the override's own commit.
* Passwords, HMACs and signatures: a password or a code is right or wrong, a
  token decodes or not.
* Paging, sorting and statistics of the `GET` routes; `last_event_at`.
* `send_to`, which has no caller.
* The migrations other than `b8f2e3d5a1c4` (DDL, and a trigger that refuses
  changes no handler makes) and the deployment scripts, which run before the
  system does. The account that `seed_admin.py` creates is an initial state of
  `Accounts`.
* That `is_active` is read once, at login, and token and session of the feed
  once, at connect: the models have this behaviour, but no property speaks of
  it, since nothing in the code would ever look again.
* Paths that no route serves but the gate knows (`/export`, `/download`,
  `/password`).
