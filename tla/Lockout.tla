------------------------------- MODULE Lockout --------------------------------
(***************************************************************************)
(* The failed-login counter of one account (app/routes/auth.py, login).    *)
(*                                                                         *)
(* The counter is a Redis key.  A login reads it, checks the password and, *)
(* on a wrong password, increments it and sets its expiry in two further   *)
(* commands; logins run in worker threads and interleave between all four. *)
(***************************************************************************)
EXTENDS Integers, FiniteSets

CONSTANTS
  Logins,      \* slots for concurrent logins of the account
  MaxFails,    \* 5
  FailTtl      \* 900 seconds, in ticks

ASSUME LoginsAssumption == IsFiniteSet(Logins) /\ Logins # {}
ASSUME LimitsAssumption == /\ MaxFails \in Nat \ {0}
                           /\ FailTtl \in Nat \ {0}

NoExpiry == -1

VARIABLES
  count,   \* the counter; 0 when the key does not exist
  ttl,     \* ticks until the key expires, or NoExpiry
  pc,      \* pc[l]: the next step of login l
  seen,    \* seen[l]: the number of failures l read and tells the engine
  lost     \* history: a login died between INCR and EXPIRE of this key

vars == <<count, ttl, pc, seen, lost>>

Steps == {"idle", "password", "expire", "engine"}

Goto(l, step) == pc' = [pc EXCEPT ![l] = step]

Init ==
  /\ count = 0
  /\ ttl = NoExpiry
  /\ pc = [l \in Logins |-> "idle"]
  /\ seen = [l \in Logins |-> 0]
  /\ lost = FALSE

\* GET failed:<email>; at the limit the answer is 429 and nothing changes.
\* Variant: the fifth failure does not lock yet.
LockedLate == count > MaxFails
Locked     == count >= MaxFails

CheckLock(l) ==
  /\ pc[l] = "idle"
  /\ ~Locked
  /\ seen' = [seen EXCEPT ![l] = count]
  /\ Goto(l, "password")
  /\ UNCHANGED <<count, ttl, lost>>

\* INCR keeps the expiry of an existing key and creates a key without one.
WrongPassword(l) ==
  /\ pc[l] = "password"
  /\ count' = count + 1
  /\ Goto(l, "expire")
  /\ UNCHANGED <<ttl, seen, lost>>

\* EXPIRE does nothing when the key is gone.
\* Variant: only the failure that created the key sets its expiry.
SetExpiryOfFirst(l) ==
  /\ pc[l] = "expire"
  /\ ttl' = IF count = 1 THEN FailTtl ELSE ttl
  /\ Goto(l, "idle")
  /\ seen' = [seen EXCEPT ![l] = 0]
  /\ UNCHANGED <<count, lost>>
SetExpiry(l) ==
  /\ pc[l] = "expire"
  /\ ttl' = IF count > 0 THEN FailTtl ELSE ttl
  /\ Goto(l, "idle")
  /\ seen' = [seen EXCEPT ![l] = 0]
  /\ UNCHANGED <<count, lost>>

\* The right password of an active account goes on to the engine; that of a
\* deactivated one is refused.  The counter stays as it is.
RightPassword(l) ==
  /\ pc[l] = "password"
  /\ \/ Goto(l, "engine") /\ UNCHANGED seen
     \/ Goto(l, "idle") /\ seen' = [seen EXCEPT ![l] = 0]
  /\ UNCHANGED <<count, ttl, lost>>

Answer(l) ==
  /\ pc[l] = "engine"
  /\ Goto(l, "idle")
  /\ seen' = [seen EXCEPT ![l] = 0]
  /\ UNCHANGED <<count, ttl, lost>>

\* A login may die at any step, also between INCR and EXPIRE.
Abort(l) ==
  /\ pc[l] # "idle"
  /\ Goto(l, "idle")
  /\ seen' = [seen EXCEPT ![l] = 0]
  /\ lost' = (lost \/ (pc[l] = "expire" /\ count > 0))
  /\ UNCHANGED <<count, ttl>>

\* Time passes; Redis drops the key when its expiry is over.
Tick ==
  /\ ttl # NoExpiry
  /\ IF ttl = 1 THEN count' = 0 /\ ttl' = NoExpiry /\ lost' = FALSE
                ELSE count' = count /\ ttl' = ttl - 1 /\ lost' = lost
  /\ UNCHANGED <<pc, seen>>

Step(l) == CheckLock(l) \/ WrongPassword(l) \/ RightPassword(l) \/ SetExpiry(l) \/ Answer(l)

Next == Tick \/ \E l \in Logins : Step(l) \/ Abort(l)

\* Time passes, and a login that checked the lock goes on to its end.
Fairness ==
  /\ WF_vars(Tick)
  /\ \A l \in Logins : WF_vars(pc[l] # "idle" /\ Step(l))

Spec     == Init /\ [][Next]_vars
FairSpec == Spec /\ Fairness

-----------------------------------------------------------------------------
(* Properties                                                              *)

\* Every variable has its type, and the engine is told of fewer failures
\* than lock the account.
TypeOK ==
  /\ count \in Nat
  /\ ttl \in Nat \cup {NoExpiry}
  /\ pc \in [Logins -> Steps]
  /\ seen \in [Logins -> 0 .. MaxFails - 1]
  /\ lost \in BOOLEAN

\* However the logins overlap, the passwords tried before the counter
\* expires exceed the limit by at most the logins in flight, less one: the
\* counted ones and those past the check that still may be counted.
Trying == {l \in Logins : pc[l] = "password"}
TriesBounded == count + Cardinality(Trying) <= MaxFails - 1 + Cardinality(Logins)

\* A lock without an expiry, from which only hand work would free the account,
\* is the wake of a login that died between its two commands; in any other
\* case a login is about to set the expiry.
LockHasEnd ==
  Locked /\ ttl = NoExpiry => lost \/ \E l \in Logins : pc[l] = "expire"

\* While the account is locked every step brings it nearer to opening: a login
\* in flight may renew the expiry, once, and a new one cannot.
Acting  == {l \in Logins : pc[l] \in {"expire", "engine"}}
Pending == 2 * Cardinality(Trying) + Cardinality(Acting)
LockWearsOff ==
  [][count >= MaxFails =>
       Pending' < Pending \/ (Pending' = Pending /\ ttl' < ttl)]_vars

\* auth.py:52, "Try again in 15 minutes": an account that is locked opens
\* again although nobody does anything about it, whatever logins die where,
\* unless one died between INCR and EXPIRE and left a key without an expiry.
LockEnds == Locked ~> ~Locked \/ (lost /\ ttl = NoExpiry)
=============================================================================
