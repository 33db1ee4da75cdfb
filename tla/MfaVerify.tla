------------------------------ MODULE MfaVerify -------------------------------
(***************************************************************************)
(* POST /auth/mfa/verify (app/routes/auth.py, mfa_verify) for one user:    *)
(* the TOTP check of app/core/totp.py, the replay protection by a          *)
(* totp_used:<user>:<counter> key, and the count of wrong codes.           *)
(*                                                                         *)
(* Handlers run in worker threads and interleave between any two Redis     *)
(* commands; the code is checked against the clock before the key is set.  *)
(***************************************************************************)
EXTENDS Integers, FiniteSets

CONSTANTS
  Requests,        \* slots for concurrent requests of the user
  Counters,        \* time counters (30-second steps since the epoch)
  Codes, CodeOf,   \* CodeOf[c]: the six digits of counter c; they may collide
  Window,          \* steps accepted either side of the current one: 1
  Step,            \* STEP in ticks
  UsedTtl,         \* lifetime of a totp_used key in ticks: 120 s
  MaxStall,        \* longest time between checking a code and setting the key
  MaxFails,        \* MFA_MAX_FAILS
  FailTtl,         \* MFA_FAIL_TTL in ticks
  MaxClock         \* bound on the clock (model checking only)

ASSUME RequestsAssumption == IsFiniteSet(Requests) /\ Requests # {}
ASSUME CodesAssumption    == Codes # {} /\ Counters \subseteq Nat /\ CodeOf \in [Counters -> Codes]
ASSUME TimesAssumption    ==
  /\ {Window, UsedTtl, MaxStall, MaxClock} \subseteq Nat
  /\ {Step, MaxFails, FailTtl} \subseteq Nat \ {0}

Never  == -1
NoCode == CHOOSE k \in Codes : TRUE

VARIABLES
  clock,      \* ticks
  used,       \* used[c]: when the key of counter c expires, or Never
  fails,      \* the mfa_fail:<user> counter; 0 when the key does not exist
  failTtl,    \* ticks until that key expires, or Never
  pc,         \* pc[r]: the next step of request r
  code,       \* code[r]: the digits it carries
  counter,    \* counter[r]: the counter they matched
  checkedAt,  \* checkedAt[r]: when they matched
  enabled,    \* users.mfa_enabled
  accepted    \* history: acceptances of counter c's code since Redis last
              \* lost its keys (2: more than one)

vars == <<clock, used, fails, failTtl, pc, code, counter, checkedAt, enabled, accepted>>

Steps == {"idle", "code", "expire", "claim", "clear", "commit"}

Init ==
  /\ clock = Window * Step
  /\ used = [c \in Counters |-> Never]
  /\ fails = 0 /\ failTtl = Never
  /\ pc = [r \in Requests |-> "idle"]
  /\ code = [r \in Requests |-> NoCode]
  /\ counter = [r \in Requests |-> Never]
  /\ checkedAt = [r \in Requests |-> Never]
  /\ enabled = FALSE
  /\ accepted = [c \in Counters |-> 0]

-----------------------------------------------------------------------------
(* totp.verify_totp                                                        *)

Current == clock \div Step

\* Variant: one step more after the current one.
WideWindow == Current - Window .. Current + Window + 1
Accepted   == Current - Window .. Current + Window

Matching(k) == {c \in Counters \cap Accepted : CodeOf[c] = k}

\* The loop does not stop at the first match, so the latest counter wins.
Latest(C) == {c \in C : \A d \in C : d <= c}

-----------------------------------------------------------------------------
(* mfa_verify                                                              *)

Goto(r, step) == pc' = [pc EXCEPT ![r] = step]
Done(r)       == /\ Goto(r, "idle")
                 /\ code' = [code EXCEPT ![r] = NoCode]
                 /\ counter' = [counter EXCEPT ![r] = Never]
                 /\ checkedAt' = [checkedAt EXCEPT ![r] = Never]

\* GET mfa_fail; at the limit the answer is 429.
\* Variant: the limit is reached one wrong code late.
AtLimitLate == fails > MaxFails
AtLimit     == fails >= MaxFails

Submit(r, k) ==
  /\ pc[r] = "idle"
  /\ ~AtLimit
  /\ code' = [code EXCEPT ![r] = k]
  /\ Goto(r, "code")
  /\ UNCHANGED <<clock, used, fails, failTtl, counter, checkedAt, enabled, accepted>>

WrongCode(r) ==
  /\ pc[r] = "code"
  /\ Matching(code[r]) = {}
  /\ fails' = fails + 1
  /\ Goto(r, "expire")
  /\ UNCHANGED <<clock, used, failTtl, code, counter, checkedAt, enabled, accepted>>

SetExpiry(r) ==
  /\ pc[r] = "expire"
  /\ failTtl' = IF fails > 0 THEN FailTtl ELSE failTtl
  /\ Done(r)
  /\ UNCHANGED <<clock, used, fails, enabled, accepted>>

RightCode(r) ==
  /\ pc[r] = "code"
  /\ \E c \in Latest(Matching(code[r])) : counter' = [counter EXCEPT ![r] = c]
  /\ checkedAt' = [checkedAt EXCEPT ![r] = clock]
  /\ Goto(r, "claim")
  /\ UNCHANGED <<clock, used, fails, failTtl, code, enabled, accepted>>

\* SET totp_used NX EX 120: only one request can set the key.
\* Variant: the key lives as long as one step.
OneStep == Step
KeyTtl  == UsedTtl

Claim(r) ==
  LET c == counter[r] IN
  /\ pc[r] = "claim"
  /\ clock >= used[c]
  /\ used' = [used EXCEPT ![c] = clock + KeyTtl]
  /\ accepted' = [accepted EXCEPT ![c] = IF @ = 0 THEN 1 ELSE 2]
  /\ Goto(r, "clear")
  /\ UNCHANGED <<clock, fails, failTtl, code, counter, checkedAt, enabled>>

AlreadyUsed(r) ==
  /\ pc[r] = "claim"
  /\ clock < used[counter[r]]
  /\ Done(r)
  /\ UNCHANGED <<clock, used, fails, failTtl, enabled, accepted>>

ClearFails(r) ==
  /\ pc[r] = "clear"
  /\ fails' = 0 /\ failTtl' = Never
  /\ Goto(r, "commit")
  /\ UNCHANGED <<clock, used, code, counter, checkedAt, enabled, accepted>>

\* The session's row is module RiskGate's; the first code enables MFA.
Commit(r) ==
  /\ pc[r] = "commit"
  /\ enabled' = TRUE
  /\ Done(r)
  /\ UNCHANGED <<clock, used, fails, failTtl, accepted>>

-----------------------------------------------------------------------------
Abort(r) ==
  /\ pc[r] # "idle"
  /\ Done(r)
  /\ UNCHANGED <<clock, used, fails, failTtl, enabled, accepted>>

\* Time passes, but no request lets more than MaxStall go by between the
\* check of its code and the key.
Tick ==
  /\ clock < MaxClock
  /\ \A r \in Requests : pc[r] = "claim" => clock < checkedAt[r] + MaxStall
  /\ clock' = clock + 1
  /\ failTtl' = IF failTtl \in {Never, 1} THEN Never ELSE failTtl - 1
  /\ fails'   = IF failTtl = 1 THEN 0 ELSE fails
  /\ UNCHANGED <<used, pc, code, counter, checkedAt, enabled, accepted>>

\* Redis loses its keys; a request between its check and its key goes on.
RedisRestart ==
  /\ used' = [c \in Counters |-> Never]
  /\ accepted' = [c \in Counters |-> 0]
  /\ fails' = 0 /\ failTtl' = Never
  /\ UNCHANGED <<clock, pc, code, counter, checkedAt, enabled>>

Next ==
  \/ \E r \in Requests, k \in Codes : Submit(r, k)
  \/ \E r \in Requests :
       \/ WrongCode(r) \/ SetExpiry(r) \/ RightCode(r) \/ Claim(r) \/ AlreadyUsed(r)
       \/ ClearFails(r) \/ Commit(r) \/ Abort(r)
  \/ Tick
  \/ RedisRestart

Spec == Init /\ [][Next]_vars

-----------------------------------------------------------------------------
(* Properties                                                              *)

\* Every variable has its type, and the counter a request carries was within
\* the window when its code was checked.
TypeOK ==
  /\ clock \in Nat
  /\ used \in [Counters -> Nat \cup {Never}]
  /\ fails \in Nat
  /\ failTtl \in Nat \cup {Never}
  /\ pc \in [Requests -> Steps]
  /\ code \in [Requests -> Codes]
  /\ counter \in [Requests -> Counters \cup {Never}]
  /\ checkedAt \in [Requests -> Nat \cup {Never}]
  /\ enabled \in BOOLEAN
  /\ accepted \in [Counters -> 0 .. 2]
  /\ \A r \in Requests : pc[r] = "claim" =>
       /\ counter[r] \in Counters /\ checkedAt[r] \in Nat
       /\ (counter[r] - Window) * Step <= checkedAt[r]
       /\ checkedAt[r] < (counter[r] + Window + 1) * Step

\* Technical_Note.md:167: each code works once, whichever requests carry it
\* and however long they stand between checking it and setting its key,
\* unless Redis loses its keys in between.
CodeUsedOnce == \A c \in Counters : accepted[c] <= 1

\* The wrong codes tried before the count expires or is cleared exceed the
\* limit by at most the requests in flight, less one.
Guessing == {r \in Requests : pc[r] = "code"}
GuessesBounded == fails + Cardinality(Guessing) <= MaxFails - 1 + Cardinality(Requests)
=============================================================================
