--------------------------- MODULE MfaVerifyProofs ----------------------------
(***************************************************************************)
(* Theorems about MfaVerify, for any number of requests, any codes that    *)
(* collide or not, and any window, step and lifetimes.                     *)
(***************************************************************************)
EXTENDS MfaVerify, FiniteSetTheorems, TLAPS

USE DEF Never

\* Multiplication by the length of a step distributes.
LEMMA StepArithmetic ==
  ASSUME NEW c \in Int, NEW w \in Nat, NEW n \in Nat
  PROVE  /\ (c - w) * n \in Int
         /\ (c + w + 1) * n \in Int
         /\ (c + w + 1) * n = (c - w) * n + (2 * w + 1) * n
<1>1. (c + w + 1) * n = c * n + w * n + n
  OBVIOUS
<1>2. (c - w) * n = c * n - w * n
  OBVIOUS
<1>3. (2 * w + 1) * n = 2 * (w * n) + n
  OBVIOUS
<1> QED
  BY <1>1, <1>2, <1>3

\* A counter the check accepts has its window around the current time.
LEMMA AcceptedWindow ==
  ASSUME clock \in Nat, NEW c \in Accepted, c \in Nat
  PROVE  /\ (c - Window) * Step <= clock
         /\ clock < (c + Window + 1) * Step
<1> DEFINE q == clock \div Step
<1>1. Step \in Nat /\ Step > 0 /\ Window \in Nat
  BY TimesAssumption
<1>2. q \in Nat /\ q * Step <= clock /\ clock < (q + 1) * Step
  BY <1>1
<1>3. c - Window <= q /\ q + 1 <= c + Window + 1
  BY <1>1, <1>2 DEF Accepted, Current
<1> HIDE DEF q
<1>4. (c - Window) * Step <= q * Step
  BY <1>1, <1>2, <1>3
<1>5. (q + 1) * Step <= (c + Window + 1) * Step
  BY <1>1, <1>2, <1>3
<1>6. /\ (c - Window) * Step \in Int /\ q * Step \in Int
      /\ (q + 1) * Step \in Int /\ (c + Window + 1) * Step \in Int
  BY <1>1, <1>2
<1> QED
  BY <1>2, <1>4, <1>5, <1>6

-----------------------------------------------------------------------------
(* Types                                                                   *)

\* What TypeOK says of a request that has matched a counter: its code was
\* checked while the clock stood in that counter's window.
Claiming(r) ==
  /\ counter[r] \in Counters /\ checkedAt[r] \in Nat
  /\ (counter[r] - Window) * Step <= checkedAt[r]
  /\ checkedAt[r] < (counter[r] + Window + 1) * Step

\* A request that ends leaves typed fields behind and claims no counter.
LEMMA DoneType ==
  ASSUME TypeOK, NEW r \in Requests, Done(r)
  PROVE  /\ pc' \in [Requests -> Steps]
         /\ code' \in [Requests -> Codes]
         /\ counter' \in [Requests -> Counters \cup {Never}]
         /\ checkedAt' \in [Requests -> Nat \cup {Never}]
         /\ \A q \in Requests : pc'[q] = "claim" => Claiming(q)'
<1>1. NoCode \in Codes
  BY CodesAssumption DEF NoCode
<1> QED
  BY <1>1 DEF TypeOK, Done, Goto, Claiming, Steps

\* A request that moves to a step other than "claim" and keeps its fields
\* leaves the types and the other requests' claims as they were.
LEMMA GotoType ==
  ASSUME TypeOK, NEW r \in Requests, NEW step \in Steps \ {"claim"}, Goto(r, step),
         UNCHANGED <<counter, checkedAt>>
  PROVE  /\ pc' \in [Requests -> Steps]
         /\ \A q \in Requests : pc'[q] = "claim" => Claiming(q)'
BY DEF TypeOK, Goto, Claiming

\* Every step keeps the types.
LEMMA TypeStep == TypeOK /\ [Next]_vars => TypeOK'
<1> SUFFICES ASSUME TypeOK, [Next]_vars PROVE TypeOK'
  OBVIOUS
<1>1. ASSUME NEW r \in Requests, NEW k \in Codes, Submit(r, k) PROVE TypeOK'
  <2>1. "code" \in Steps \ {"claim"}
    BY DEF Steps
  <2> QED
    BY <1>1, <2>1, GotoType DEF Submit, TypeOK, Claiming
<1>2. ASSUME NEW r \in Requests, WrongCode(r) PROVE TypeOK'
  <2>1. "expire" \in Steps \ {"claim"}
    BY DEF Steps
  <2> QED
    BY <1>2, <2>1, GotoType DEF WrongCode, TypeOK, Claiming
<1>3. ASSUME NEW r \in Requests, SetExpiry(r) PROVE TypeOK'
  BY <1>3, DoneType, TimesAssumption DEF SetExpiry, TypeOK, Claiming
<1>4. ASSUME NEW r \in Requests, RightCode(r) PROVE TypeOK'
  <2>1. PICK c \in Latest(Matching(code[r])) : counter' = [counter EXCEPT ![r] = c]
    BY <1>4 DEF RightCode
  <2>2. c \in Counters /\ c \in Accepted /\ c \in Nat
    BY CodesAssumption DEF Latest, Matching
  <2>3. (c - Window) * Step <= clock /\ clock < (c + Window + 1) * Step
    BY <2>2, AcceptedWindow DEF TypeOK
  <2>4. checkedAt' = [checkedAt EXCEPT ![r] = clock] /\ pc' = [pc EXCEPT ![r] = "claim"]
    BY <1>4 DEF RightCode, Goto
  <2>5. Claiming(r)'
    BY <2>1, <2>2, <2>3, <2>4 DEF TypeOK, Claiming
  <2>6. ASSUME NEW q \in Requests, q # r, pc'[q] = "claim" PROVE Claiming(q)'
    BY <2>1, <2>4, <2>6 DEF TypeOK, Claiming
  <2> QED
    BY <1>4, <2>1, <2>2, <2>4, <2>5, <2>6 DEF RightCode, TypeOK, Claiming, Steps
<1>5. ASSUME NEW r \in Requests, Claim(r) PROVE TypeOK'
  <2>1. "clear" \in Steps \ {"claim"}
    BY DEF Steps
  <2>2. used' \in [Counters -> Nat \cup {Never}] /\ accepted' \in [Counters -> 0 .. 2]
    BY <1>5, TimesAssumption DEF Claim, TypeOK, KeyTtl
  <2> QED
    BY <1>5, <2>1, <2>2, GotoType DEF Claim, TypeOK, Claiming
<1>6. ASSUME NEW r \in Requests, AlreadyUsed(r) PROVE TypeOK'
  BY <1>6, DoneType DEF AlreadyUsed, TypeOK, Claiming
<1>7. ASSUME NEW r \in Requests, ClearFails(r) PROVE TypeOK'
  <2>1. "commit" \in Steps \ {"claim"}
    BY DEF Steps
  <2> QED
    BY <1>7, <2>1, GotoType DEF ClearFails, TypeOK, Claiming
<1>8. ASSUME NEW r \in Requests, Commit(r) PROVE TypeOK'
  BY <1>8, DoneType DEF Commit, TypeOK, Claiming
<1>9. ASSUME NEW r \in Requests, Abort(r) PROVE TypeOK'
  BY <1>9, DoneType DEF Abort, TypeOK, Claiming
<1>10. CASE Tick
  BY <1>10 DEF Tick, TypeOK
<1>11. CASE RedisRestart
  BY <1>11 DEF RedisRestart, TypeOK
<1>12. CASE UNCHANGED vars
  BY <1>12 DEF vars, TypeOK
<1> QED
  BY <1>1, <1>2, <1>3, <1>4, <1>5, <1>6, <1>7, <1>8, <1>9, <1>10, <1>11, <1>12 DEF Next

\* In every reachable state the variables have their types, and a request
\* about to claim a counter had its code checked inside that counter's window.
THEOREM TypeCorrect == Spec => []TypeOK
<1>1. Init => TypeOK
  <2>1. Window \in Nat /\ Step \in Nat
    BY TimesAssumption
  <2>2. Window * Step \in Nat
    BY ONLY <2>1
  <2>3. NoCode \in Codes
    BY CodesAssumption DEF NoCode
  <2> SUFFICES ASSUME Init PROVE TypeOK
    OBVIOUS
  <2>4. clock \in Nat
    BY <2>2 DEF Init
  <2>5. pc \in [Requests -> Steps] /\ \A r \in Requests : pc[r] # "claim"
    BY DEF Init, Steps
  <2>6. /\ used \in [Counters -> Nat \cup {Never}]
        /\ fails \in Nat /\ failTtl \in Nat \cup {Never}
        /\ code \in [Requests -> Codes]
        /\ counter \in [Requests -> Counters \cup {Never}]
        /\ checkedAt \in [Requests -> Nat \cup {Never}]
        /\ enabled \in BOOLEAN
        /\ accepted \in [Counters -> 0 .. 2]
    <3>1. /\ fails = 0 /\ failTtl = Never /\ enabled = FALSE
          /\ used = [c \in Counters |-> Never]
          /\ code = [r \in Requests |-> NoCode]
          /\ counter = [r \in Requests |-> Never]
          /\ checkedAt = [r \in Requests |-> Never]
          /\ accepted = [c \in Counters |-> 0]
      BY DEF Init
    <3>2. fails \in Nat /\ failTtl \in Nat \cup {Never} /\ enabled \in BOOLEAN
      BY <3>1
    <3>3. code \in [Requests -> Codes]
      BY <2>3, <3>1
    <3>4. used \in [Counters -> Nat \cup {Never}] /\ accepted \in [Counters -> 0 .. 2]
      BY <3>1
    <3>5. /\ counter \in [Requests -> Counters \cup {Never}]
          /\ checkedAt \in [Requests -> Nat \cup {Never}]
      BY <3>1
    <3> QED
      BY <3>2, <3>3, <3>4, <3>5
  <2>7. \A r \in Requests : pc[r] = "claim" => Claiming(r)
    BY <2>5
  <2> QED
    BY <2>4, <2>5, <2>6, <2>7, Zenon DEF TypeOK, Claiming
<1> QED
  BY <1>1, TypeStep, PTL DEF Spec

-----------------------------------------------------------------------------
(* Replay                                                                  *)

\* A request that is about to claim its counter does so within MaxStall of
\* the check, and the key of an accepted counter outlives the counter's last
\* moment by that much.
OnTime(r) == pc[r] = "claim" => checkedAt[r] <= clock /\ clock <= checkedAt[r] + MaxStall
KeyKept(c) ==
  /\ accepted[c] <= 1
  /\ accepted[c] = 1 => (c - Window) * Step + UsedTtl <= used[c]
ReplayInv == (\A r \in Requests : OnTime(r)) /\ (\A c \in Counters : KeyKept(c))

\* Every step keeps ReplayInv, if the key's lifetime covers the window and
\* the stall.
LEMMA ReplayStep ==
  ASSUME UsedTtl >= (2 * Window + 1) * Step + MaxStall
  PROVE  TypeOK /\ ReplayInv /\ [Next]_vars => ReplayInv'
<1> SUFFICES ASSUME TypeOK, ReplayInv, [Next]_vars PROVE ReplayInv'
  OBVIOUS
<1> USE TimesAssumption
<1>1. ASSUME NEW r \in Requests, Done(r), UNCHANGED clock
      PROVE  \A q \in Requests : OnTime(q)'
  BY <1>1 DEF Done, Goto, TypeOK, ReplayInv, OnTime
<1>2. ASSUME NEW r \in Requests, NEW step \in Steps \ {"claim"}, Goto(r, step),
             UNCHANGED <<clock, checkedAt>>
      PROVE  \A q \in Requests : OnTime(q)'
  BY <1>2 DEF Goto, TypeOK, ReplayInv, OnTime
<1>3. ASSUME UNCHANGED <<used, accepted>> PROVE \A c \in Counters : KeyKept(c)'
  BY <1>3 DEF ReplayInv, KeyKept
<1>4. {"code", "expire", "clear", "commit"} \subseteq Steps \ {"claim"}
  BY DEF Steps
<1>5. ASSUME NEW r \in Requests, NEW k \in Codes, Submit(r, k) PROVE ReplayInv'
  BY <1>2, <1>3, <1>4, <1>5 DEF Submit, ReplayInv
<1>6. ASSUME NEW r \in Requests, WrongCode(r) PROVE ReplayInv'
  BY <1>2, <1>3, <1>4, <1>6 DEF WrongCode, ReplayInv
<1>7. ASSUME NEW r \in Requests, RightCode(r) PROVE ReplayInv'
  <2>1. \A q \in Requests : OnTime(q)'
    BY <1>7 DEF RightCode, Goto, TypeOK, ReplayInv, OnTime
  <2> QED
    BY <1>3, <1>7, <2>1 DEF RightCode, ReplayInv
<1>8. ASSUME NEW r \in Requests, Claim(r) PROVE ReplayInv'
  <2>0. PICK c \in Counters : c = counter[r]
    BY <1>8 DEF Claim, TypeOK
  <2>1. /\ c \in Counters /\ c \in Nat /\ checkedAt[r] \in Nat
        /\ (c - Window) * Step <= checkedAt[r]
        /\ checkedAt[r] < (c + Window + 1) * Step
        /\ checkedAt[r] <= clock /\ clock <= checkedAt[r] + MaxStall
    BY <1>8, <2>0, CodesAssumption DEF Claim, TypeOK, ReplayInv, OnTime
  <2>2. /\ (c - Window) * Step \in Int /\ (c + Window + 1) * Step \in Int
        /\ (c + Window + 1) * Step = (c - Window) * Step + (2 * Window + 1) * Step
    <3>1. c \in Int /\ Window \in Nat /\ Step \in Nat
      BY <2>1
    <3> QED
      BY ONLY <3>1, StepArithmetic
  <2>3. /\ clock \in Nat /\ used[c] \in Int /\ accepted[c] \in 0 .. 2
        /\ (2 * Window + 1) * Step \in Int
    BY <2>1 DEF TypeOK
  <2>4. /\ clock >= used[c]
        /\ used' = [used EXCEPT ![c] = clock + UsedTtl]
        /\ accepted' = [accepted EXCEPT ![c] = IF @ = 0 THEN 1 ELSE 2]
        /\ Goto(r, "clear") /\ UNCHANGED <<clock, checkedAt>>
    BY <1>8, <2>0 DEF Claim, KeyTtl
  <2>5. accepted[c] <= 1 /\ (accepted[c] = 1 => (c - Window) * Step + UsedTtl <= used[c])
    BY <2>1 DEF ReplayInv, KeyKept
  <2>6. accepted[c] = 0
    <3> DEFINE lo == (c - Window) * Step
               hi == (c + Window + 1) * Step
               width == (2 * Window + 1) * Step
    <3>1. /\ lo \in Int /\ hi \in Int /\ width \in Int /\ hi = lo + width
          /\ checkedAt[r] < hi /\ UsedTtl >= width + MaxStall
          /\ accepted[c] = 1 => lo + UsedTtl <= used[c]
      BY <2>1, <2>2, <2>3, <2>5
    <3> HIDE DEF lo, hi, width
    <3> QED
      BY <2>1, <2>3, <2>4, <2>5, <3>1
  <2>7. KeyKept(c)'
    <3>1. accepted'[c] = 1 /\ used'[c] = clock + UsedTtl
      BY <2>1, <2>4, <2>6 DEF TypeOK
    <3>2. (c - Window) * Step + UsedTtl <= clock + UsedTtl
      BY <2>1, <2>2, <2>3
    <3> QED
      BY <3>1, <3>2 DEF KeyKept
  <2>8. ASSUME NEW d \in Counters, d # c PROVE KeyKept(d)'
    BY <2>4, <2>8 DEF TypeOK, ReplayInv, KeyKept
  <2> QED
    BY <1>2, <1>4, <2>4, <2>7, <2>8 DEF ReplayInv
<1>9. ASSUME NEW r \in Requests, ClearFails(r) PROVE ReplayInv'
  BY <1>2, <1>3, <1>4, <1>9 DEF ClearFails, ReplayInv
<1>10. ASSUME NEW r \in Requests, SetExpiry(r) \/ AlreadyUsed(r) \/ Commit(r) \/ Abort(r)
       PROVE  ReplayInv'
  BY <1>1, <1>3, <1>10 DEF SetExpiry, AlreadyUsed, Commit, Abort, ReplayInv
<1>11. CASE Tick
  <2>1. \A q \in Requests : OnTime(q)'
    BY <1>11 DEF Tick, TypeOK, ReplayInv, OnTime
  <2> QED
    BY <1>3, <1>11, <2>1 DEF Tick, ReplayInv
<1>12. CASE RedisRestart
  BY <1>12 DEF RedisRestart, ReplayInv, OnTime, KeyKept
<1>13. CASE UNCHANGED vars
  BY <1>13 DEF vars, ReplayInv, OnTime, KeyKept
<1> QED
  BY <1>5, <1>6, <1>7, <1>8, <1>9, <1>10, <1>11, <1>12, <1>13 DEF Next

\* No code is accepted twice without a loss of Redis in between, provided
\* the lifetime of the keys covers the window a code is accepted in and the
\* longest stall between checking the code and setting the key.
THEOREM CodesWorkOnce ==
  ASSUME UsedTtl >= (2 * Window + 1) * Step + MaxStall
  PROVE  Spec => []CodeUsedOnce
<1>1. Init => ReplayInv
  BY CodesAssumption DEF Init, ReplayInv, OnTime, KeyKept
<1>2. TypeOK /\ ReplayInv /\ [Next]_vars => ReplayInv'
  BY ReplayStep
<1>3. ReplayInv => CodeUsedOnce
  BY DEF ReplayInv, KeyKept, CodeUsedOnce
<1> QED
  BY <1>1, <1>2, <1>3, TypeCorrect, PTL DEF Spec

-----------------------------------------------------------------------------
(* Wrong codes                                                             *)

\* A set of requests is finite and no larger than the set of all requests.
LEMMA SomeRequests ==
  ASSUME NEW S \in SUBSET Requests
  PROVE  /\ IsFiniteSet(S)
         /\ Cardinality(S) \in Nat /\ Cardinality(Requests) \in Nat
         /\ Cardinality(S) <= Cardinality(Requests)
BY RequestsAssumption, FS_Subset, FS_CardinalityType

\* Every step keeps the bound on wrong codes.
LEMMA GuessesStep == TypeOK /\ GuessesBounded /\ [Next]_vars => GuessesBounded'
<1> SUFFICES ASSUME TypeOK, GuessesBounded, [Next]_vars PROVE GuessesBounded'
  OBVIOUS
<1> DEFINE n == Cardinality(Guessing)
           N == Cardinality(Requests)
<1>0. /\ n \in Nat /\ N \in Nat /\ IsFiniteSet(Guessing)
      /\ Cardinality(Guessing') \in Nat /\ Cardinality(Guessing') <= N
      /\ fails \in Nat /\ MaxFails \in Nat /\ fails + n <= MaxFails - 1 + N
  <2>1. Guessing \in SUBSET Requests /\ Guessing' \in SUBSET Requests
    BY DEF Guessing
  <2> QED
    BY <2>1, SomeRequests, TimesAssumption DEF TypeOK, GuessesBounded
<1>1. ASSUME Guessing' \subseteq Guessing, fails' \in Nat, fails' <= fails
      PROVE  GuessesBounded'
  <2>1. Cardinality(Guessing') <= n
    BY <1>0, <1>1, FS_Subset
  <2> QED
    BY <1>0, <1>1, <2>1 DEF GuessesBounded
<1>2. ASSUME NEW r \in Requests, NEW k \in Codes, Submit(r, k) PROVE GuessesBounded'
  <2>1. fails' = fails /\ fails <= MaxFails - 1
    BY <1>0, <1>2 DEF Submit, AtLimit
  <2> QED
    BY <1>0, <2>1 DEF GuessesBounded
<1>3. ASSUME NEW r \in Requests, WrongCode(r) PROVE GuessesBounded'
  <2>1. r \in Guessing /\ Guessing' = Guessing \ {r} /\ fails' = fails + 1
    BY <1>3 DEF WrongCode, Goto, Guessing, TypeOK
  <2>2. Cardinality(Guessing') = n - 1
    BY <1>0, <2>1, FS_RemoveElement
  <2> QED
    BY <1>0, <2>1, <2>2 DEF GuessesBounded
<1>4. ASSUME NEW r \in Requests, NEW step \in Steps \ {"code"}, Goto(r, step)
      PROVE  Guessing' \subseteq Guessing
  BY <1>4 DEF Goto, Guessing, TypeOK
<1>5. {"claim", "clear", "commit", "idle"} \subseteq Steps \ {"code"}
  BY DEF Steps
<1>6. ASSUME NEW r \in Requests,
             RightCode(r) \/ Claim(r) \/ ClearFails(r) \/ SetExpiry(r)
               \/ AlreadyUsed(r) \/ Commit(r) \/ Abort(r)
      PROVE  GuessesBounded'
  <2>1. \E step \in Steps \ {"code"} : Goto(r, step)
    BY <1>5, <1>6 DEF RightCode, Claim, ClearFails, SetExpiry, AlreadyUsed, Commit, Abort, Done
  <2>2. fails' \in {fails, 0}
    BY <1>6 DEF RightCode, Claim, ClearFails, SetExpiry, AlreadyUsed, Commit, Abort
  <2> QED
    BY <1>0, <1>1, <1>4, <2>1, <2>2
<1>7. CASE Tick \/ RedisRestart \/ UNCHANGED vars
  <2>1. pc' = pc /\ fails' \in {fails, 0}
    BY <1>7 DEF Tick, RedisRestart, vars
  <2>2. Guessing' = Guessing
    BY <2>1 DEF Guessing
  <2> QED
    BY <1>0, <1>1, <2>1, <2>2
<1> QED
  BY <1>2, <1>3, <1>6, <1>7 DEF Next

\* However the requests overlap, the wrong codes tried exceed the limit by at
\* most the requests in flight, less one.
THEOREM GuessesNeverExceed == Spec => []GuessesBounded
<1>1. Init => GuessesBounded
  <2> SUFFICES ASSUME Init PROVE GuessesBounded
    OBVIOUS
  <2>1. Guessing = {} /\ fails = 0
    BY DEF Init, Guessing
  <2>2. Cardinality(Requests) \in Nat /\ Cardinality(Requests) # 0
    BY SomeRequests, RequestsAssumption, FS_EmptySet
  <2> QED
    BY <2>1, <2>2, FS_EmptySet, TimesAssumption DEF GuessesBounded
<1> QED
  BY <1>1, GuessesStep, TypeCorrect, PTL DEF Spec
=============================================================================
