---------------------------- MODULE LockoutProofs -----------------------------
(***************************************************************************)
(* Theorems about Lockout, for any number of concurrent logins, any limit  *)
(* and any expiry.                                                         *)
(***************************************************************************)
EXTENDS Lockout, FiniteSetTheorems, TLAPS

\* Every variable keeps its type; the number of failures the engine is told
\* of stays below the limit.
THEOREM TypeCorrect == Spec => []TypeOK
<1> USE LimitsAssumption DEF TypeOK, Steps, NoExpiry
<1>1. Init => TypeOK
  <2> SUFFICES ASSUME Init PROVE TypeOK
    OBVIOUS
  <2>1. lost \in BOOLEAN
    BY Zenon DEF Init
  <2>2. /\ count \in Nat /\ ttl \in Nat \cup {NoExpiry}
        /\ pc \in [Logins -> Steps] /\ seen \in [Logins -> 0 .. MaxFails - 1]
    BY DEF Init
  <2> QED
    BY <2>1, <2>2
<1>2. TypeOK /\ [Next]_vars => TypeOK'
  <2> SUFFICES ASSUME TypeOK, [Next]_vars PROVE TypeOK'
    OBVIOUS
  <2>1. ASSUME NEW l \in Logins, CheckLock(l) PROVE TypeOK'
    BY <2>1 DEF CheckLock, Goto, Locked
  <2>2. ASSUME NEW l \in Logins, WrongPassword(l) PROVE TypeOK'
    BY <2>2 DEF WrongPassword, Goto
  <2>3. ASSUME NEW l \in Logins, RightPassword(l) PROVE TypeOK'
    BY <2>3 DEF RightPassword, Goto
  <2>4. ASSUME NEW l \in Logins, SetExpiry(l) PROVE TypeOK'
    BY <2>4 DEF SetExpiry, Goto
  <2>5. ASSUME NEW l \in Logins, Answer(l) \/ Abort(l) PROVE TypeOK'
    <3>1. lost' \in BOOLEAN
      BY <2>5 DEF Answer, Abort
    <3>2. pc' \in [Logins -> Steps] /\ seen' \in [Logins -> 0 .. MaxFails - 1]
          /\ UNCHANGED <<count, ttl>>
      BY <2>5 DEF Answer, Abort, Goto
    <3> QED
      BY <3>1, <3>2
  <2>6. CASE Tick
    <3>1. lost' \in BOOLEAN
      BY <2>6 DEF Tick
    <3>2. count' \in Nat /\ ttl' \in Nat \cup {NoExpiry} /\ UNCHANGED <<pc, seen>>
      BY <2>6 DEF Tick
    <3> QED
      BY <3>1, <3>2
  <2>7. CASE UNCHANGED vars
    BY <2>7 DEF vars
  <2> QED
    BY <2>1, <2>2, <2>3, <2>4, <2>5, <2>6, <2>7 DEF Next, Step
<1> QED
  BY <1>1, <1>2, PTL DEF Spec

\* The logins past the check are some of the finitely many logins.
LEMMA TryingFinite ==
  /\ IsFiniteSet(Trying)
  /\ Cardinality(Trying) \in Nat
  /\ Cardinality(Logins) \in Nat
  /\ Cardinality(Trying) <= Cardinality(Logins)
<1>1. Trying \subseteq Logins
  BY DEF Trying
<1>2. IsFiniteSet(Trying) /\ Cardinality(Trying) <= Cardinality(Logins)
  BY <1>1, LoginsAssumption, FS_Subset
<1> QED
  BY <1>2, LoginsAssumption, FS_CardinalityType

\* The passwords compared before the counter expires exceed the limit by at
\* most the number of concurrent logins, less one.
THEOREM TriesNeverExceed == Spec => []TriesBounded
<1>1. Init => TriesBounded
  <2> SUFFICES ASSUME Init PROVE TriesBounded
    OBVIOUS
  <2>1. Trying = {}
    BY DEF Init, Trying
  <2>2. Cardinality(Logins) \in Nat /\ Cardinality(Logins) # 0
    BY TryingFinite, LoginsAssumption, FS_EmptySet
  <2> QED
    BY <2>1, <2>2, FS_EmptySet, LimitsAssumption DEF Init, TriesBounded
<1>2. TypeOK /\ TriesBounded /\ [Next]_vars => TriesBounded'
  <2> SUFFICES ASSUME TypeOK, TriesBounded, [Next]_vars PROVE TriesBounded'
    OBVIOUS
  <2> DEFINE n == Cardinality(Trying)
             N == Cardinality(Logins)
  <2>0. /\ n \in Nat /\ N \in Nat /\ n <= N /\ IsFiniteSet(Trying)
        /\ Cardinality(Trying') \in Nat /\ Cardinality(Trying') <= N
        /\ count \in Nat /\ MaxFails \in Nat /\ count + n <= MaxFails - 1 + N
    <3>1. Trying' \subseteq Logins
      BY DEF Trying
    <3>2. IsFiniteSet(Trying') /\ Cardinality(Trying') <= N
      BY <3>1, LoginsAssumption, FS_Subset
    <3>3. Cardinality(Trying') \in Nat
      BY <3>2, FS_CardinalityType
    <3> QED
      BY <3>2, <3>3, TryingFinite, LimitsAssumption DEF TypeOK, TriesBounded
  <2>1. ASSUME NEW l \in Logins, CheckLock(l) PROVE TriesBounded'
    <3>1. count' = count /\ count <= MaxFails - 1
      BY <2>0, <2>1 DEF CheckLock, Locked
    <3> QED
      BY <2>0, <3>1 DEF TriesBounded
  <2>2. ASSUME NEW l \in Logins, WrongPassword(l) PROVE TriesBounded'
    <3>1. l \in Trying /\ Trying' = Trying \ {l} /\ count' = count + 1
      BY <2>2 DEF WrongPassword, Goto, Trying, TypeOK
    <3>2. Cardinality(Trying') = n - 1
      BY <2>0, <3>1, FS_RemoveElement
    <3> QED
      BY <2>0, <3>1, <3>2 DEF TriesBounded
  <2>3. ASSUME NEW l \in Logins, pc' = [pc EXCEPT ![l] = pc'[l]], pc'[l] # "password",
               count' <= count, count' \in Nat
        PROVE  TriesBounded'
    <3>1. Trying' \subseteq Trying
      BY <2>3 DEF Trying, TypeOK
    <3>2. Cardinality(Trying') <= n
      BY <2>0, <3>1, FS_Subset
    <3> QED
      BY <2>0, <2>3, <3>2 DEF TriesBounded
  <2>4. ASSUME NEW l \in Logins,
               RightPassword(l) \/ SetExpiry(l) \/ Answer(l) \/ Abort(l)
        PROVE  TriesBounded'
    <3>1. pc' = [pc EXCEPT ![l] = pc'[l]] /\ pc'[l] # "password" /\ count' = count
      BY <2>4 DEF RightPassword, SetExpiry, Answer, Abort, Goto, TypeOK
    <3> QED
      BY <2>0, <2>3, <3>1
  <2>5. CASE Tick \/ UNCHANGED vars
    <3>1. Trying' = Trying /\ count' \in Nat /\ count' <= count
      BY <2>0, <2>5 DEF Tick, vars, Trying
    <3> QED
      BY <2>0, <3>1 DEF TriesBounded
  <2> QED
    BY <2>1, <2>2, <2>4, <2>5 DEF Next, Step
<1> QED
  BY <1>1, <1>2, TypeCorrect, PTL DEF Spec

\* What LockHasEnd rests on: it holds of every counter, not only of one that
\* locks, and an expiry that is over has removed the key.
ExpiryInv ==
  /\ ttl # 0
  /\ count > 0 /\ ttl = NoExpiry => lost \/ \E l \in Logins : pc[l] = "expire"

\* A login other than the one that steps is where it was.
LEMMA OthersStay ==
  ASSUME TypeOK, NEW l \in Logins, Step(l) \/ Abort(l), NEW o \in Logins \ {l}
  PROVE  pc'[o] = pc[o]
BY DEF TypeOK, Step, Abort, CheckLock, WrongPassword, RightPassword, SetExpiry,
       Answer, Goto

\* A lock is left without an expiry only by a login that died between INCR and
\* EXPIRE.
THEOREM LocksHaveEnds == Spec => []LockHasEnd
<1> USE LimitsAssumption DEF NoExpiry
<1>1. Init => ExpiryInv
  BY DEF Init, ExpiryInv
<1>2. TypeOK /\ ExpiryInv /\ [Next]_vars => ExpiryInv'
  <2> SUFFICES ASSUME TypeOK, ExpiryInv, [Next]_vars PROVE ExpiryInv'
    OBVIOUS
  <2> USE DEF TypeOK, ExpiryInv
  <2>1. ASSUME NEW l \in Logins, CheckLock(l) \/ RightPassword(l) \/ Answer(l)
        PROVE  ExpiryInv'
    <3>1. /\ UNCHANGED <<count, ttl>> /\ lost' = lost /\ pc[l] # "expire"
          /\ \A o \in Logins \ {l} : pc'[o] = pc[o]
      BY <2>1, OthersStay DEF Step, CheckLock, RightPassword, Answer
    <3> QED
      BY <3>1
  <2>2. ASSUME NEW l \in Logins, WrongPassword(l) PROVE ExpiryInv'
    BY <2>2 DEF WrongPassword, Goto
  <2>3. ASSUME NEW l \in Logins, SetExpiry(l) PROVE ExpiryInv'
    BY <2>3 DEF SetExpiry
  <2>4. ASSUME NEW l \in Logins, Abort(l) PROVE ExpiryInv'
    <3>1. \A o \in Logins \ {l} : pc'[o] = pc[o]
      BY <2>4, OthersStay
    <3>2. count' = count /\ ttl' = ttl /\ lost' = (lost \/ (pc[l] = "expire" /\ count > 0))
      BY <2>4 DEF Abort
    <3>3. CASE pc[l] = "expire" /\ count > 0
      BY <3>2, <3>3
    <3>4. CASE ~(pc[l] = "expire" /\ count > 0)
      BY <3>1, <3>2, <3>4
    <3> QED
      BY <3>3, <3>4
  <2>5. CASE Tick
    BY <2>5 DEF Tick
  <2>6. CASE UNCHANGED vars
    BY <2>6 DEF vars
  <2> QED
    BY <2>1, <2>2, <2>3, <2>4, <2>5, <2>6 DEF Next, Step
<1>3. TypeOK /\ ExpiryInv => LockHasEnd
  BY DEF TypeOK, ExpiryInv, LockHasEnd, Locked
<1> QED
  BY <1>1, <1>2, <1>3, TypeCorrect, PTL DEF Spec

-----------------------------------------------------------------------------
(* A lock cannot be kept up: logins refused at the check do not touch the  *)
(* counter, and those past it are only so many.                            *)

\* A set of logins that loses one login has one less.
LEMMA OneLess ==
  ASSUME NEW S \in SUBSET Logins, NEW l \in S
  PROVE  /\ Cardinality(S) \in Nat
         /\ Cardinality(S \ {l}) = Cardinality(S) - 1
BY LoginsAssumption, FS_Subset, FS_RemoveElement, FS_CardinalityType

\* A set of logins that gains one login has one more.
LEMMA OneMore ==
  ASSUME NEW S \in SUBSET Logins, NEW l \in Logins \ S
  PROVE  /\ Cardinality(S) \in Nat
         /\ Cardinality(S \cup {l}) = Cardinality(S) + 1
BY LoginsAssumption, FS_Subset, FS_AddElement, FS_CardinalityType

\* A step of a login past the check leaves less to do.
LEMMA PendingShrinks ==
  ASSUME TypeOK, NEW l \in Logins, Step(l) \/ Abort(l), ~CheckLock(l)
  PROVE  Pending' < Pending
<1>1. /\ Trying \in SUBSET Logins /\ Acting \in SUBSET Logins
      /\ IsFiniteSet(Trying) /\ IsFiniteSet(Acting)
      /\ Cardinality(Trying) \in Nat /\ Cardinality(Acting) \in Nat
  <2>1. Trying \subseteq Logins /\ Acting \subseteq Logins
    BY DEF Trying, Acting
  <2> QED
    BY <2>1, LoginsAssumption, FS_Subset, FS_CardinalityType
<1>2. /\ l \in Trying => l \notin Acting
      /\ \A o \in Logins \ {l} : pc'[o] = pc[o]
  BY OthersStay DEF Trying, Acting
<1>3. \/ l \in Trying /\ pc'[l] \in {"expire", "engine"}
      \/ l \in Trying /\ pc'[l] = "idle"
      \/ l \in Acting /\ pc'[l] = "idle"
  BY DEF TypeOK, Steps, Trying, Acting, Step, Abort, WrongPassword, RightPassword,
         SetExpiry, Answer, Goto
<1>4. CASE l \in Trying /\ pc'[l] \in {"expire", "engine"}
  <2>1. Trying' = Trying \ {l} /\ Acting' = Acting \cup {l}
    BY <1>2, <1>4 DEF Trying, Acting
  <2> QED
    BY <1>1, <1>2, <1>4, <2>1, OneLess, OneMore DEF Pending
<1>5. CASE l \in Trying /\ pc'[l] = "idle"
  <2>1. Trying' = Trying \ {l} /\ Acting' = Acting
    BY <1>2, <1>5 DEF Trying, Acting
  <2> QED
    BY <1>1, <1>5, <2>1, OneLess DEF Pending
<1>6. CASE l \in Acting /\ pc'[l] = "idle"
  <2>1. Trying' = Trying /\ Acting' = Acting \ {l}
    BY <1>2, <1>6 DEF Trying, Acting
  <2> QED
    BY <1>1, <1>6, <2>1, OneLess DEF Pending
<1> QED
  BY <1>3, <1>4, <1>5, <1>6

\* While the account is locked every step brings it nearer to opening.
THEOREM LocksWearOff == Spec => LockWearsOff
<1>1. TypeOK /\ [Next]_vars =>
        [count >= MaxFails =>
           Pending' < Pending \/ (Pending' = Pending /\ ttl' < ttl)]_vars
  <2> SUFFICES ASSUME TypeOK, Next, count >= MaxFails
               PROVE  Pending' < Pending \/ (Pending' = Pending /\ ttl' < ttl)
    BY DEF vars
  <2>1. ASSUME NEW l \in Logins, Step(l) \/ Abort(l)
        PROVE  Pending' < Pending
    <3>1. ~CheckLock(l)
      BY DEF CheckLock, Locked
    <3> QED
      BY <2>1, <3>1, PendingShrinks
  <2>2. CASE Tick
    <3>1. Pending' = Pending
      BY <2>2 DEF Tick, Pending, Trying, Acting
    <3> QED
      BY <2>2, <3>1 DEF Tick, TypeOK, NoExpiry
  <2> QED
    BY <2>1, <2>2 DEF Next
<1> QED
  BY <1>1, TypeCorrect, PTL DEF Spec, LockWearsOff
=============================================================================
