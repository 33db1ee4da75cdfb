--------------------------- MODULE SessionLifecycle ---------------------------
(***************************************************************************)
(* What the gate and the handlers of login, verification, reset, override  *)
(* and logout promise about one session's life, whatever copies of its row *)
(* they hold: which sessions are open, who may open them, which are listed *)
(* as live and which tokens let a request in.                              *)
(***************************************************************************)
CONSTANTS
  Sessions, Requests,
  Admins             \* the sessions of administrators

VARIABLES
  stage,      \* stage[s]: "none", "pending" a login MFA, or "open"
  listed,     \* the sessions an administrator sees as live
  closed,     \* the sessions somebody logged out of
  revoked,    \* those of them whose token is refused
  admitted,   \* admitted[s]: the requests the token of s let in
  serving     \* serving[s]: the requests whose route runs for s

Vacant == [s \in Sessions |-> {}]

Init ==
  /\ stage = [s \in Sessions |-> "none"]
  /\ listed = {} /\ closed = {} /\ revoked = {}
  /\ admitted = Vacant /\ serving = Vacant

Login(s) ==
  /\ stage[s] = "none"
  /\ \E first \in {"pending", "open"} : stage' = [stage EXCEPT ![s] = first]
  /\ listed' = listed \cup {s}
  /\ UNCHANGED <<closed, revoked, admitted, serving>>

Admit(r, s) ==
  /\ stage[s] # "none" /\ s \notin revoked
  /\ \A u \in Sessions : r \notin admitted[u] \cup serving[u]
  /\ admitted' = [admitted EXCEPT ![s] = @ \cup {r}]
  /\ UNCHANGED <<stage, listed, closed, revoked, serving>>

\* Nothing but the verification is served to a session that is not open.
Serve(r, s) ==
  /\ r \in admitted[s] /\ stage[s] = "open"
  /\ admitted' = [admitted EXCEPT ![s] = @ \ {r}]
  /\ serving' = [serving EXCEPT ![s] = @ \cup {r}]
  /\ UNCHANGED <<stage, listed, closed, revoked>>

Leave(r) ==
  /\ admitted' = [s \in Sessions |-> admitted[s] \ {r}]
  /\ serving' = [s \in Sessions |-> serving[s] \ {r}]

Answer(r) ==
  /\ Leave(r)
  /\ UNCHANGED <<stage, listed, closed, revoked>>

\* A session is opened by its own verification ...
Verify(r, s) ==
  /\ r \in admitted[s] /\ stage[s] # "none"
  /\ stage' = [stage EXCEPT ![s] = "open"]
  /\ Leave(r)
  /\ UNCHANGED <<listed, closed, revoked>>

\* ... or by an administrator whose own session is open.
Reset(r, a, S) ==
  /\ a \in Admins /\ r \in serving[a]
  /\ \A s \in S : stage[s] = "pending"
  /\ stage' = [s \in Sessions |-> IF s \in S THEN "open" ELSE stage[s]]
  /\ Leave(r)
  /\ UNCHANGED <<listed, closed, revoked>>

Close(s) ==
  /\ stage[s] # "none"
  /\ closed' = closed \cup {s}
  /\ listed' = listed \ {s}
  /\ UNCHANGED <<stage, revoked, admitted, serving>>

Revoke(s) ==
  /\ s \in closed
  /\ revoked' = revoked \cup {s}
  /\ UNCHANGED <<stage, listed, closed, admitted, serving>>

\* Sessions and tokens expire; Redis may lose what was revoked.
Lapse ==
  /\ listed' \subseteq listed /\ revoked' \subseteq revoked
  /\ UNCHANGED <<stage, closed, admitted, serving>>

Next ==
  \/ Lapse
  \/ \E s \in Sessions : Login(s) \/ Close(s) \/ Revoke(s)
  \/ \E r \in Requests, s \in Sessions : Admit(r, s) \/ Serve(r, s) \/ Verify(r, s)
  \/ \E r \in Requests, a \in Sessions, S \in SUBSET Sessions : Reset(r, a, S)
  \/ \E r \in Requests : Answer(r)

vars == <<stage, listed, closed, revoked, admitted, serving>>
Spec == Init /\ [][Next]_vars
===============================================================================
