------------------------------- MODULE Registry -------------------------------
(***************************************************************************)
(* What the model registry promises (Technical_Note.md, "One active        *)
(* model"): versions are registered one after the other, and the newest    *)
(* registered one is the only active one.                                  *)
(***************************************************************************)
CONSTANTS Versions, None

VARIABLES
  known,     \* the versions in the registry
  current    \* the active one, or None

Init ==
  /\ known \in SUBSET Versions
  /\ current \in known \cup {None}

Register(v) ==
  /\ v \notin known
  /\ known' = known \cup {v}
  /\ current' = v

Next == \E v \in Versions : Register(v)

Spec == Init /\ [][Next]_<<known, current>>
===============================================================================
