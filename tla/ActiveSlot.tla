------------------------------ MODULE ActiveSlot ------------------------------
(***************************************************************************)
(* What a project promises about its active sprint: there is one place for *)
(* it.  A sprint takes the place only when it is empty, and the place is   *)
(* emptied before another sprint takes it.  SprintLifecycle implements     *)
(* this with holders <- the sprints whose status is 'active'.              *)
(***************************************************************************)
CONSTANT Sprint
VARIABLE holders

Init == holders = {}

Take(s) == holders = {} /\ holders' = {s}
Leave == holders # {} /\ holders' = {}

Next == (\E s \in Sprint : Take(s)) \/ Leave

Spec == Init /\ [][Next]_holders
=============================================================================
