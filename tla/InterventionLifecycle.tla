----------------------- MODULE InterventionLifecycle ------------------------
(***************************************************************************)
(* What an intervention's status promises its readers: it appears pending, *)
(* a person accepts, rejects or lets it expire, an accepted one may be     *)
(* executed, and nothing leaves a terminal status.  Interventions.tla says *)
(* how the handlers implement it.                                          *)
(***************************************************************************)
EXTENDS DomainStatus

CONSTANT Ivs       \* intervention ids
VARIABLE status    \* status of each id, "none" before it is created

Create(i) ==
  /\ status[i] = "none"
  /\ status' = [status EXCEPT ![i] = "pending"]

Move(i, target) ==
  /\ status[i] # "none"
  /\ InterventionCanTransitionTo(status[i], target)
  /\ status' = [status EXCEPT ![i] = target]

Init == status = [i \in Ivs |-> "none"]
Next == \E i \in Ivs : Create(i) \/ \E t \in InterventionStatus : Move(i, t)
Spec == Init /\ [][Next]_status
=============================================================================
