---------------------------- MODULE DomainStatus ----------------------------
(***************************************************************************)
(* The status edges of internal/domain: CanTransitionTo of each aggregate  *)
(* as a relation.  Every CanTransitionTo also accepts the current status.  *)
(***************************************************************************)

InterventionStatus == {"pending", "accepted", "rejected", "expired", "executed"}

(* Plausible bugs, for the mutation runs.                                  *)
InterventionCanTransitionTo_reopens(s, target) ==
  \/ s = target
  \/ s = "pending" /\ target \in {"accepted", "rejected", "expired"}
  \/ s = "accepted" /\ target = "executed"
  \/ s = "rejected" /\ target = "accepted"

InterventionCanTransitionTo_skips(s, target) ==
  \/ s = target
  \/ s = "pending"
  \/ s = "accepted" /\ target = "executed"

InterventionCanTransitionTo(s, target) ==
  \/ s = target
  \/ s = "pending" /\ target \in {"accepted", "rejected", "expired"}
  \/ s = "accepted" /\ target = "executed"
-----------------------------------------------------------------------------
CommitmentStatus == {"pending", "in_progress", "completed", "missed", "cancelled"}

CommitmentCanTransitionTo(s, target) ==
  \/ s = target
  \/ s = "pending" /\ target \in {"in_progress", "completed", "missed", "cancelled"}
  \/ s = "in_progress" /\ target \in {"completed", "missed", "cancelled"}

GoalStatus == {"open", "planned", "active", "completed", "cancelled"}

GoalCanTransitionTo(s, target) ==
  \/ s = target
  \/ s = "open" /\ target \in {"planned", "cancelled"}
  \/ s = "planned" /\ target \in {"active", "cancelled"}
  \/ s = "active" /\ target \in {"completed", "cancelled"}

TaskStatus ==
  {"pending", "assigned", "running", "blocked", "completed", "failed", "cancelled"}

TaskCanTransitionTo(s, target) ==
  \/ s = target
  \/ s = "pending" /\ target \in {"assigned", "blocked", "cancelled"}
  \/ s = "assigned" /\ target \in {"running", "blocked", "cancelled", "pending"}
  \/ s = "running" /\ target \in {"completed", "failed", "blocked", "cancelled"}
  \/ s = "blocked" /\ target \in {"pending", "assigned", "cancelled"}
=============================================================================
