-------------------------- MODULE MCInterventions ---------------------------
(* Instances of the intervention handlers for TLC.  Ids and handlers are   *)
(* interchangeable.                                                        *)
EXTENDS Interventions, TLC

Requested == InterventionStatus \cup {"bogus"}
Symmetry == Permutations(Ivs) \cup Permutations(Handlers)
=============================================================================
