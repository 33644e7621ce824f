---------------------------- MODULE MCEvaluator -----------------------------
(* Instances of the evaluation pipeline for TLC.  Times are in ticks; the  *)
(* weights are those of DefaultConfig.                                     *)
EXTENDS Evaluator, TLC

CONSTANTS worker, request

WorkerAndRequest == {worker, request}

(* The request asks for one row or for all, the worker always for all.     *)
RequestLimits == (worker :> {0}) @@ (request :> {0, 1})

OnceEach == [r \in Runs |-> 1]
RequestOnce == (worker :> 0) @@ (request :> 1)

CommitmentSymmetry == Permutations(Commitments)
=============================================================================
