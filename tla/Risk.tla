-------------------------------- MODULE Risk --------------------------------
(***************************************************************************)
(* The two pure engines of an evaluation: the risk score of a commitment   *)
(* (internal/risk/engine.go) and the intervention policy                   *)
(* (internal/intervention/engine.go).  Scores and weights are counted in   *)
(* ten-thousandths, confidences and the confidence weight in hundredths,   *)
(* so that confidence times weight is exact.  A due time of 0 is nil.      *)
(***************************************************************************)
EXTENDS Integers

CONSTANTS
  OverdueWeight, DueSoonWeight, DueSoonWindow, ConfidenceWeight, SignalWeight,
  NudgeThreshold, EscalateThreshold, AutomationConfidence

ASSUME EngineConfig ==
  /\ OverdueWeight \in Int /\ DueSoonWeight \in Int /\ DueSoonWindow \in Nat
  /\ ConfidenceWeight \in Int /\ SignalWeight \in Int
  /\ NudgeThreshold \in Int /\ EscalateThreshold \in Int
  /\ AutomationConfidence \in Int

One == 10000
Scores == 0..One
Clamp(x) == IF x > One THEN One ELSE IF x < 0 THEN 0 ELSE x

DraftTypes == {"nudge", "automation", "escalation"}

(* The due-time factor: past due, due within the window, or neither.       *)
DueFactor_windowFirst(due, now) ==
  IF due = 0 THEN 0
  ELSE IF due - now <= DueSoonWindow THEN DueSoonWeight
  ELSE IF now > due THEN OverdueWeight
  ELSE 0

DueFactor(due, now) ==
  IF due = 0 THEN 0
  ELSE IF now > due THEN OverdueWeight
  ELSE IF due - now <= DueSoonWindow THEN DueSoonWeight
  ELSE 0

(* EvaluateCommitment's Score; signals says whether Chronos returned any,  *)
(* since any number of them counts once.                                   *)
EvaluateCommitment(due, confidence, signals, now) ==
  Clamp(DueFactor(due, now)
        + (IF confidence > 0 THEN confidence * ConfidenceWeight ELSE 0)
        + (IF signals THEN SignalWeight ELSE 0))

(* MaybeIntervene: the types of the drafts the policy returns, none below  *)
(* the nudge threshold.                                                    *)
MaybeIntervene(score, confidence) ==
  IF score < NudgeThreshold THEN {}
  ELSE IF score >= EscalateThreshold THEN {"escalation"}
  ELSE IF confidence >= AutomationConfidence THEN {"automation"}
  ELSE {"nudge"}
=============================================================================
