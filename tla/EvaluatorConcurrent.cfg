CONSTANTS
  OverdueWeight = 6000
  DueSoonWeight = 3000
  DueSoonWindow = 1
  ConfidenceWeight = 20
  SignalWeight = 1500
  NudgeThreshold = 5000
  EscalateThreshold = 8500
  AutomationConfidence = 95
  worker = worker
  request = request
  Commitments = {c1, c2}
  Runs <- WorkerAndRequest
  Limits <- RequestLimits
  Quota <- OnceEach
  Cancellable <- WorkerAndRequest
  Dues = {1}
  Confidences = {50}
  Signals = {FALSE, TRUE}
  MaxTime = 2
SYMMETRY CommitmentSymmetry
SPECIFICATION Spec
INVARIANTS TypeOK ScoreExplained InterventionExplained
PROPERTY NoRowSkipped
