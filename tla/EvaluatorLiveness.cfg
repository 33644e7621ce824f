CONSTANTS
  OverdueWeight = 6000
  DueSoonWeight = 3000
  DueSoonWindow = 1
  ConfidenceWeight = 20
  SignalWeight = 1500
  NudgeThreshold = 5000
  EscalateThreshold = 8500
  AutomationConfidence = 95
  worker = worker
  request = request
  Commitments = {c1}
  Runs <- WorkerAndRequest
  Limits <- RequestLimits
  Quota <- RequestOnce
  Cancellable = {request}
  Dues = {1}
  Confidences = {100}
  Signals = {FALSE}
  MaxTime = 2
SPECIFICATION FairSpec
PROPERTY OverdueNoticed
