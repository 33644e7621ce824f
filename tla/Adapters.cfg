CONSTANTS
  Callers = {c1, c2}
  MaxFailures = 5
  Timeout = 2
  MaxRequests = 1
  FailureCap = 5
  SuggestedKey = 0
SPECIFICATION AdaptersSpec
INVARIANTS TypeOK ProbeBudget NoCallInsideTimeout ClosedBelowThreshold SomeoneDecides RefusalIsNoOutage PerformedOnce
PROPERTIES StateOrder
