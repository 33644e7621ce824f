CONSTANTS
  Callers = {c1, c2}
  MaxFailures = 2
  Timeout = 1
  MaxRequests = 1
  FailureCap = 2
SPECIFICATION FairSpec
PROPERTY AutoReset
