CONSTANTS
  Callers = {main}
  Main = main
  Visits = 1
  MaxReqs = 1
SPECIFICATION ProcessSpec
PROPERTY DrainIsBounded
CHECK_DEADLOCK FALSE
