CONSTANTS
  Callers = {main, c1, c2}
  Main = main
  Visits = 2
  MaxReqs = 1
SPECIFICATION ProcessSpec
INVARIANTS TypeOK StoppedIsQuiet OneLateWrite StoreOutlivesWorker Drained
PROPERTIES StopReturns ShutdownEnds
CHECK_DEADLOCK FALSE
