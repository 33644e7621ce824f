CONSTANTS
  Procs = {p1, p2, p3}
  NoProc = NoProc
  Backends <- Both
  Last = 2
  Repeatable <- RepeatableFiles
SPECIFICATION FairSpec
INVARIANTS SchemaComplete NoReplay PostgresStarts
PROPERTY OpenReturns
