CONSTANTS
  Procs = {p1}
  NoProc = NoProc
  Backends <- OnlySQLite
  Last = 2
  Repeatable <- RepeatableFiles
SPECIFICATION Spec
INVARIANT RepeatedStartups
