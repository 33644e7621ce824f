CONSTANTS
  Ivs = {i1, i2}
  Handlers = {h1}
  Targets = {"accepted", "executed", "bogus"}
  MaxTime = 2
  Cs = {c1, c2}
  Goals = {g1}
  Tasks = {t1}
  Decs = {d1, d2}
  Owners = {"ana"}
  Movers = {w1, w2}
  MaxScore = 1
  RequestRefs = {"nil"}
  Nil = Nil
  MaxWrites = 3
  MaxCalls = 2
  MaxDrafts = 2
SPECIFICATION StoresSpec
SYMMETRY Symmetry
INVARIANTS SameAnswers StoresShowTheRow AuditAddsUp
PROPERTIES ImplementsLifecycle OffTheWorklist
