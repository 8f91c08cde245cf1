SPECIFICATION Spec
CONSTANTS
  ta = ta  tb = tb  tc = tc  td = td
  None = None
  Id <- MCId
  Worker = {w1, w2}
  Programs <- MCPrograms
  MaxSpurious = 1
INVARIANTS
  DependenciesRanFirst
  RunAllRanAll
PROPERTIES
  RunAllReturns
CHECK_DEADLOCK FALSE
