SPECIFICATION FairSpec
CONSTANTS
  p1 = p1
  p2 = p2
  a = a
  b = b
  c = c
  Procs = {p1, p2}
  Threads = {a, b, c}
  ProcOf <- TwoAndOne
  Records = {r1}
  Kinds = {"edit", "delete"}
  HasFlock = TRUE
  OpenMayFail = TRUE
  TreeFailsToo = FALSE
  ReadMayFail = FALSE
  MaxCalls = 1
  MaxCrashes = 1
CHECK_DEADLOCK FALSE
INVARIANTS
  RecordIsWhole
PROPERTIES
  EveryCallReturns
