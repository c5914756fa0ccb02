SPECIFICATION Spec
CONSTANTS
  p1 = p1
  p2 = p2
  a = a
  b = b
  c = c
  Procs = {p1, p2}
  Threads = {a, b, c}
  ProcOf <- TwoAndOne
  Records = {r1}
  Kinds = {"append", "edit"}
  HasFlock = TRUE
  OpenMayFail = TRUE
  TreeFailsToo = TRUE
  ReadMayFail = TRUE
  MaxCalls = 1
  MaxCrashes = 1
CHECK_DEADLOCK FALSE
INVARIANTS
  MutualExclusion
  LocksHaveOwners
PROPERTIES
  IsAtomic
