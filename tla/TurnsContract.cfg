SPECIFICATION Spec
CONSTANTS
  r1 = r1
  Robots = {r1}
  Workers = 2
  MaxFillers = 1
  MaxSeq = 2
  MaxChunks = 1
  MaxAbsences = 1
  MaxSessions = 1
  MaxOutages = 0
CHECK_DEADLOCK FALSE
INVARIANTS
  AtMostOneLateLine
  OneHelloPerAbsence
PROPERTIES
  KeepsTheContract
