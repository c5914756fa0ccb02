SPECIFICATION FairSpec
CONSTANTS
  r1 = r1
  Robots = {r1}
  Workers = 1
  MaxFillers = 2
  MaxSeq = 1
  MaxChunks = 2
  MaxAbsences = 1
  MaxSessions = 1
  MaxOutages = 1
CHECK_DEADLOCK FALSE
INVARIANTS
  StreamIsGapFree
  NothingAfterTheEnd
PROPERTIES
  EveryTurnEnds
