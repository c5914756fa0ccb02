SPECIFICATION Spec
CONSTANTS
  r1 = r1
  t1 = t1
  t2 = t2
  Robots = {r1}
  Timers = {t1, t2}
  MaxInbox = 1
  MaxSessions = 2
  MaxOutages = 0
  MaxRestarts = 0
  MaxClicks = 2
SYMMETRY Symmetry
CHECK_DEADLOCK FALSE
INVARIANTS
  HeardRobotIsServed
  HeardRobotIsAsked
