SPECIFICATION FairSpec
CONSTANTS
  r1 = r1
  t1 = t1
  t2 = t2
  Robots = {r1}
  Timers = {t1, t2}
  MaxInbox = 1
  MaxSessions = 2
  MaxOutages = 1
  MaxRestarts = 1
  MaxClicks = 0
CHECK_DEADLOCK FALSE
INVARIANTS
  SilentRobotIsServed
PROPERTIES
  NoRobotLeftDeaf
