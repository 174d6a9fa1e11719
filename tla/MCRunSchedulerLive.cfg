SPECIFICATION FairSpec
CONSTANTS
  u1 = u1
  u2 = u2
  g1 = g1
  a1 = a1
  b1 = b1
  NoTask = NoTask
  Tasks <- MCServed
  Lane <- MCServedLane
  GroupMember <- MCGroupMember
  WatchdogMs = 1
  GraceMs = 1
  TimerSlack = 0
  AgeCap = 2
  MaxPumps = 1
PROPERTIES
  DirectPromptsStart
  DrainReturnsOnceQuiet
