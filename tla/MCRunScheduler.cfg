SPECIFICATION Spec
CONSTANTS
  u1 = u1
  u2 = u2
  g1 = g1
  a1 = a1
  b1 = b1
  NoTask = NoTask
  Tasks <- MCTasks
  Lane <- MCLane
  GroupMember <- MCGroupMember
  WatchdogMs = 2
  GraceMs = 2
  TimerSlack = 1
  AgeCap = 4
  MaxPumps = 2
INVARIANTS
  TypeOK
  RunsExcludeEachOther
  NoTaskLost
PROPERTIES
  DrainIsSound
  EscapeIsEarned
  OrderIsKept
  KeepsPromise
