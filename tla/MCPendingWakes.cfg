\* Each work is dispatched once, and again once it is settled.  The agent may have
\* nothing more to do.
SPECIFICATION FairSpec
CONSTANTS
  Works = {a, b, cloud}
  Remote = {cloud}
  None = None
  MaxRounds = 2
  MaxLate = 1
  MaxCrashes = 2
INVARIANTS
  TypeOK
  NoWakeForgotten
  EveryWakeIsReachable
  SettledIsForgotten
PROPERTY
  QueuedIsTaken
CHECK_DEADLOCK FALSE
