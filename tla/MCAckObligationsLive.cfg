\* An agent that nobody stops, whose host crashes once.
SPECIFICATION FairSpec
CONSTANTS
  Prompts = {p1, p2}
  Redrives = {r1, r2}
  MaxRedrives = 2
  None = None
  MaxFailures = 0
  MaxStops = 0
  MaxQuiesces = 0
  MaxCrashes = 1
INVARIANT OwedIsWatched
PROPERTY OwedIsSettled
CHECK_DEADLOCK FALSE
