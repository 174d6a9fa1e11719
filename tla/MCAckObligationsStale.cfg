\* One stop while a send is under way.
SPECIFICATION Spec
CONSTANTS
  Prompts = {p1, p2}
  Redrives = {r1}
  MaxRedrives = 1
  None = None
  MaxFailures = 0
  MaxStops = 1
  MaxQuiesces = 0
  MaxCrashes = 0
INVARIANT OwedIsWatched
CHECK_DEADLOCK FALSE
