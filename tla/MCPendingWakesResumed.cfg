\* A work may be dispatched again.
SPECIFICATION Spec
CONSTANTS
  Works = {a, b}
  Remote = {}
  None = None
  MaxRounds = 2
  MaxLate = 0
  MaxCrashes = 1
INVARIANTS
  NoWakeForgotten
CHECK_DEADLOCK FALSE
