\* The clients may have nothing more to send, and one write may fail.
SPECIFICATION Spec
CONSTANTS
  Prompts = {p1, p2}
  Redrives = {r1, r2}
  MaxRedrives = 2
  None = None
  MaxFailures = 1
  MaxStops = 1
  MaxQuiesces = 1
  MaxCrashes = 1
SYMMETRY CallSymmetry
INVARIANTS
  TypeOK
  ObligationIsEarned
  AcceptedIsOwed
CHECK_DEADLOCK FALSE
