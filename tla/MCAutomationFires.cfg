\* Two events that may share a wake, and one trouble at any point.
SPECIFICATION Spec
CONSTANTS
  s1 = s1
  e1 = e1
  e2 = e2
  Slots <- NoFires
  Events <- TwoEvents
  History = 1
  MaxWake = 2
  MaxQueued = 2
  MaxTroubles = 1
SYMMETRY Alike
INVARIANTS
  TypeOK
  UnderWayOnce
  SucceededWasRun
PROPERTY NoKnownRunRepeats
