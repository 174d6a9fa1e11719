\* Through any three troubles, one fire is answered.
SPECIFICATION LiveSpec
CONSTANTS
  s1 = s1
  e1 = e1
  e2 = e2
  Slots <- OneSlot
  Events <- NoFires
  History = 1
  MaxWake = 2
  MaxQueued = 1
  MaxTroubles = 3
PROPERTY
  EveryFireIsAnswered
