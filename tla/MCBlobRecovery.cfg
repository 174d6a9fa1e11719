SPECIFICATION FairSpec
CONSTANTS
  Rows = {a, b}
  LegacyRows = {b}
  MaxRecoveries = 3
  MaxRots = 1
  MaxFaults = 2
  MaxCrashes = 2
INVARIANTS
  TypeOK
  NothingElseIsLost
  AdoptedIsWhole
PROPERTIES
  GoodFilesAreKept
  RecoveryEnds
