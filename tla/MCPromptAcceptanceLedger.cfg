\* A second send evicts; time passes between and within the calls; two degraded
\* periods share a window.
SPECIFICATION Spec
CONSTANTS
  Nonces = {n1, n2}
  MaxRecords = 1
  MaxDegradedWindows = 1
  MaxTime = 1
  Outcomes = {"accepted", "rejected"}
SYMMETRY NonceSymmetry
INVARIANTS
  TypeOK
  NotFoundIsTrue
  GapsCoverWhatIsWrong
