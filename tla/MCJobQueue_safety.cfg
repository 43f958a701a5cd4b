SPECIFICATION Spec
CONSTANTS
  Jobs = {j1, j2}
  Workers = {w1, w2}
  NoJob = NoJob
  BatchSize = 2
  Backoff = 1
  DefaultMaxAttempts = 3
  MaxAttemptsInputs <- LimitsAll
  DelayInputs <- DelaysAll
  MaxCrashes = 1
SYMMETRY Symmetry
INVARIANTS TypeOK SingleCopy AttemptAccounting
PROPERTIES NoEarlyPromotion LostOnlyWithItsWorker ImplementsLedger
