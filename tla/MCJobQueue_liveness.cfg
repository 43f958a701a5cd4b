SPECIFICATION FairSpec
CONSTANTS
  Jobs = {j1, j2}
  Workers = {w1, w2}
  NoJob = NoJob
  BatchSize = 1
  Backoff = 1
  DefaultMaxAttempts = 2
  MaxAttemptsInputs <- LimitsDefault
  DelayInputs <- DelaysNowOrLater
  MaxCrashes = 1
PROPERTIES EventuallySettled
