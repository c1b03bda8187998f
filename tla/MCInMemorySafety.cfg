SPECIFICATION Spec
CONSTANTS
  Jobs <- TwoJobs
  Workers <- TwoWorkers
  Idle = Idle
  RetryDelays <- Delays
  MaxRetries = 2
  MaxDepth = 1
  VisTimeout = 1
  BatchSize = 2
  DeadLetterQueue = TRUE
  DeadMaxLen = 1
  DeadTTL = 1
  PanicsUntil = 2
  MaxClock = 3
  j1 = j1
  j2 = j2
  w1 = w1
  w2 = w2
SYMMETRY Symmetry
INVARIANTS
  TypeOK
  OneCopy
  OneAttemptPerClaim
PROPERTIES
  OldestClaimFirst
  NewFailuresKept
  ImplementsLifecycle
