SPECIFICATION Spec
CONSTANTS
  Jobs <- OneJob
  Clients <- TwoClients
  NoBody = NoBody
  Corrupt = Corrupt
  NoJob = NoJob
  MaxRetries = 2
  VisTimeout = 1
  BatchSize = 1
  ReclaimBatch = 1
  DeadLetterQueue = TRUE
  DeadMaxLen = 1
  DeadTTL = 1
  RetryDelays <- NoDelay
  Priority <- EqualPriority
  Evictable <- OneJob
  Corruptible <- OneJob
  FaultsUntil = 0
  LossUntil = 3
  MaxClock = 3
  j1 = j1
  j2 = j2
  c1 = c1
  c2 = c2
SYMMETRY Symmetry
INVARIANTS
  LossIsReported
  SweepLossIsGenuine
PROPERTIES
  AttemptsNeverDrop
