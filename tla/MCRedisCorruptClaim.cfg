SPECIFICATION FairSpec
CONSTANTS
  Jobs <- OneJob
  Clients <- TwoClients
  NoBody = NoBody
  Corrupt = Corrupt
  NoJob = NoJob
  MaxRetries = 1
  VisTimeout = 1
  BatchSize = 1
  ReclaimBatch = 1
  DeadLetterQueue = TRUE
  DeadMaxLen = 1
  DeadTTL = 1
  RetryDelays <- NoDelay
  Priority <- EqualPriority
  Evictable <- None
  Corruptible <- OneJob
  FaultsUntil = 1
  LossUntil = 1
  MaxClock = 2
  j1 = j1
  j2 = j2
  c1 = c1
  c2 = c2
PROPERTIES
  CorruptClaimsAreRetried
