SPECIFICATION FairSpec
CONSTANTS
  Jobs <- TwoJobs
  Clients <- OneClient
  NoBody = NoBody
  Corrupt = Corrupt
  NoJob = NoJob
  MaxRetries = 2
  VisTimeout = 1
  BatchSize = 2
  ReclaimBatch = 1
  DeadLetterQueue = FALSE
  DeadMaxLen = 1
  DeadTTL = 1
  RetryDelays <- NoDelay
  Priority <- EqualPriority
  Evictable <- None
  Corruptible <- None
  FaultsUntil = 2
  LossUntil = 3
  MaxClock = 2
  j1 = j1
  j2 = j2
  c1 = c1
  c2 = c2
PROPERTIES
  EventuallySettled
