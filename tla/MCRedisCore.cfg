SPECIFICATION Spec
CONSTANTS
  Jobs <- TwoJobs
  Clients <- TwoClients
  NoBody = NoBody
  Corrupt = Corrupt
  NoJob = NoJob
  MaxRetries = 2
  VisTimeout = 1
  BatchSize = 2
  ReclaimBatch = 2
  DeadLetterQueue = TRUE
  DeadMaxLen = 1
  DeadTTL = 1
  RetryDelays <- NoDelay
  Priority <- EqualPriority
  Evictable <- None
  Corruptible <- None
  FaultsUntil = 2
  LossUntil = 3
  MaxClock = 1
  j1 = j1
  j2 = j2
  c1 = c1
  c2 = c2
SYMMETRY Symmetry
INVARIANTS
  TypeOK
  OnePlace
  SoleOwner
  AttemptBound
  OneAttemptPerClaim
  NoResurrection
  ProcessedIsSent
  NoSilentLoss
  ClaimsAgree
PROPERTIES
  OutcomeFinal
  ImplementsLifecycle
