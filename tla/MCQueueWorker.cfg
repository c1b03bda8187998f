SPECIFICATION FairSpec
CONSTANTS
  Jobs <- TwoJobs
  Workers <- OneWorker
  Idle = Idle
  RetryDelays <- NoDelay
  MaxRetries = 2
  MaxDepth = 1
  VisTimeout = 3
  BatchSize = 2
  DeadLetterQueue = FALSE
  DeadMaxLen = 1
  DeadTTL = 1
  PanicsUntil = 1
  MaxClock = 4
  Concurrency = 1
  JobTimeout = 1
  PollInterval = 1
  j1 = j1
  j2 = j2
  j3 = j3
  w1 = w1
  w2 = w2
INVARIANTS
  TypeOK
  StopAbandonsNothing
PROPERTIES
  PromptSendsKeepClaim
  ShutdownStops
  EventuallySettled
