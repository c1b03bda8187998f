SPECIFICATION Spec
CONSTANTS
  Statuses <- Answers
  RetryAfters <- Waits
  NoHeader = NoHeader
  MaxRetries = 2
  RetryCount = 1
  MailerDelay = 1
  RetryDelay = 1
  MaxRetryDelay = 3
  JobTimeout = 2
  MaxServerRetryAfter = 4
  DefaultRetryAfter = 2
  MaxClock = 9
CHECK_DEADLOCK FALSE
PROPERTIES
  RetryAfterHonoured
