SPECIFICATION Spec
CONSTANTS
  None = None
  Inputs <- MCInputs
  Lists <- MCLists
  Headers <- MCHeaders
  LowerCase <- MCLowerCase
  Reserved <- MCReserved
  Ids <- MCIds
  Subjects <- MCSubjects
  Files <- MCFiles
  Levels <- MCLevels
  DefaultFrom <- MCDefaultFrom
  DefaultReplyTo <- MCDefaultReplyTo
  MaxCalls = 2
  MaxAttempts = 2
CHECK_DEADLOCK FALSE
INVARIANTS
  TypeOK
  NobodyDropped
  ContentCarried
  PathsAgree
