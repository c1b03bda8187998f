SPECIFICATION FairSpec
CONSTANTS
  N = 4
  RetryCount = 1
  BulkConcurrencies <- NoneOrTwo
CHECK_DEADLOCK FALSE
INVARIANTS
  TypeOK
  ResultsTellTheTruth
  NoNeedlessCopy
PROPERTIES
  SlowSendsSpareTheWindow
