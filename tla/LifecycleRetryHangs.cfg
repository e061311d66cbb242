SPECIFICATION FairSpec
CONSTANTS
  MaxRetries = 1
  MaxCalls = 2
PROPERTY RetryEnds
CHECK_DEADLOCK FALSE
