SPECIFICATION FairSpec
CONSTANTS
  MaxRetries = 8
  RetryBackoff = 5
  MaxRetryBackoff = 25
  Width = 8
  MaxVersion = 3
INVARIANTS
  ExhaustsRetries
  BackoffIsExponential
PROPERTIES
  ImplementsConditionalGet
  CallsAreBounded
  EveryCallReturns
