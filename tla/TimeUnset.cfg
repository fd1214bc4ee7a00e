SPECIFICATION TimeSpec
CONSTANTS
  StaleAfter = 4
  SyncInterval = 2
  RetryDelays <- MCRetryDelays
  ClockModulus = 10
  MaxPollGap = 2
INVARIANT UnsetExposesZero
