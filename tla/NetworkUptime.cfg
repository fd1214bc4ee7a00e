SPECIFICATION NetworkSpec
CONSTANTS
  LinkCapacity = 2
  Delays <- MCDelays
  MaxAttempts = 5
  LinkTimeModulus = 16
  MaxLinkTime = 15
INVARIANT RetriedWithinCap
