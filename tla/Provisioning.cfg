SPECIFICATION FairSpec
CONSTANTS
  good = good
  wrong = wrong
  Credentials <- MCCredentials
  ValidCredentials <- MCValid
  Zero = Zero
  Absent = Absent
  CredentialBytes = 130
  ValueCapacity = 130
  Timeout = 2
  MaxStarts = 2
INVARIANT NoLingeringSecrets
INVARIANT OnlyValidatedStored
INVARIANT ResetIsFinal
INVARIANT ThreeAttempts
PROPERTY PortalTimesOut
