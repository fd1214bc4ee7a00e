SPECIFICATION Spec
CONSTANTS
  good = good
  wrong = wrong
  Credentials <- MCCredentials
  ValidCredentials <- MCValid
  Zero = Zero
  Absent = Absent
  CredentialBytes = 130
  ValueCapacity = 64
  Timeout = 2
  MaxStarts = 2
INVARIANT AcceptedIsProvisioned
