------------------------- MODULE ProvisioningProofs --------------------------
(***************************************************************************)
(* Proofs about Provisioning, for any credentials, timeout and store       *)
(* capacity: what may wait in RAM, what may reach the store, what a reset  *)
(* leaves behind and how many attempts a call of start() gives.            *)
(***************************************************************************)
EXTENDS Provisioning, TLAPS

\* The service is waiting for credentials or looking at some.
Active == state \in {"portal_open", "validating"}

\* The Boolean variables have their type.
Flags == portal \in BOOLEAN /\ up \in BOOLEAN /\ wiped \in BOOLEAN

\* The inductive invariant for the secrets: the four properties of the store
\* and of pending_ support one another step by step.
SecretsInv ==
  /\ TypeOK
  /\ NoLingeringSecrets
  /\ OnlyValidatedStored
  /\ ResetIsFinal

\* The inductive invariant for the attempts.  failures_ is not reset by
\* start(), so a portal reopened after the third failure is closed by the
\* next one: from then on failures_ grows by at most one for each start().
AttemptsInv ==
  /\ failures \in 0 .. 255 /\ starts \in 0 .. MaxStarts /\ tries \in Nat
  /\ Active => starts > 0
  /\ Active => tries = 0 \/ (tries <= failures /\ failures < 3)
  /\ failures < 3 \/ failures <= IF Active THEN starts + 1 ELSE starts + 2

-----------------------------------------------------------------------------
\* A failed attempt counts one more failure, clears the credentials and
\* leaves the portal open or gives up.
LEMMA FailAttemptEffect ==
  ASSUME failures \in 0 .. 255, FailAttempt
  PROVE  /\ pending' = Zero /\ portal' = portal
         /\ failures' \in 0 .. 255 /\ state' \in {"portal_open", "failed"}
  BY DEF FailAttempt, FailedState

\* Validating credentials c, whatever the validator and the store answer,
\* preserves the invariant of the secrets.
LEMMA ValidateSecrets ==
  ASSUME SecretsInv, NEW c \in Credentials \cup {Zero}, Validate(c)
  PROVE  SecretsInv'
  <1> USE ProvisioningAssumption
  <1>f. Flags
    BY DEF SecretsInv, TypeOK, Flags
  <1>1. failures \in 0 .. 255
    BY DEF SecretsInv, TypeOK
  <1>2. CASE /\ state' = "validating" /\ pending' = c
             /\ UNCHANGED <<failures, portal, store, wiped>>
    BY <1>2 DEF Validate, SecretsInv, TypeOK, store, NoLingeringSecrets,
                OnlyValidatedStored, ResetIsFinal
  <1>3. CASE FailAttempt /\ UNCHANGED <<store, wiped>>
    BY <1>1, <1>3, FailAttemptEffect
    DEF Validate, SecretsInv, TypeOK, store, NoLingeringSecrets,
        OnlyValidatedStored, ResetIsFinal
  <1>4. CASE c \in ValidCredentials /\ FailAttempt /\ CommitFails(c) /\ wiped' = FALSE
    <2>1. Flags'
      BY <1>f, <1>4, Zenon DEF Flags, FailAttempt, CommitFails
    <2> QED BY <1>1, <1>4, <2>1, FailAttemptEffect
        DEF Validate, SecretsInv, TypeOK, Flags, CommitFails, NoLingeringSecrets,
            OnlyValidatedStored, ResetIsFinal
  <1>5. CASE /\ c \in ValidCredentials /\ CommitOk(c) /\ wiped' = FALSE
             /\ pending' = Zero /\ portal' \in {FALSE, portal}
             /\ state' = "provisioned" /\ failures' = 0
    <2>1. Flags'
      BY <1>f, <1>5, Zenon DEF Flags, CommitOk
    <2> QED BY <1>5, <2>1
        DEF Validate, SecretsInv, TypeOK, Flags, CommitOk, NoLingeringSecrets,
            OnlyValidatedStored, ResetIsFinal
  <1> QED BY <1>2, <1>3, <1>4, <1>5 DEF Validate

\* stop() and the timeout preserve the invariant of the secrets: what is
\* pending is cleared even when the portal does not close.
LEMMA StopSecrets ==
  ASSUME SecretsInv, StopEffect, UNCHANGED <<age, failures, store, wiped>>
  PROVE  SecretsInv'
  <1>1. Flags'
    BY Zenon DEF StopEffect, SecretsInv, TypeOK, Flags, store
  <1> QED BY <1>1 DEF Flags, StopEffect, SecretsInv, TypeOK, store, NoLingeringSecrets,
         OnlyValidatedStored, ResetIsFinal

\* Every step preserves the invariant of the secrets.
LEMMA SecretsStep == ASSUME SecretsInv, [Next]_vars PROVE SecretsInv'
  <1> USE ProvisioningAssumption
  <1>f. Flags
    BY DEF SecretsInv, TypeOK, Flags
  <1>1. CASE Start
    <2>1. Flags'
      BY <1>f, <1>1, Zenon DEF Flags, Start, store
    <2> QED BY <1>1, <2>1 DEF Flags, Start, SecretsInv, TypeOK, store, NoLingeringSecrets,
                OnlyValidatedStored, ResetIsFinal
  <1>2. CASE Stop
    BY <1>2, StopSecrets DEF Stop
  <1>3. CASE PollTimeout
    BY <1>3, StopSecrets DEF PollTimeout
  <1>4. ASSUME NEW c \in Credentials, PollTake(c) PROVE SecretsInv'
    BY <1>4, ValidateSecrets DEF PollTake
  <1>5. ASSUME NEW c \in Credentials, PollTakeFails(c) PROVE SecretsInv'
    BY <1>5 DEF PollTakeFails, SecretsInv, TypeOK, store, NoLingeringSecrets,
                OnlyValidatedStored, ResetIsFinal
  <1>6. CASE PollValidating
    BY <1>6, ValidateSecrets DEF PollValidating, SecretsInv, TypeOK
  <1>7. CASE FactoryReset
    <2>1. Flags'
      BY <1>f, <1>7, Zenon DEF Flags, FactoryReset, CommitOk, CommitFails
    <2> QED BY <1>7, <2>1 DEF Flags, FactoryReset, CommitOk, CommitFails, SecretsInv, TypeOK,
                NoLingeringSecrets, OnlyValidatedStored, ResetIsFinal
  <1>8. CASE Tick
    <2>1. age' \in 0 .. Timeout
      BY <1>8 DEF Tick, SecretsInv, TypeOK
    <2> QED BY <1>8, <2>1 DEF Tick, SecretsInv, TypeOK, store, NoLingeringSecrets,
                              OnlyValidatedStored, ResetIsFinal
  <1>9. CASE OtherCommit
    BY <1>9 DEF OtherCommit, Store!Acknowledge, Store!Attempt, service, SecretsInv,
                TypeOK, NoLingeringSecrets, OnlyValidatedStored, ResetIsFinal
  <1>10. CASE Restart
    <2>1. Flags'
      BY <1>f, <1>10, Zenon DEF Flags, Restart, Store!Restore
    <2> QED BY <1>10, <2>1 DEF Flags, Restart, Store!Restore, SecretsInv, TypeOK, NoLingeringSecrets,
                 OnlyValidatedStored, ResetIsFinal
  <1>11. CASE UNCHANGED vars
    BY <1>11 DEF vars, service, store, SecretsInv, TypeOK, NoLingeringSecrets,
                 OnlyValidatedStored, ResetIsFinal
  <1> QED BY <1>1, <1>2, <1>3, <1>4, <1>5, <1>6, <1>7, <1>8, <1>9, <1>10, <1>11
      DEF Next, Poll

\* The invariant of the secrets holds in every reachable state.
LEMMA SecretsInvariant == Spec => []SecretsInv
  <1>1. Init => SecretsInv
    <2>1. Init => Flags
      BY Zenon DEF Init, Flags
    <2> QED BY <2>1, ProvisioningAssumption
        DEF Flags, Init, SecretsInv, TypeOK, NoLingeringSecrets, OnlyValidatedStored,
            ResetIsFinal
  <1> QED BY <1>1, SecretsStep, PTL DEF Spec

\* Types.
THEOREM ProvisioningTypeCorrect == Spec => []TypeOK
  BY SecretsInvariant, PTL DEF SecretsInv

\* Credentials wait in RAM only while the portal is open or a validation is in
\* progress, however often the portal fails to close.
THEOREM NoLingeringSecretsHolds == Spec => []NoLingeringSecrets
  BY SecretsInvariant, PTL DEF SecretsInv

\* Only validated credentials are ever in the store, on its medium included.
THEOREM OnlyValidatedStoredHolds == Spec => []OnlyValidatedStored
  BY SecretsInvariant, PTL DEF SecretsInv

\* A factory_reset() that returned ok is final until new credentials are
\* validated, whatever is committed or restarted.
THEOREM ResetIsFinalHolds == Spec => []ResetIsFinal
  BY SecretsInvariant, PTL DEF SecretsInv

-----------------------------------------------------------------------------
\* A failed attempt preserves the invariant of the attempts, as long as
\* failures_ does not wrap.
LEMMA FailAttemptCounts ==
  ASSUME MaxStarts <= 253, AttemptsInv, Active, FailAttempt, UNCHANGED starts
  PROVE  AttemptsInv'
  <1> USE ProvisioningAssumption
  <1>1. failures < 255
    BY DEF AttemptsInv
  <1>2. (failures + 1) % 256 = failures + 1
    BY <1>1 DEF AttemptsInv
  <1>3. /\ failures' = failures + 1 /\ tries' = tries + 1 /\ starts' = starts
        /\ state' = IF failures + 1 >= 3 THEN "failed" ELSE "portal_open"
    BY <1>2 DEF FailAttempt, FailedState
  <1>4. CASE failures + 1 >= 3
    BY <1>1, <1>3, <1>4 DEF AttemptsInv, Active
  <1>5. CASE failures + 1 < 3
    BY <1>1, <1>3, <1>5 DEF AttemptsInv, Active
  <1> QED BY <1>4, <1>5 DEF AttemptsInv

\* Validating credentials preserves the invariant of the attempts.
LEMMA ValidateCounts ==
  ASSUME MaxStarts <= 253, AttemptsInv, Active, NEW c, Validate(c)
  PROVE  AttemptsInv'
  <1> USE ProvisioningAssumption
  <1>1. CASE FailAttempt
    BY <1>1, FailAttemptCounts DEF Validate
  <1>2. CASE state' = "validating" /\ UNCHANGED <<failures, tries>>
    BY <1>2 DEF Validate, AttemptsInv, Active
  <1>3. CASE state' = "provisioned" /\ failures' = 0 /\ tries' = 0
    BY <1>3 DEF Validate, AttemptsInv, Active
  <1> QED BY <1>1, <1>2, <1>3 DEF Validate

\* Every step preserves the invariant of the attempts.
LEMMA AttemptsStep ==
  ASSUME MaxStarts <= 253, AttemptsInv, [Next]_vars PROVE AttemptsInv'
  <1> USE ProvisioningAssumption
  <1>1. CASE Start
    BY <1>1 DEF Start, AttemptsInv, Active
  <1>2. CASE Stop \/ PollTimeout
    BY <1>2 DEF Stop, PollTimeout, StopEffect, AttemptsInv, Active
  <1>3. ASSUME NEW c \in Credentials, PollTake(c) PROVE AttemptsInv'
    BY <1>3, ValidateCounts DEF PollTake, Active
  <1>4. ASSUME NEW c \in Credentials, PollTakeFails(c) PROVE AttemptsInv'
    BY <1>4 DEF PollTakeFails, AttemptsInv, Active
  <1>5. CASE PollValidating
    BY <1>5, ValidateCounts DEF PollValidating, Active
  <1>6. CASE FactoryReset
    BY <1>6 DEF FactoryReset, AttemptsInv, Active
  <1>7. CASE Tick
    BY <1>7 DEF Tick, AttemptsInv, Active
  <1>8. CASE OtherCommit
    BY <1>8 DEF OtherCommit, service, AttemptsInv, Active
  <1>9. CASE Restart
    BY <1>9 DEF Restart, AttemptsInv, Active
  <1>10. CASE UNCHANGED vars
    BY <1>10 DEF vars, service, AttemptsInv, Active
  <1> QED BY <1>1, <1>2, <1>3, <1>4, <1>5, <1>6, <1>7, <1>8, <1>9, <1>10
      DEF Next, Poll

\* One call of start() gives at most three attempts, as long as start() is
\* called at most 253 times between two restarts.  The bound is exact: the
\* 254th call can find failures_ at 255, which wraps to 0 and gives a fourth.
THEOREM ThreeAttemptsHolds == ASSUME MaxStarts <= 253 PROVE Spec => []ThreeAttempts
  <1>1. Init => AttemptsInv
    BY ProvisioningAssumption DEF Init, AttemptsInv, Active
  <1>2. AttemptsInv => ThreeAttempts
    BY DEF AttemptsInv, ThreeAttempts, Active
  <1> QED BY <1>1, <1>2, AttemptsStep, PTL DEF Spec
==============================================================================
