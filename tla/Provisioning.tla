---------------------------- MODULE Provisioning -----------------------------
(***************************************************************************)
(* ProvisioningService over its portal, its validator and the shared       *)
(* configuration store.  The store is ConfigStore, which ConfigService     *)
(* implements, restricted to the record "net.credentials".  A poll() is    *)
(* one step; a power loss inside its commit is a failed commit followed by *)
(* Restart.                                                                *)
(***************************************************************************)
EXTENDS Naturals

CONSTANTS
  Credentials,       \* what users type into the portal
  ValidCredentials,  \* those the validator can accept
  Zero,              \* a cleared NetworkCredentials
  Absent,            \* no record in the store
  CredentialBytes,   \* sizeof(NetworkCredentials)
  ValueCapacity,     \* kConfigValueCapacity of the store
  Timeout,           \* config_.timeout_ms, in ticks
  MaxStarts          \* bound on the calls of start() between restarts

ASSUME ProvisioningAssumption ==
  /\ ValidCredentials \subseteq Credentials
  /\ Zero \notin Credentials /\ Absent \notin Credentials
  /\ {CredentialBytes, ValueCapacity, Timeout, MaxStarts} \subseteq Nat

VARIABLES
  state,       \* state_
  pending,     \* pending_
  age,         \* now - opened_at_, up to Timeout
  failures,    \* failures_
  portal,      \* the portal is open
  up, table, durable, maybe,   \* the store's record
  tries,       \* history: failed attempts since start()
  starts,      \* history: calls of start() since the last restart
  wiped,       \* history: factory_reset() was ok, nothing was stored since
  outcome      \* history: how the last validation ended, "none" if older

service == <<state, pending, age, failures>>
store == <<up, table, durable, maybe>>
vars == <<service, portal, store, tries, starts, wiped, outcome>>

Store == INSTANCE ConfigStore
           WITH Tables <- Credentials \cup {Absent}, Empty <- Absent

Init ==
  /\ state = "unprovisioned" /\ pending = Zero /\ age = 0 /\ failures = 0
  /\ portal = FALSE
  /\ up = TRUE /\ table = Absent /\ durable = Absent /\ maybe = {}
  /\ tries = 0 /\ starts = 0 /\ wiped = FALSE /\ outcome = "none"

-----------------------------------------------------------------------------
\* The store, as provisioning calls it.

Storable == CredentialBytes <= ValueCapacity

\* commit() of table t, which the caller has just edited.
CommitOk(t) == table' = t /\ durable' = t /\ maybe' = {} /\ UNCHANGED up
CommitFails(t) ==
  /\ table' = t /\ maybe' \in SUBSET (maybe \cup {t})
  /\ UNCHANGED <<up, durable>>

-----------------------------------------------------------------------------
Start ==
  /\ starts < MaxStarts /\ starts' = starts + 1
  /\ \/ /\ portal' = TRUE
        /\ state' = "portal_open" /\ age' = 0 /\ tries' = 0
     \/ UNCHANGED <<portal, state, age, tries>>    \* open() failed
  /\ outcome' = "none"
  /\ UNCHANGED <<pending, failures, store, wiped>>

\* stop(): the credentials are cleared even when the portal fails to close.
StopEffect ==
  /\ pending' = Zero
  /\ \/ /\ portal' = FALSE
        /\ state' = IF state = "provisioned" THEN state ELSE "unprovisioned"
     \/ UNCHANGED <<portal, state>>

Stop ==
  /\ StopEffect
  /\ outcome' = "none"
  /\ UNCHANGED <<age, failures, store, tries, starts, wiped>>

\* Mutant: one failure too many is allowed.
FailedStateLate(n) == IF n > 3 THEN "failed" ELSE "portal_open"

FailedState(n) == IF n >= 3 THEN "failed" ELSE "portal_open"

\* Mutant: fail_attempt() leaves the credentials where they are.
FailAttemptKeeps ==
  /\ UNCHANGED pending
  /\ failures' = (failures + 1) % 256
  /\ state' = FailedState((failures + 1) % 256)
  /\ tries' = tries + 1
  /\ UNCHANGED portal

\* fail_attempt(); failures_ is a std::uint8_t.
FailAttempt ==
  /\ pending' = Zero
  /\ failures' = (failures + 1) % 256
  /\ state' = FailedState((failures + 1) % 256)
  /\ tries' = tries + 1
  /\ UNCHANGED portal

\* The part of poll() that runs in the validating state, with credentials c.
Validate(c) ==
  /\ UNCHANGED <<age, starts>>
  /\ \/ /\ outcome' = "busy"
        /\ state' = "validating" /\ pending' = c
        /\ UNCHANGED <<failures, portal, store, tries, wiped>>
     \/ /\ outcome' = "rejected"
        /\ FailAttempt /\ UNCHANGED <<store, wiped>>
     \/ /\ c \in ValidCredentials /\ outcome' = "store_failed"
        /\ FailAttempt
        /\ \/ UNCHANGED <<store, wiped>>    \* no free record
           \/ Storable /\ CommitFails(c) /\ wiped' = FALSE
     \/ /\ c \in ValidCredentials /\ outcome' = "accepted"
        /\ ~Storable    \* set_blob: invalid_argument
        /\ FailAttempt /\ UNCHANGED <<store, wiped>>
     \/ /\ c \in ValidCredentials /\ outcome' = "accepted"
        /\ Storable /\ CommitOk(c) /\ wiped' = FALSE
        /\ pending' = Zero
        /\ portal' \in {FALSE, portal}    \* the status of close() is ignored
        /\ state' = "provisioned" /\ failures' = 0 /\ tries' = 0

TimedOut == state = "portal_open" /\ age >= Timeout

\* Mutant: the timeout is looked at while a validation is in progress.
PollTimeoutValidating ==
  /\ state = "validating" /\ age >= Timeout
  /\ StopEffect
  /\ outcome' = "none"
  /\ UNCHANGED <<age, failures, store, tries, starts, wiped>>

\* poll() of a portal that was open for too long.
PollTimeout ==
  /\ TimedOut
  /\ StopEffect
  /\ outcome' = "none"
  /\ UNCHANGED <<age, failures, store, tries, starts, wiped>>

\* Mutant: the credentials are stored when they are taken.
PollTakeStores(c) ==
  /\ state = "portal_open" /\ ~TimedOut
  /\ CommitOk(c) /\ wiped' = FALSE
  /\ state' = "validating" /\ pending' = c /\ outcome' = "busy"
  /\ UNCHANGED <<age, failures, portal, tries, starts>>

\* poll() that takes credentials and starts to validate them.
PollTake(c) ==
  /\ state = "portal_open" /\ ~TimedOut
  /\ Validate(c)

\* poll() whose take_credentials fails, having filled its argument or not.
PollTakeFails(c) ==
  /\ state = "portal_open" /\ ~TimedOut
  /\ pending' \in {pending, c}
  /\ outcome' = "none"
  /\ UNCHANGED <<state, age, failures, portal, store, tries, starts, wiped>>

\* poll() while a validation is in progress.
PollValidating == state = "validating" /\ Validate(pending)

\* Mutant: the record is erased after the commit.
FactoryResetSwapped ==
  /\ pending' = Zero /\ state' = "unprovisioned" /\ failures' = 0 /\ tries' = 0
  /\ durable' = table /\ table' = Absent /\ maybe' = {} /\ UNCHANGED up
  /\ wiped' = TRUE /\ outcome' = "none"
  /\ UNCHANGED <<age, portal, starts>>

\* factory_reset(): erase, then commit.  The portal is left as it is.
FactoryReset ==
  /\ \/ /\ CommitOk(Absent)
        /\ pending' = Zero /\ state' = "unprovisioned"
        /\ failures' = 0 /\ tries' = 0
        /\ wiped' = TRUE
     \/ /\ CommitFails(Absent)
        /\ UNCHANGED <<pending, state, failures, tries, wiped>>
  /\ outcome' = "none"
  /\ UNCHANGED <<age, portal, starts>>

-----------------------------------------------------------------------------
\* The environment.

Tick ==
  /\ age < Timeout /\ age' = age + 1
  /\ UNCHANGED <<state, pending, failures, portal, store, tries, starts, wiped, outcome>>

\* Another service commits the shared store.
OtherCommit ==
  /\ Store!Acknowledge \/ Store!Attempt
  /\ UNCHANGED <<service, portal, tries, starts, wiped, outcome>>

\* A power cycle; the service does not look at the store when it starts.
Restart ==
  /\ Store!Restore
  /\ state' = "unprovisioned" /\ pending' = Zero /\ age' = 0 /\ failures' = 0
  /\ portal' = FALSE
  /\ tries' = 0 /\ starts' = 0 /\ outcome' = "none"
  /\ UNCHANGED wiped

Poll == \/ PollTimeout
        \/ \E c \in Credentials : PollTake(c) \/ PollTakeFails(c)
        \/ PollValidating

Next == \/ Start \/ Stop \/ Poll \/ FactoryReset
        \/ Tick \/ OtherCommit \/ Restart

Spec == Init /\ [][Next]_vars

\* Time passes, the loop keeps calling poll(), and a portal that is asked to
\* close often enough does.
FairSpec ==
  Spec /\ WF_vars(Tick) /\ SF_vars(PollTimeout /\ portal' = FALSE)

-----------------------------------------------------------------------------
\* Properties.

\* Every variable has its type.
TypeOK ==
  /\ state \in {"unprovisioned", "portal_open", "validating", "provisioned", "failed"}
  /\ pending \in Credentials \cup {Zero}
  /\ age \in 0 .. Timeout /\ failures \in 0 .. 255
  /\ portal \in BOOLEAN /\ up \in BOOLEAN /\ wiped \in BOOLEAN
  /\ {table, durable} \cup maybe \subseteq Credentials \cup {Absent}

\* Credentials wait in RAM only while the portal is open or a validation is in
\* progress, even when the portal fails to close.
NoLingeringSecrets ==
  pending # Zero => state \in {"portal_open", "validating"}

\* Only validated credentials ever reach the store, its medium included, even
\* after failed commits, resets and commits of other services.
OnlyValidatedStored ==
  {table, durable} \cup maybe \subseteq ValidCredentials \cup {Absent}

\* After a factory_reset() that returned ok no credentials come back, whatever
\* is committed or restarted, until new ones are validated.
ResetIsFinal == wiped => {table, durable} \cup maybe = {Absent}

\* One call of start() gives at most three attempts (README.md of the service:
\* "Three validation failures enter failed state").
ThreeAttempts == state \in {"portal_open", "validating"} => tries < 3

\* Credentials that the validator accepted, and that a working store was given,
\* are provisioned (ConnectivityFoundationTests.cpp, provisioning()).
AcceptedIsProvisioned == outcome = "accepted" => state = "provisioned"

\* An open portal does not stay open for ever: it times out, or credentials
\* are taken from it.
PortalTimesOut == state = "portal_open" ~> state # "portal_open"
==============================================================================
