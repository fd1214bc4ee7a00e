--------------------------- MODULE NetworkManager ----------------------------
(***************************************************************************)
(* NetworkManager: two links in order of priority, the BackoffPolicy of    *)
(* each, and the observer of the connectivity state.  Time is the uptime   *)
(* in ticks of the shortest delay; the code sees it modulo LinkTimeModulus *)
(* and compares with a signed difference.  The loop polls far more often   *)
(* than once per tick, so a tick passes only when a poll() had nothing     *)
(* left to start.  Which links are up, and what start() of a link answers, *)
(* is decided by the environment at every poll.                            *)
(***************************************************************************)
EXTENDS Integers, Sequences, FiniteSetsExt

CONSTANTS
  LinkCapacity,      \* kNetworkLinkCapacity
  Delays,            \* kDelaysMs, in ticks
  MaxAttempts,       \* max_attempts_
  LinkTimeModulus,   \* 2^32 ms, in ticks
  MaxLinkTime        \* bound on the uptime, in ticks

ASSUME NetworkAssumption ==
  /\ LinkCapacity \in Nat \ {0} /\ MaxAttempts \in Nat /\ MaxLinkTime \in Nat
  /\ Delays \in Seq(Nat) /\ Delays # <<>>
  /\ LinkTimeModulus \in Nat \ {0}

VARIABLES
  linkTime,     \* uptime
  linkCount,    \* count_
  attempt,      \* backoff_[i].attempt_
  linkRetryAt,  \* retry_at_[i]
  state,        \* state_
  active,       \* active_
  observed,     \* observer_ is set
  told,         \* history: what the present observer was told last, or "nothing"
  waiting,      \* history: ticks a link with attempts left was offline, not started
  settled       \* history: the last poll() of this tick had nothing to start

networkVars ==
  <<linkTime, linkCount, attempt, linkRetryAt, state, active, observed, told, waiting,
    settled>>

Links == 0 .. LinkCapacity - 1
Registered == 0 .. linkCount - 1

NetworkInit ==
  /\ linkTime = 0 /\ linkCount = 0
  /\ attempt = [i \in Links |-> 0] /\ linkRetryAt = [i \in Links |-> 0]
  /\ state = "provisioning_required" /\ active = LinkCapacity
  /\ observed = FALSE /\ told = "nothing"
  /\ waiting = [i \in Links |-> 0] /\ settled = FALSE

-----------------------------------------------------------------------------
\* BackoffPolicy.

Exhausted(i) == attempt[i] >= MaxAttempts

\* Mutant: the delay keeps doubling.
DelayUncapped(n) == 2 ^ n

\* next_delay_ms(): the delay it answers for attempt n, and the attempt it
\* leaves.
Delay(n) == Delays[IF n < Len(Delays) THEN n + 1 ELSE Len(Delays)]
NextAttempt(n) == IF n < MaxAttempts THEN n + 1 ELSE n

-----------------------------------------------------------------------------
\* add_link(); the observer is not told of the new state.
AddLink ==
  /\ linkCount < LinkCapacity
  /\ linkCount' = linkCount + 1
  /\ state' = IF state = "provisioning_required" THEN "offline" ELSE state
  /\ settled' = FALSE
  /\ UNCHANGED <<linkTime, attempt, linkRetryAt, active, observed, told, waiting>>

SetObserver(set) ==
  /\ observed' = set /\ told' = "nothing"
  /\ UNCHANGED <<linkTime, linkCount, attempt, linkRetryAt, state, active, waiting,
                 settled>>

\* Mutant: the observer is told only of the links going up.
PublishUpOnly(st, i) ==
  IF st = state THEN UNCHANGED <<state, told>>
  ELSE /\ state' = st
       /\ told' = IF observed /\ st \in {"online_primary", "online_backup"}
                  THEN st ELSE told

\* publish(); a state that is published without a link is kept from the observer.
Publish(st, i) ==
  IF st = state THEN UNCHANGED <<state, told>>
  ELSE /\ state' = st
       /\ told' = IF observed /\ i < linkCount THEN st ELSE told

\* poll() that finds the links in "up" up; the first of them is used.
PollOnline(up) ==
  LET i == Min(up)
  IN  /\ up # {}
      /\ active' = i
      /\ attempt' = [attempt EXCEPT ![i] = 0]
      /\ Publish(IF i = 0 THEN "online_primary" ELSE "online_backup", i)
      /\ waiting' = [j \in Links |-> 0]
      /\ settled' = TRUE
      /\ UNCHANGED <<linkTime, linkCount, linkRetryAt, observed>>

\* static_cast<std::int32_t>(now_ms - retry_at_[i]) >= 0.
Due(i) == (linkTime - linkRetryAt[i]) % LinkTimeModulus < LinkTimeModulus \div 2

\* The links whose start() is called when those in "accepting" answer ok or
\* busy: the first of these ends the loop.
Started(accepting) ==
  LET due == {i \in Registered : ~Exhausted(i) /\ Due(i)}
  IN  {i \in due : \A j \in due \cap accepting : i <= j}

\* poll() that finds no link up.
PollOffline(accepting) ==
  LET started == Started(accepting)
  IN  /\ active' = LinkCapacity
      /\ attempt' = [i \in Links |-> IF i \in started THEN NextAttempt(attempt[i])
                                     ELSE attempt[i]]
      /\ linkRetryAt' = [i \in Links |->
                           IF i \in started
                           THEN (linkTime + Delay(attempt[i])) % LinkTimeModulus
                           ELSE linkRetryAt[i]]
      /\ Publish(IF started # {} THEN "connecting" ELSE "offline", 0)
      /\ waiting' = [i \in Links |-> IF i \in started THEN 0 ELSE waiting[i]]
      /\ settled' = (started = {})
      /\ UNCHANGED <<linkTime, linkCount, observed>>

-----------------------------------------------------------------------------
\* The environment.

Waits(i) == i < linkCount /\ ~Exhausted(i) /\ state \in {"connecting", "offline"}

NetworkTick ==
  /\ settled /\ settled' = FALSE
  /\ linkTime < MaxLinkTime /\ linkTime' = linkTime + 1
  /\ waiting' = [i \in Links |-> IF Waits(i) THEN waiting[i] + 1 ELSE 0]
  /\ UNCHANGED <<linkCount, attempt, linkRetryAt, state, active, observed, told>>

NetworkNext ==
  \/ AddLink
  \/ \E set \in BOOLEAN : SetObserver(set)
  \/ \E up \in SUBSET Registered : PollOnline(up)
  \/ \E accepting \in SUBSET Registered : PollOffline(accepting)
  \/ NetworkTick

NetworkSpec == NetworkInit /\ [][NetworkNext]_networkVars

-----------------------------------------------------------------------------
\* Properties.

\* While no link is up, every link with attempts left is started again within
\* the longest delay.  An accepted start() of the primary link never starves
\* the backup, and a link that went down after a long time up is retried like
\* any other (README.md of the service: "30/60/120/240/300-second capped
\* backoff").
RetriedWithinCap ==
  \A i \in Links : waiting[i] <= Max({Delays[d] : d \in 1 .. Len(Delays)})

\* What the observer was told last is the state, through any number of
\* failovers, attempts and links that are added later.
ObserverIsCurrent == told \in {"nothing", state}

\* Every variable has its type, and the links stay within the array.
NetworkTypeOK ==
  /\ linkTime \in 0 .. MaxLinkTime /\ linkCount \in 0 .. LinkCapacity
  /\ attempt \in [Links -> 0 .. MaxAttempts]
  /\ linkRetryAt \in [Links -> 0 .. LinkTimeModulus - 1]
  /\ state \in {"provisioning_required", "offline", "connecting", "online_primary",
                "online_backup"}
  /\ active \in 0 .. LinkCapacity
  /\ observed \in BOOLEAN /\ settled \in BOOLEAN
  /\ told \in {"nothing", "offline", "connecting", "online_primary", "online_backup"}
  /\ waiting \in [Links -> Nat]
==============================================================================
