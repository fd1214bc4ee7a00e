---------------------------- MODULE HealthMonitor ----------------------------
(***************************************************************************)
(* HealthMonitor with the hardware watchdog it feeds and a millisecond     *)
(* clock that wraps.  One tick stands for a fixed number of milliseconds.  *)
(* The watchdog is external: it restarts the device when it was not fed    *)
(* for WatchdogTimeout ticks.  Sources are registered before the first     *)
(* poll(), as a product does before it enters its main loop.               *)
(***************************************************************************)
EXTENDS Integers

CONSTANTS
  Sources,          \* indices of the sources
  Deadline,         \* [Sources -> Nat], the deadline_ms they register
  Mandatory,        \* the sources registered as mandatory
  SourceCapacity,   \* kHealthSourceCapacity
  RebootInterval,   \* the 600000 ms between two reboot requests
  WatchdogTimeout,
  TimeModulus       \* 2^32, in ticks

ASSUME HealthAssumption ==
  /\ Sources = 0 .. SourceCapacity
  /\ Deadline \in [Sources -> Nat] /\ Mandatory \subseteq Sources
  /\ SourceCapacity \in Nat /\ RebootInterval \in Nat /\ WatchdogTimeout \in Nat
  /\ TimeModulus \in Nat \ {0}

VARIABLES
  now,             \* the clock
  count,           \* count_
  lastCheckin,     \* last_checkin of each source
  lastRequest,     \* last_reboot_request_
  unfed,           \* ticks since the watchdog was fed
  silent,          \* history: ticks since each source was heard, or registered
  sinceRequest,    \* history: ticks since the last request_reboot
  fed,             \* history: the last step fed the watchdog
  setup            \* history: poll() was not called since power-up

vars == <<now, count, lastCheckin, lastRequest, unfed, silent, sinceRequest, fed,
          setup>>

\* now - since in std::uint32_t.
Elapsed(since) == (now - since) % TimeModulus

\* Ticks are counted as long as they can make a difference.
Horizon == TimeModulus + RebootInterval
Later(n) == IF n < Horizon THEN n + 1 ELSE n

Boot ==
  /\ now' = 0 /\ count' = 0
  /\ lastCheckin' = [s \in Sources |-> 0] /\ lastRequest' = 0
  /\ unfed' = 0 /\ setup' = TRUE
  /\ silent' = [s \in Sources |-> 0]

Init ==
  /\ now = 0 /\ count = 0
  /\ lastCheckin = [s \in Sources |-> 0] /\ lastRequest = 0
  /\ unfed = 0 /\ silent = [s \in Sources |-> 0]
  /\ sinceRequest = Horizon /\ fed = FALSE /\ setup = TRUE

-----------------------------------------------------------------------------
\* add_source(); last_checkin stays 0, whatever the time is.  A source that
\* finds no room is refused and changes nothing.
AddSource ==
  /\ setup /\ count < SourceCapacity
  /\ count' = count + 1
  /\ silent' = [silent EXCEPT ![count] = 0]
  /\ fed' = FALSE
  /\ UNCHANGED <<now, lastCheckin, lastRequest, unfed, sinceRequest, setup>>

\* check_in(); an index that is not registered is ignored.
CheckIn(s) ==
  /\ s < count
  /\ lastCheckin' = [lastCheckin EXCEPT ![s] = now]
  /\ silent' = [silent EXCEPT ![s] = 0]
  /\ fed' = FALSE
  /\ UNCHANGED <<now, count, lastRequest, unfed, sinceRequest, setup>>

\* Mutant: a late source matters only when it is the first.
LateFirst == {s \in Mandatory : s < count /\ s = 0 /\ Elapsed(lastCheckin[s]) > Deadline[s]}

\* The mandatory sources poll() finds late.
Late == {s \in Mandatory : s < count /\ Elapsed(lastCheckin[s]) > Deadline[s]}

\* Mutant: the time of a request is not remembered.
RequestRebootForgets ==
  \/ /\ Elapsed(lastRequest) >= RebootInterval
     /\ sinceRequest' = 0 /\ UNCHANGED lastRequest
  \/ /\ Elapsed(lastRequest) < RebootInterval
     /\ UNCHANGED <<lastRequest, sinceRequest>>

\* The part of poll() that asks for a reboot, at most once per interval.
RequestReboot ==
  \/ /\ Elapsed(lastRequest) >= RebootInterval
     /\ lastRequest' = now /\ sinceRequest' = 0
  \/ /\ Elapsed(lastRequest) < RebootInterval
     /\ UNCHANGED <<lastRequest, sinceRequest>>

\* Mutant: the watchdog is fed by every poll().
PollAlwaysFeeds ==
  /\ unfed' = 0 /\ fed' = TRUE /\ setup' = FALSE
  /\ UNCHANGED <<now, count, lastCheckin, lastRequest, silent, sinceRequest>>

\* poll(): the watchdog is fed only when no mandatory source is late, and
\* feed() may fail.
Poll ==
  /\ \/ /\ Late # {}
        /\ RequestReboot
        /\ fed' = FALSE /\ UNCHANGED unfed
     \/ /\ Late = {}
        /\ \/ unfed' = 0 /\ fed' = TRUE
           \/ fed' = FALSE /\ UNCHANGED unfed
        /\ UNCHANGED <<lastRequest, sinceRequest>>
  /\ setup' = FALSE
  /\ UNCHANGED <<now, count, lastCheckin, silent>>

-----------------------------------------------------------------------------
\* The environment.

Tick ==
  /\ unfed < WatchdogTimeout
  /\ now' = (now + 1) % TimeModulus
  /\ unfed' = unfed + 1
  /\ silent' = [s \in Sources |-> IF s < count THEN Later(silent[s]) ELSE 0]
  /\ sinceRequest' = Later(sinceRequest)
  /\ fed' = FALSE
  /\ UNCHANGED <<count, lastCheckin, lastRequest, setup>>

\* The watchdog bites, or the product follows a reboot request.
Restart ==
  /\ unfed = WatchdogTimeout \/ sinceRequest = 0
  /\ Boot
  /\ fed' = FALSE
  /\ UNCHANGED sinceRequest

Next == \/ AddSource \/ Poll \/ Tick \/ Restart
        \/ \E s \in Sources : CheckIn(s)

Spec == Init /\ [][Next]_vars

\* Time passes and the hardware watchdog works.
FairSpec ==
  Spec /\ WF_vars(Tick) /\ WF_vars(Restart /\ unfed = WatchdogTimeout)

-----------------------------------------------------------------------------
\* Properties.

\* Every variable has its type; the clock and what is stored of it keep their
\* width.
TypeOK ==
  /\ {now, lastRequest} \subseteq 0 .. TimeModulus - 1
  /\ lastCheckin \in [Sources -> 0 .. TimeModulus - 1]
  /\ count \in 0 .. SourceCapacity
  /\ unfed \in 0 .. WatchdogTimeout
  /\ silent \in [Sources -> 0 .. Horizon] /\ sinceRequest \in 0 .. Horizon
  /\ fed \in BOOLEAN /\ setup \in BOOLEAN

\* The watchdog is fed only when no mandatory source was silent for longer
\* than its deadline in real time (README.md of the service): the clock may
\* wrap, because the watchdog restarts the device before a silence could be
\* long enough to look short.
FedOnlyWhenHealthy ==
  fed => \A s \in Mandatory : s < count => silent[s] <= Deadline[s]

\* Two reboot requests are RebootInterval apart, restarts and wraps included
\* (README.md: "reboot rate limiting prevents uncontrolled restart loops").
RequestsSpaced ==
  [][sinceRequest' = 0 /\ sinceRequest # 0 => sinceRequest >= RebootInterval]_vars

\* A mandatory source that stays silent makes the device restart.
SilenceEnds ==
  \A s \in Mandatory :
    (s < count /\ silent[s] > Deadline[s]) ~> (s >= count \/ silent[s] <= Deadline[s])
==============================================================================
