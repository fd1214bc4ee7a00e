----------------------------- MODULE TimedProofs -----------------------------
(***************************************************************************)
(* Proofs about the parts that read a clock which wraps: the health        *)
(* monitor, the time service, the indication, the button and the           *)
(* env_monitor product on its board.  They share no state, so each has an  *)
(* inductive invariant of its own; what they share is the arithmetic of    *)
(* unsigned differences, in ArithmeticLemmas.                              *)
(***************************************************************************)
EXTENDS HealthMonitor, TimeSync, Indication, ButtonInput, EnvironmentMonitor,
        ArithmeticLemmas, SequenceTheorems, TLAPS

-----------------------------------------------------------------------------
\* HealthMonitor.

\* The inductive invariant for the watchdog: a mandatory source looks late by
\* at most the time the watchdog was not fed, so its silence, which the clock
\* shows exactly, cannot reach the range of the clock.  A source that never
\* checked in is measured from 0, which is when the device started: it is
\* registered before the first poll(), while the clock counts what the
\* watchdog counts.
SilenceShows(s) ==
  /\ setup => now = unfed
  /\ s >= count => lastCheckin[s] = 0
  /\ s < count => /\ Elapsed(lastCheckin[s]) <= Deadline[s] + unfed
                  /\ silent[s] <= Elapsed(lastCheckin[s])

HealthInv ==
  /\ TypeOK
  /\ \A s \in Mandatory : SilenceShows(s)
  /\ FedOnlyWhenHealthy

\* The inductive invariant for the reboot requests: the clock never shows more
\* than the time that passed.
RequestInv == TypeOK /\ Elapsed(lastRequest) <= sinceRequest

\* No step leaves the types.
LEMMA HealthTypeStep == ASSUME TypeOK, [Next]_vars PROVE TypeOK'
  <1> USE HealthAssumption
  <1>0. fed' \in BOOLEAN /\ setup' \in BOOLEAN
    BY Zenon DEF TypeOK, Next, AddSource, Poll, Tick, Restart, Boot, CheckIn, vars
  <1> DEFINE Rest == /\ {now, lastRequest} \subseteq 0 .. TimeModulus - 1
                     /\ lastCheckin \in [Sources -> 0 .. TimeModulus - 1]
                     /\ count \in 0 .. SourceCapacity
                     /\ unfed \in 0 .. WatchdogTimeout
                     /\ silent \in [Sources -> 0 .. Horizon]
                     /\ sinceRequest \in 0 .. Horizon
  <1>1. Horizon \in Nat
    BY DEF Horizon
  <1>2. SUFFICES Rest'
    BY <1>0 DEF TypeOK
  <1>3. Rest
    BY DEF TypeOK
  <1>4. CASE AddSource BY <1>1, <1>3, <1>4 DEF AddSource
  <1>5. CASE Poll BY <1>1, <1>3, <1>5 DEF Poll, RequestReboot
  <1>6. CASE Tick
    <2>1. now' \in 0 .. TimeModulus - 1
      BY <1>3, <1>6 DEF Tick
    <2>2. \A n \in 0 .. Horizon : Later(n) \in 0 .. Horizon
      BY <1>1 DEF Later
    <2>3. sinceRequest' \in 0 .. Horizon
      BY <1>3, <1>6, <2>2 DEF Tick
    <2>4. \A s \in Sources : silent'[s] \in 0 .. Horizon
      <3> TAKE s \in Sources
      <3>1. silent[s] \in 0 .. Horizon /\ 0 \in 0 .. Horizon
        BY <1>1, <1>3
      <3>2. silent'[s] = IF s < count THEN Later(silent[s]) ELSE 0
        BY <1>6 DEF Tick
      <3>3. Later(silent[s]) \in 0 .. Horizon
        BY <2>2, <3>1
      <3> QED BY <3>1, <3>2, <3>3
    <2>5. silent' \in [Sources -> 0 .. Horizon]
      BY <1>6, <2>4 DEF Tick
    <2>6. unfed' \in 0 .. WatchdogTimeout
      BY <1>3, <1>6 DEF Tick
    <2>7. count' = count /\ lastCheckin' = lastCheckin /\ lastRequest' = lastRequest
      BY <1>6 DEF Tick
    <2> QED BY <1>3, <2>1, <2>3, <2>5, <2>6, <2>7
  <1>7. CASE Restart BY <1>1, <1>3, <1>7 DEF Restart, Boot
  <1>8. ASSUME NEW s \in Sources, CheckIn(s) PROVE Rest'
    BY <1>1, <1>3, <1>8 DEF CheckIn
  <1>9. CASE UNCHANGED vars BY <1>3, <1>9 DEF vars
  <1> QED BY <1>4, <1>5, <1>6, <1>7, <1>8, <1>9 DEF Next

\* A tick is seen by the source it could make late.
LEMMA SilenceTick ==
  ASSUME TypeOK, NEW s \in Mandatory, SilenceShows(s), Tick,
         Deadline[s] + WatchdogTimeout < TimeModulus
  PROVE  SilenceShows(s)'
  <1> USE HealthAssumption
  <1>1. /\ s \in Sources /\ lastCheckin[s] \in Int /\ now \in 0 .. TimeModulus - 1
        /\ unfed \in Nat /\ unfed < WatchdogTimeout /\ Deadline[s] \in Nat
        /\ count \in Nat /\ s \in Nat /\ silent[s] \in Nat
    BY DEF TypeOK, Tick, Horizon
  <1>2. /\ now' = (now + 1) % TimeModulus /\ unfed' = unfed + 1
        /\ silent'[s] = IF s < count THEN Later(silent[s]) ELSE 0
        /\ count' = count /\ lastCheckin' = lastCheckin /\ setup' = setup
    BY <1>1 DEF Tick
  <1>3. setup' => now' = unfed'
    <2>1. setup => now + 1 \in 0 .. TimeModulus - 1 /\ now = unfed
      BY <1>1 DEF SilenceShows
    <2> QED BY <1>1, <1>2, <2>1, SmallRemainder
  <1>4. ASSUME s < count
        PROVE  Elapsed(lastCheckin[s])' = Elapsed(lastCheckin[s]) + 1
    <2> DEFINE last == lastCheckin[s]
    <2>1. last \in Int /\ now \in Int /\ 1 \in Nat
      BY <1>1
    <2>2. Elapsed(lastCheckin[s]) + 1 < TimeModulus
      BY <1>1, <1>4, AgeRange DEF SilenceShows, Elapsed
    <2>3. ((now - last) % TimeModulus) + 1 < TimeModulus
      BY <2>2 DEF Elapsed
    <2> HIDE DEF last
    <2>4. (((now + 1) % TimeModulus) - last) % TimeModulus = ((now - last) % TimeModulus) + 1
      BY <2>1, <2>3, AgeGrows, ZenonT(60)
    <2> QED BY <1>2, <2>4 DEF Elapsed, last
  <1>5. ASSUME s < count
        PROVE  Elapsed(lastCheckin[s])' <= Deadline[s] + unfed' /\ silent'[s] <= Elapsed(lastCheckin[s])'
    <2>1. Elapsed(lastCheckin[s]) \in Int
      BY <1>1, AgeRange DEF Elapsed
    <2> QED BY <1>1, <1>2, <1>4, <1>5, <2>1 DEF SilenceShows, Later
  <1> QED BY <1>2, <1>3, <1>5 DEF SilenceShows

\* A step of the monitor keeps what the clock shows of a mandatory source.
LEMMA SilenceStep ==
  ASSUME TypeOK, NEW s \in Mandatory, SilenceShows(s), [Next]_vars,
         Deadline[s] + WatchdogTimeout < TimeModulus
  PROVE  SilenceShows(s)'
  <1> USE HealthAssumption
  <1>1. /\ s \in Sources /\ s \in Nat /\ count \in Nat /\ Deadline[s] \in Nat
        /\ now \in 0 .. TimeModulus - 1 /\ unfed \in Nat
    BY DEF TypeOK
  <1>2. CASE AddSource
    <2>1. ASSUME s # count PROVE SilenceShows(s)'
      <3>1. /\ now' = now /\ unfed' = unfed /\ setup' = setup /\ count' = count + 1
            /\ lastCheckin' = lastCheckin /\ silent' = [silent EXCEPT ![count] = 0]
        BY <1>2 DEF AddSource
      <3>2. silent'[s] = silent[s]
        BY <1>1, <2>1, <3>1 DEF TypeOK
      <3>3. Elapsed(lastCheckin[s])' = Elapsed(lastCheckin[s])
        BY <3>1 DEF Elapsed
      <3>4. s < count' <=> s < count
        BY <1>1, <2>1, <3>1
      <3>5. s >= count' => s >= count
        BY <1>1, <3>1
      <3> QED BY <3>1, <3>2, <3>3, <3>4, <3>5 DEF SilenceShows
    <2>2. ASSUME s = count PROVE SilenceShows(s)'
      <3>1. lastCheckin'[s] = 0 /\ silent'[s] = 0 /\ now' = now /\ now = unfed
        BY <1>1, <1>2, <2>2 DEF AddSource, SilenceShows, TypeOK
      <3>2. (now - 0) % TimeModulus = now
        BY <1>1, SmallRemainder
      <3> QED BY <1>1, <1>2, <2>2, <3>1, <3>2 DEF AddSource, SilenceShows, Elapsed
    <2> QED BY <2>1, <2>2
  <1>3. ASSUME NEW x \in Sources, CheckIn(x) PROVE SilenceShows(s)'
    <2>1. ASSUME x # s PROVE SilenceShows(s)'
      <3>1. now' = now /\ unfed' = unfed /\ (setup' => setup) /\ count' = count
        BY <1>3 DEF CheckIn
      <3>2. silent'[s] = silent[s] /\ lastCheckin'[s] = lastCheckin[s]
        BY <1>1, <1>3, <2>1 DEF CheckIn, TypeOK
      <3>3. Elapsed(lastCheckin[s])' = Elapsed(lastCheckin[s])
        BY <3>1, <3>2 DEF Elapsed
      <3> QED BY <3>1, <3>2, <3>3 DEF SilenceShows
    <2>2. ASSUME x = s PROVE SilenceShows(s)'
      <3>1. lastCheckin'[s] = now /\ silent'[s] = 0 /\ now' = now /\ s < count
        BY <1>1, <1>3, <2>2 DEF CheckIn, TypeOK
      <3>2. (now - now) % TimeModulus = 0
        BY <1>1, NoAge
      <3> QED BY <1>1, <1>3, <3>1, <3>2 DEF CheckIn, SilenceShows, Elapsed
    <2> QED BY <2>1, <2>2
  <1>4. CASE Poll
    <2>1. /\ now' = now /\ count' = count /\ lastCheckin' = lastCheckin
          /\ silent' = silent /\ ~setup'
          /\ unfed' = unfed \/ (Late = {} /\ unfed' = 0)
      BY <1>4 DEF Poll
    <2>2. Late = {} /\ s < count => ~(Elapsed(lastCheckin[s]) > Deadline[s])
      BY DEF Late
    <2>3. Elapsed(lastCheckin[s]) \in Int
      BY <1>1, AgeRange DEF Elapsed, TypeOK
    <2>4. Elapsed(lastCheckin[s])' = Elapsed(lastCheckin[s])
      BY <2>1 DEF Elapsed
    <2> QED BY <1>1, <2>1, <2>2, <2>3, <2>4 DEF SilenceShows
  <1>5. CASE Tick BY <1>5, SilenceTick
  <1>6. CASE Restart BY <1>1, <1>6 DEF Restart, Boot, SilenceShows
  <1>7. CASE UNCHANGED vars BY <1>7 DEF vars, SilenceShows, Elapsed
  <1> QED BY <1>2, <1>3, <1>4, <1>5, <1>6, <1>7 DEF Next

\* A poll() that feeds the watchdog found every mandatory source in time.
LEMMA FedStep ==
  ASSUME HealthInv, [Next]_vars PROVE FedOnlyWhenHealthy'
  <1> USE HealthAssumption
  <1>1. CASE fed' /\ Poll
    <2>1. Late = {} /\ silent' = silent /\ count' = count
      BY <1>1 DEF Poll
    <2>2. ASSUME NEW s \in Mandatory, s < count PROVE silent[s] <= Deadline[s]
      <3>1. /\ Elapsed(lastCheckin[s]) \in Int /\ silent[s] \in Int /\ Deadline[s] \in Int
            /\ silent[s] <= Elapsed(lastCheckin[s])
        BY <2>2, AgeRange DEF HealthInv, SilenceShows, Elapsed, TypeOK, Horizon
      <3>2. ~(Elapsed(lastCheckin[s]) > Deadline[s])
        BY <2>1, <2>2 DEF Late
      <3> QED BY <3>1, <3>2
    <2> QED BY <2>1, <2>2 DEF FedOnlyWhenHealthy
  <1>2. CASE ~Poll /\ ~UNCHANGED vars
    BY <1>2 DEF Next, AddSource, CheckIn, Tick, Restart, FedOnlyWhenHealthy
  <1>3. CASE UNCHANGED vars
    BY <1>3 DEF vars, HealthInv, FedOnlyWhenHealthy
  <1> QED BY <1>1, <1>2, <1>3 DEF FedOnlyWhenHealthy

\* The watchdog is fed only when no mandatory source was silent for longer
\* than its deadline, however often the clock wraps, when no deadline and
\* watchdog timeout together reach the range of the clock.
THEOREM FedOnlyWhenHealthyHolds ==
  ASSUME \A s \in Mandatory : Deadline[s] + WatchdogTimeout < TimeModulus
  PROVE  Spec => []FedOnlyWhenHealthy
  <1> USE HealthAssumption
  <1>1. Init => HealthInv
    <2> SUFFICES ASSUME Init PROVE HealthInv
      OBVIOUS
    <2>1. fed \in BOOLEAN /\ setup \in BOOLEAN
      BY Zenon DEF Init
    <2>2. TypeOK
      BY <2>1 DEF Init, TypeOK, Horizon
    <2> QED BY <2>2 DEF Init, HealthInv, SilenceShows, FedOnlyWhenHealthy
  <1>2. HealthInv /\ [Next]_vars => HealthInv'
    BY HealthTypeStep, SilenceStep, FedStep DEF HealthInv
  <1>3. HealthInv => FedOnlyWhenHealthy
    BY DEF HealthInv
  <1> QED BY <1>1, <1>2, <1>3, PTL DEF Spec

\* The time since the last request, as the clock shows it, is not too long.
LEMMA RequestStep == ASSUME RequestInv, [Next]_vars PROVE RequestInv'
  <1> USE HealthAssumption
  <1>1. TypeOK /\ TypeOK'
    BY HealthTypeStep DEF RequestInv
  <1>2. /\ now \in 0 .. TimeModulus - 1 /\ lastRequest \in 0 .. TimeModulus - 1
        /\ sinceRequest \in 0 .. Horizon /\ Horizon \in Nat /\ TimeModulus <= Horizon
    BY <1>1 DEF TypeOK, Horizon
  <1>3. SUFFICES Elapsed(lastRequest)' <= sinceRequest'
    BY <1>1 DEF RequestInv
  <1>4. CASE AddSource \/ (\E s \in Sources : CheckIn(s)) \/ UNCHANGED vars
    BY <1>4 DEF AddSource, CheckIn, vars, RequestInv, Elapsed
  <1>5. CASE Poll
    <2>1. now' = now /\ \/ lastRequest' = now /\ sinceRequest' = 0
                        \/ UNCHANGED <<lastRequest, sinceRequest>>
      BY <1>5 DEF Poll, RequestReboot
    <2>2. (now - now) % TimeModulus = 0
      BY <1>2, NoAge
    <2> QED BY <2>1, <2>2 DEF RequestInv, Elapsed
  <1>6. CASE Tick
    <2> DEFINE old == (now - lastRequest) % TimeModulus
               new == (((now + 1) % TimeModulus) - lastRequest) % TimeModulus
    <2>1. new <= old + 1
      BY <1>2, AgeBounded
    <2>2. old \in 0 .. TimeModulus - 1 /\ new \in 0 .. TimeModulus - 1
      BY <1>2, AgeRange
    <2>3. old <= sinceRequest
      BY DEF RequestInv, Elapsed
    <2>4. Elapsed(lastRequest)' = new /\ sinceRequest' = Later(sinceRequest)
      BY <1>6 DEF Tick, Elapsed
    <2> HIDE DEF old, new
    <2> QED BY <1>2, <2>1, <2>2, <2>3, <2>4 DEF Later
  <1>7. CASE Restart
    <2>1. now' = 0 /\ lastRequest' = 0 /\ (0 - 0) % TimeModulus = 0
      BY <1>7, NoAge DEF Restart, Boot
    <2> QED BY <1>2, <1>7, <2>1 DEF Restart, Elapsed
  <1> QED BY <1>4, <1>5, <1>6, <1>7 DEF Next

\* A reboot is requested no sooner than RebootInterval after the request
\* before, whatever the clock and the restarts do in between.
THEOREM RequestsSpacedHolds == Spec => RequestsSpaced
  <1> USE HealthAssumption
  <1> DEFINE Spaced == sinceRequest' = 0 /\ sinceRequest # 0
                         => sinceRequest >= RebootInterval
  <1>1. Init => RequestInv
    <2> SUFFICES ASSUME Init PROVE RequestInv
      OBVIOUS
    <2>1. fed \in BOOLEAN /\ setup \in BOOLEAN
      BY Zenon DEF Init
    <2>2. TypeOK
      BY <2>1 DEF Init, TypeOK, Horizon
    <2>3. (0 - 0) % TimeModulus = 0
      BY NoAge
    <2> QED BY <2>2, <2>3 DEF Init, RequestInv, Elapsed, Horizon
  <1>2. RequestInv /\ [Next]_vars => RequestInv'
    BY RequestStep
  <1>3. RequestInv /\ [Next]_vars => [Spaced]_vars
    <2> SUFFICES ASSUME RequestInv, Next, sinceRequest' = 0, sinceRequest # 0
                 PROVE  sinceRequest >= RebootInterval
      BY DEF Spaced
    <2>1. sinceRequest \in Nat /\ Horizon \in Nat \ {0}
      BY DEF RequestInv, TypeOK, Horizon
    <2>2. Poll
      BY <2>1 DEF Next, AddSource, CheckIn, Tick, Restart, Later
    <2>3. Elapsed(lastRequest) >= RebootInterval /\ Elapsed(lastRequest) <= sinceRequest
      BY <2>2 DEF Poll, RequestReboot, RequestInv
    <2>4. Elapsed(lastRequest) \in Int
      BY AgeRange DEF Elapsed, RequestInv, TypeOK
    <2> QED BY <2>1, <2>3, <2>4
  <1> QED BY <1>1, <1>2, <1>3, PTL DEF Spec, RequestsSpaced, Spaced

-----------------------------------------------------------------------------
\* TimeSync.

\* The inductive invariant: while the quality is "synced" for a clock that took
\* the last good answer, the age the service computes is that of the clock; and
\* as long as no answer was good the clock was never set.
TimeInv ==
  /\ clock \in 0 .. ClockModulus - 1 /\ lastSync \in 0 .. ClockModulus - 1
  /\ age \in Nat
  /\ quality \in {"unsynced", "synced", "stale"}
  /\ quality = "synced" /\ setOk =>
       age = (clock - lastSync) % ClockModulus /\ age < StaleAfter
  /\ quality = "unsynced" => age = Never

\* A poll() preserves it when the age of a synchronised clock cannot leave the
\* range of the counter before it is looked at.
LEMMA PollTimeStep ==
  ASSUME TimeInv, NEW gap \in 1 .. MaxPollGap, NEW reply,
         PollTime((clock + gap) % ClockModulus, reply),
         StaleAfter + MaxPollGap <= ClockModulus
  PROVE  TimeInv'
  <1> USE TimeAssumption
  <1> DEFINE t == (clock + gap) % ClockModulus
             good == Taken /\ source = "good"
             older == Older((t - clock) % ClockModulus)
  <1>1. /\ clock \in 0 .. ClockModulus - 1 /\ lastSync \in 0 .. ClockModulus - 1
        /\ age \in Nat /\ gap \in Nat /\ gap < ClockModulus /\ gap <= MaxPollGap
    BY DEF TimeInv
  <1>2. t \in 0 .. ClockModulus - 1
    BY <1>1
  <1>3. (t - clock) % ClockModulus = gap
    <2>1. (clock - clock) % ClockModulus = 0
      BY <1>1, NoAge
    <2>2. ((clock - clock) % ClockModulus) + gap < ClockModulus
      BY <1>1, <2>1
    <2>3. clock \in Int
      BY <1>1
    <2>4. (((clock + gap) % ClockModulus) - clock) % ClockModulus
            = ((clock - clock) % ClockModulus) + gap
      BY <1>1, <2>2, <2>3, AgeGrows, ZenonT(60)
    <2> QED BY <1>1, <2>1, <2>4
  <1>4. /\ clock' = t
        /\ lastSync' = IF good THEN t ELSE lastSync
        /\ quality' = QualityAt(t, IF good THEN "synced" ELSE quality,
                                IF good THEN t ELSE lastSync)
        /\ good \/ setOk' = setOk
        /\ age' = IF good /\ setOk' THEN 0 ELSE older
    BY DEF PollTime
  <1>5. (t - t) % ClockModulus = 0
    BY <1>2, NoAge
  <1>6. ASSUME quality = "synced", setOk
        PROVE  (t - lastSync) % ClockModulus = age + gap /\ age + gap < ClockModulus
    <2>1. age = (clock - lastSync) % ClockModulus /\ age < StaleAfter
      BY <1>6 DEF TimeInv
    <2>2. ((clock - lastSync) % ClockModulus) + gap < ClockModulus
      BY <1>1, <2>1
    <2>3. clock \in Int /\ lastSync \in Int
      BY <1>1
    <2>4. (((clock + gap) % ClockModulus) - lastSync) % ClockModulus
            = ((clock - lastSync) % ClockModulus) + gap
      BY <1>1, <2>2, <2>3, AgeGrows, ZenonT(60)
    <2> QED BY <2>1, <2>2, <2>4
  <1>7. /\ older \in Nat
        /\ age = Never => older = Never
        /\ age + gap < StaleAfter => older = age + gap
    <2>1. older = Older(gap)
      BY <1>3
    <2> HIDE DEF older
    <2>2. age \in Nat /\ gap \in Nat /\ StaleAfter \in Nat
      BY <1>1
    <2> QED BY <2>1, <2>2 DEF Older, Never
  <1> HIDE DEF t, older
  <1>8. CASE good
    <2>1. quality' = "synced" /\ lastSync' = t
      BY <1>4, <1>5, <1>8 DEF QualityAt
    <2>2. age' \in Nat /\ (setOk' => age' = 0)
      BY <1>4, <1>7, <1>8
    <2> QED BY <1>2, <1>4, <1>5, <2>1, <2>2 DEF TimeInv
  <1>9. CASE ~good
    <2>1. /\ lastSync' = lastSync /\ quality' = QualityAt(t, quality, lastSync)
          /\ setOk' = setOk /\ age' = older
      BY <1>4, <1>9
    <2>2. CASE quality = "synced"
      <3>1. setOk' => /\ age + gap < StaleAfter => age' = age + gap
                      /\ (t - lastSync) % ClockModulus = age + gap
        BY <1>6, <1>7, <2>1, <2>2, Zenon
      <3>2. quality' = "synced" => (t - lastSync) % ClockModulus < StaleAfter
        BY <1>1, <1>2, <2>1, <2>2, AgeRange DEF QualityAt
      <3>3. quality' \in {"synced", "stale"}
        BY <2>1, <2>2 DEF QualityAt
      <3>4. quality' = "synced" /\ setOk' =>
              age' = (clock' - lastSync') % ClockModulus /\ age' < StaleAfter
        BY <1>4, <2>1, <3>1, <3>2
      <3> QED BY <1>1, <1>2, <1>4, <1>7, <2>1, <3>3, <3>4 DEF TimeInv
    <2>3. CASE quality # "synced"
      BY <1>1, <1>2, <1>4, <1>7, <2>1, <2>3 DEF TimeInv, QualityAt
    <2> QED BY <2>2, <2>3
  <1> QED BY <1>8, <1>9

\* When the system clock took the last good answer, consumers never see it as
\* "synced" StaleAfter or longer after it was set, and a clock that was set
\* once is never hidden behind timestamp zero, whichever calls of set_utc()
\* fail: when a whole gap between two polls fits between StaleAfter and the
\* range of the counter.
THEOREM StaleTimeIsFlaggedHolds ==
  ASSUME StaleAfter + MaxPollGap <= ClockModulus
  PROVE  TimeSpec => []StaleTimeIsFlagged
  <1>1. TimeInit => TimeInv
    BY TimeAssumption DEF TimeInit, TimeInv, Never
  <1>2. TimeInv /\ [TimeNext]_timeVars => TimeInv'
    <2> SUFFICES ASSUME TimeInv, [TimeNext]_timeVars PROVE TimeInv'
      OBVIOUS
    <2>1. CASE SomePoll BY <2>1, PollTimeStep DEF SomePoll
    <2>2. CASE ConnectivityUp \/ Answer \/ UNCHANGED timeVars
      BY <2>2 DEF ConnectivityUp, Answer, timeVars, TimeInv, Never
    <2> QED BY <2>1, <2>2 DEF TimeNext
  <1>3. TimeInv => StaleTimeIsFlagged
    BY TimeAssumption DEF TimeInv, StaleTimeIsFlagged, ExposesZero
  <1> QED BY <1>1, <1>2, <1>3, PTL DEF TimeSpec

-----------------------------------------------------------------------------
\* ButtonInput.

\* The samples must be equal for this long, at least from one call to the next.
Quiet == IF DebounceMs = 0 THEN 1 ELSE DebounceMs

\* How long after a change of the samples a call may decide on it.
Noticed == Quiet .. Quiet - 1 + MaxGap

\* The stored start of a stable press is when a call decided on it.
StartOfPress(u) == pressStart = u % ClockRange /\ u - pressedAt \in Noticed

\* The inductive invariant: what is stored is the uptime modulo the range of
\* the clock, a change that is not decided on is younger than the debounce
\* time, and a press began as long before its stored start as debouncing takes.
ButtonInv ==
  /\ uptime \in Nat /\ changedAt \in Nat /\ pressedAt \in Nat /\ held \in Int
  /\ stable \in BOOLEAN
  /\ changedAt <= uptime /\ lastChange = changedAt % ClockRange
  /\ debouncing => uptime - changedAt < Quiet
  /\ stable => \E u \in 0 .. uptime : StartOfPress(u)
  /\ PressIsHeld

\* The age of a change that is not decided on is what the clock shows.
LEMMA DebounceAge ==
  ASSUME ButtonInv, debouncing, NEW t \in uptime + 1 .. uptime + MaxGap,
         DebounceMs + MaxGap < ClockRange
  PROVE  /\ Since(t, lastChange) = t - changedAt
         /\ t - changedAt \in 1 .. Quiet - 1 + MaxGap
  <1> USE ButtonAssumption
  <1> DEFINE d == t - changedAt
  <1>1. t \in Int /\ changedAt \in Int /\ d \in 1 .. Quiet - 1 + MaxGap
    BY DEF ButtonInv, Quiet
  <1>2. d \in 0 .. ClockRange - 1
    BY <1>1 DEF Quiet
  <1>3. (t - (changedAt % ClockRange)) % ClockRange = (t - changedAt) % ClockRange
    BY <1>1, SubRemainder, Zenon
  <1>4. (t - changedAt) % ClockRange = t - changedAt
    BY <1>2, SmallRemainder
  <1> QED BY <1>1, <1>3, <1>4 DEF Since, ButtonInv

\* The duration of a press that is released at t, as the code computes it, for
\* a press that was noticed at u.
LEMMA ReleaseAge ==
  ASSUME NEW t \in Nat, NEW u \in 0 .. t, pressStart = u % ClockRange
  PROVE  /\ Since(t, pressStart) <= t - u
         /\ t - u < ClockRange => Since(t, pressStart) = t - u
         /\ Since(t, pressStart) \in Nat
  <1> USE ButtonAssumption
  <1>1. t \in Int /\ u \in Int /\ t - u \in Nat
    OBVIOUS
  <1>2. (t - (u % ClockRange)) % ClockRange = (t - u) % ClockRange
    BY <1>1, SubRemainder, Zenon
  <1>3. t - u < ClockRange => (t - u) % ClockRange = t - u
    BY <1>1, SmallRemainder
  <1>4. (t - u) % ClockRange <= t - u /\ (t - u) % ClockRange \in Nat
    BY <1>1
  <1> QED BY <1>2, <1>3, <1>4 DEF Since

\* A release is classified by how long the button was down.
LEMMA ReleaseStep ==
  ASSUME ButtonInv, NEW t \in uptime + 1 .. uptime + MaxGap, stable,
         t - changedAt \in Noticed,
         event' = Release(t), held' = changedAt - pressedAt
  PROVE  PressIsHeld'
  <1> USE ButtonAssumption
  <1>1. PICK u \in 0 .. uptime : StartOfPress(u)
    BY DEF ButtonInv
  <1>2. /\ t \in Nat /\ u \in 0 .. t /\ uptime \in Nat
        /\ changedAt \in Nat /\ pressedAt \in Nat
    BY DEF ButtonInv
  <1> DEFINE ms == Since(t, pressStart)
  <1>3. ms <= t - u /\ (t - u < ClockRange => ms = t - u) /\ ms \in Nat
    BY <1>1, <1>2, ReleaseAge DEF StartOfPress
  <1>4. t - u < held' + MaxGap /\ held' - MaxGap < t - u /\ held' \in Int
    <2>1. Quiet \in Nat
      BY DEF Quiet
    <2>2. /\ u - pressedAt \in Quiet .. Quiet - 1 + MaxGap
          /\ t - changedAt \in Quiet .. Quiet - 1 + MaxGap
      BY <1>1 DEF StartOfPress, Noticed
    <2>3. u \in Int /\ held' = changedAt - pressedAt
      BY <1>2
    <2> QED BY <1>2, <2>1, <2>2, <2>3
  <1>5. /\ event' = "factory_reset_press" => ms >= FactoryResetMin
        /\ event' = "commissioning_press" => ms >= CommissioningMin /\ ms < FactoryResetMin
        /\ event' = "short_press" => ms <= ShortPressMax
    BY DEF Release
  <1> HIDE DEF ms
  <1>6. event' = "factory_reset_press" => held' > FactoryResetMin - MaxGap
    BY <1>2, <1>3, <1>4, <1>5
  <1>7. event' = "commissioning_press" => held' > CommissioningMin - MaxGap
    BY <1>2, <1>3, <1>4, <1>5
  <1>8. ASSUME held' + MaxGap < ClockRange
        PROVE  /\ event' = "commissioning_press" => held' < FactoryResetMin + MaxGap
               /\ event' = "short_press" => held' < ShortPressMax + MaxGap
    <2>1. ms = t - u
      BY <1>2, <1>3, <1>4, <1>8
    <2> QED BY <1>2, <1>3, <1>4, <1>5, <2>1
  <1> QED BY <1>6, <1>7, <1>8 DEF PressIsHeld

\* A call of update() preserves the invariant.
LEMMA UpdateStep ==
  ASSUME ButtonInv, NEW raw \in BOOLEAN, NEW t \in uptime + 1 .. uptime + MaxGap,
         Update(raw, t), DebounceMs + MaxGap < ClockRange
  PROVE  ButtonInv'
  <1> USE ButtonAssumption
  <1>1. /\ uptime' = t /\ t \in Nat /\ uptime \in Nat /\ t > uptime
        /\ changedAt \in Nat /\ changedAt <= uptime
        /\ Quiet \in Nat \ {0} /\ 0 .. uptime \subseteq 0 .. t
    BY DEF ButtonInv, Update, Quiet
  <1>2. /\ event' = "none" => PressIsHeld'
        /\ stable \in BOOLEAN
    BY DEF PressIsHeld, ButtonInv
  <1> stable' \in BOOLEAN
    BY <1>2, Zenon DEF Update, Changed, Waiting, Settled
  <1>3. CASE Changed(raw, t)
    <2>1. stable' => \E u \in 0 .. uptime' : StartOfPress(u)'
      BY <1>1, <1>3 DEF Changed, ButtonInv, StartOfPress, Noticed, Quiet
    <2>2. changedAt' = t /\ lastChange' = t % ClockRange /\ event' = "none"
          /\ pressedAt' = pressedAt /\ held' = held
      BY <1>3 DEF Changed
    <2> QED BY <1>1, <1>2, <2>1, <2>2 DEF ButtonInv, Quiet
  <1>4. CASE Waiting(raw, t)
    <2>1. stable' => \E u \in 0 .. uptime' : StartOfPress(u)'
      BY <1>1, <1>4 DEF Waiting, ButtonInv, StartOfPress, Noticed, Quiet
    <2>2. /\ changedAt' = changedAt /\ lastChange' = lastChange /\ event' = "none"
          /\ pressedAt' = pressedAt /\ held' = held /\ debouncing' = debouncing
      BY <1>4 DEF Waiting
    <2>3. debouncing' => uptime' - changedAt' < Quiet'
      <3> SUFFICES ASSUME debouncing PROVE t - changedAt < Quiet
        BY <1>1, <2>2 DEF Quiet
      <3>1. Since(t, lastChange) < DebounceMs
        BY <1>4 DEF Waiting
      <3>2. Since(t, lastChange) = t - changedAt /\ t - changedAt \in 1 .. Quiet - 1 + MaxGap
        BY DebounceAge
      <3>3. t - changedAt < DebounceMs /\ t - changedAt >= 1
        BY <1>1, <3>1, <3>2
      <3>4. DebounceMs # 0
        BY <1>1, <3>3
      <3> QED BY <3>3, <3>4 DEF Quiet
    <2> QED BY <1>1, <1>2, <2>1, <2>2, <2>3 DEF ButtonInv
  <1>5. CASE Settled(raw, t)
    <2>1. t - changedAt \in Noticed
      <3>1. Since(t, lastChange) >= DebounceMs /\ debouncing
        BY <1>5 DEF Settled
      <3>2. Since(t, lastChange) = t - changedAt /\ t - changedAt \in 1 .. Quiet - 1 + MaxGap
        BY <3>1, DebounceAge
      <3>3. t - changedAt >= DebounceMs /\ t - changedAt >= 1
        BY <1>1, <3>1, <3>2
      <3> QED BY <1>1, <3>2, <3>3 DEF Noticed, Quiet
    <2>2. /\ changedAt' = changedAt /\ lastChange' = lastChange /\ ~debouncing'
          /\ pressedAt' \in Nat /\ held' \in Int
      BY <1>1, <1>5 DEF Settled, ButtonInv
    <2>3. stable' => \E u \in 0 .. uptime' : StartOfPress(u)'
      <3>1. CASE raw /\ ~stable
        <4>1. pressStart' = t % ClockRange /\ pressedAt' = changedAt
          BY <1>5, <3>1 DEF Settled
        <4>2. StartOfPress(t)' /\ t \in 0 .. uptime'
          <5>1. t - pressedAt' \in Noticed
            BY <2>1, <4>1
          <5>2. Noticed' = Noticed
            BY DEF Noticed, Quiet
          <5> QED BY <1>1, <4>1, <5>1, <5>2 DEF StartOfPress
        <4> QED BY <4>2
      <3>2. CASE ~raw \/ stable
        BY <1>1, <1>5, <3>2 DEF Settled, ButtonInv, StartOfPress, Noticed, Quiet
      <3> QED BY <3>1, <3>2
    <2>4. PressIsHeld'
      <3>1. CASE stable /\ ~raw
        <4>1. event' = Release(t) /\ held' = changedAt - pressedAt
          BY <1>5, <3>1 DEF Settled
        <4> QED BY <2>1, <3>1, <4>1, ReleaseStep
      <3>2. CASE ~(stable /\ ~raw)
        <4>1. event' \in {"none", "press_started"}
          BY <1>2, <1>5, <3>2 DEF Settled
        <4> QED BY <4>1 DEF PressIsHeld
      <3> QED BY <3>1, <3>2
    <2> QED BY <1>1, <2>2, <2>3, <2>4 DEF ButtonInv
  <1> QED BY <1>3, <1>4, <1>5 DEF Update

\* A press is classified by how long the button was down, give or take one
\* sampling gap, when the debounce time and a gap fit into the clock.
THEOREM PressIsHeldHolds ==
  ASSUME DebounceMs + MaxGap < ClockRange
  PROVE  ButtonSpec => []PressIsHeld
  <1> USE ButtonAssumption
  <1>1. ButtonInit => ButtonInv
    <2>1. 0 % ClockRange = 0
      BY SmallRemainder
    <2>2. ButtonInit => stable \in BOOLEAN
      BY Zenon DEF ButtonInit
    <2> QED BY <2>1, <2>2 DEF ButtonInit, ButtonInv, PressIsHeld
  <1>2. ButtonInv /\ [ButtonNext]_buttonVars => ButtonInv'
    <2> SUFFICES ASSUME ButtonInv, [ButtonNext]_buttonVars PROVE ButtonInv'
      OBVIOUS
    <2>1. CASE ButtonNext BY <2>1, UpdateStep DEF ButtonNext
    <2>2. CASE UNCHANGED buttonVars
      BY <2>2 DEF buttonVars, ButtonInv, PressIsHeld, StartOfPress, Noticed, Quiet
    <2> QED BY <2>1, <2>2
  <1>3. ButtonInv => PressIsHeld
    BY DEF ButtonInv
  <1> QED BY <1>1, <1>2, <1>3, PTL DEF ButtonSpec

-----------------------------------------------------------------------------
\* NucleoL476rg and EnvironmentMonitor.

productVars == <<boardVars, monitorVars>>

\* The steps of initialize().
LEMMA StepNames ==
  /\ Len(Steps) = 6
  /\ Steps[1] = "scale1" /\ Steps[2] = "latency4" /\ Steps[3] = "hsi"
  /\ Steps[4] = "pll" /\ Steps[5] = "sysclk" /\ Steps[6] = "uart"
  /\ \A i, j \in 1 .. 6 : Steps[i] = Steps[j] => i = j
  BY DEF Steps

\* The inductive invariant of initialize(): only what a step up to the present
\* one asked for is configured, and what the steps before it asked for has
\* taken effect.
BoardInv ==
  /\ phase \in 1 .. 7
  /\ \A i \in 1 .. 6 : Steps[i] \in configured => i <= phase
  /\ \A i \in 1 .. 6 : i < phase => Steps[i] \in ready

\* Every step of the product preserves it.
LEMMA BoardStep == ASSUME BoardInv, [MonitorNext]_productVars PROVE BoardInv'
  <1> USE StepNames
  <1>1. CASE Configure
    <2>1. phase \in 1 .. 6 /\ phase' = phase /\ ready' = ready
          /\ configured' = configured \cup {Steps[phase]}
      BY <1>1 DEF Configure, Initialized, BoardInv
    <2>2. ASSUME NEW i \in 1 .. 6, Steps[i] \in configured' PROVE i <= phase'
      BY <2>1, <2>2 DEF BoardInv
    <2> QED BY <2>1, <2>2 DEF BoardInv
  <1>2. CASE Await
    <2>1. /\ phase \in 1 .. 6 /\ phase' = phase + 1 /\ Steps[phase] \in ready
          /\ UNCHANGED <<configured, ready>>
      BY <1>2 DEF Await, Initialized, BoardInv
    <2>2. ASSUME NEW i \in 1 .. 6, i < phase' PROVE Steps[i] \in ready'
      <3>1. i < phase \/ i = phase
        BY <2>1, <2>2
      <3> QED BY <2>1, <3>1 DEF BoardInv
    <2>3. \A i \in 1 .. 6 : Steps[i] \in configured' => i <= phase'
      BY <2>1 DEF BoardInv
    <2> QED BY <2>1, <2>2, <2>3 DEF BoardInv
  <1>3. CASE TakesEffect
    BY <1>3 DEF TakesEffect, BoardInv
  <1>4. CASE \/ RunOnce \/ SysTick \/ \E c \in Characters \cup {Enter} : Type(c)
             \/ UNCHANGED productVars
    <2>1. UNCHANGED <<phase, configured, ready>>
      BY <1>4 DEF RunOnce, SysTick, Type, productVars, boardVars
    <2> QED BY <2>1 DEF BoardInv
  <1> QED BY <1>1, <1>2, <1>3, <1>4 DEF MonitorNext

\* The core is never clocked from what is not ready, and the loop starts with
\* the board ready.
THEOREM ClockSafeHolds == MonitorSpec => []ClockSafe
  <1>1. MonitorInit => BoardInv
    BY DEF MonitorInit, BoardInit, BoardInv
  <1>2. BoardInv /\ [MonitorNext]_productVars => BoardInv'
    BY BoardStep
  <1>3. BoardInv => ClockSafe
    <2> SUFFICES ASSUME BoardInv PROVE ClockSafe
      OBVIOUS
    <2>1. "pll" \in configured => 3 < phase
      BY StepNames DEF BoardInv
    <2>2. "sysclk" \in configured => 4 < phase
      BY StepNames DEF BoardInv
    <2>3. Initialized => 6 < phase
      BY StepNames DEF Initialized
    <2>4. \A i \in 1 .. 6 : i < phase => Steps[i] \in ready
      BY DEF BoardInv
    <2>5. phase \in Int
      BY DEF BoardInv
    <2>6. /\ 1 < phase => "scale1" \in ready
          /\ 2 < phase => "latency4" \in ready
          /\ 3 < phase => "hsi" \in ready
          /\ 4 < phase => "pll" \in ready
          /\ 5 < phase => "sysclk" \in ready
          /\ 6 < phase => "uart" \in ready
      BY <2>4, StepNames
    <2> QED BY <2>1, <2>2, <2>3, <2>5, <2>6 DEF ClockSafe
  <1> QED BY <1>1, <1>2, <1>3, PTL DEF MonitorSpec, productVars

\* The inductive invariant of the telemetry: after the first, the clock shows
\* the time since the last one, and a loop that waits for a tick has nothing
\* to send.
SilenceInv ==
  /\ tick \in 0 .. TickModulus - 1 /\ lastTelemetry \in 0 .. TickModulus - 1
  /\ silence \in Nat
  /\ telemetryPending \in BOOLEAN /\ ran \in BOOLEAN
  /\ telemetryPending => silence = TelemetryPeriod + WriteTicks /\ ~ran
  /\ ~telemetryPending => /\ Initialized
                          /\ silence = (tick - lastTelemetry) % TickModulus
                          /\ silence <= TelemetryPeriod + WriteTicks
  /\ ran => silence < TelemetryPeriod

\* The age of the last telemetry after d more ticks that fit into the clock.
LEMMA SilenceGrows ==
  ASSUME NEW a \in 0 .. TickModulus - 1, NEW b \in 0 .. TickModulus - 1, NEW d \in Nat,
         ((a - b) % TickModulus) + d < TickModulus
  PROVE  /\ (((a + d) % TickModulus) - b) % TickModulus = ((a - b) % TickModulus) + d
         /\ (a + d) % TickModulus \in 0 .. TickModulus - 1
  <1> USE BoardAssumption
  <1>1. a \in Int /\ b \in Int /\ a + d \in Int
    OBVIOUS
  <1>2. (a + d) % TickModulus \in 0 .. TickModulus - 1
    BY <1>1, Division
  <1>3. (((a + d) % TickModulus) - b) % TickModulus = ((a - b) % TickModulus) + d
    BY <1>1, AgeGrows, ZenonT(60)
  <1> QED BY <1>2, <1>3

\* How long the writes of one run may take.
LEMMA WritingTime ==
  ASSUME NEW answered, NEW telemetry \in BOOLEAN, NEW d \in Writing(Texts(answered, telemetry))
  PROVE  /\ d \in Nat /\ d <= 2 * WriteTicks
         /\ ~telemetry => d <= WriteTicks
  <1>1. Texts(answered, telemetry) \in {0, 1, 2}
        /\ (~telemetry => Texts(answered, telemetry) \in {0, 1})
    BY DEF Texts
  <1> QED BY <1>1, BoardAssumption DEF Writing

\* run_once() preserves it.
LEMMA SilenceRun ==
  ASSUME SilenceInv, RunOnce,
         WriteTicks <= TelemetryPeriod, TelemetryPeriod + WriteTicks < TickModulus
  PROVE  SilenceInv'
  <1> USE BoardAssumption, MonitorAssumption
  <1> DEFINE telemetry == telemetryPending \/ IsDue(lastTelemetry, TelemetryPeriod)
  <1>1. PICK d \in Writing(Texts(answer', telemetry)) :
               Ticks(d) /\ ran' = (d = 0) /\ RunTelemetry(telemetry, d)
    BY DEF RunOnce
  <1>2. d \in Nat /\ d <= 2 * WriteTicks /\ (~telemetry => d <= WriteTicks)
    BY WritingTime
  <1>3. /\ tick' = (tick + d) % TickModulus /\ telemetryPending' = FALSE
        /\ lastTelemetry' = IF telemetry THEN tick ELSE lastTelemetry
        /\ silence' = d + (IF telemetry THEN 0 ELSE silence)
        /\ Initialized'
    BY <1>1 DEF RunOnce, Ticks, RunTelemetry, Initialized
  <1>4. telemetryPending' \in BOOLEAN /\ ran' \in BOOLEAN
    BY <1>1, <1>3, Zenon
  <1>5. tick \in 0 .. TickModulus - 1 /\ lastTelemetry \in 0 .. TickModulus - 1
    BY DEF SilenceInv
  <1>6. CASE telemetry
    <2>1. (tick - tick) % TickModulus = 0
      BY <1>5, NoAge
    <2>2. ((tick - tick) % TickModulus) + d < TickModulus
      BY <1>2, <2>1
    <2>3. (tick' - tick) % TickModulus = d /\ tick' \in 0 .. TickModulus - 1
      <3>1. /\ (((tick + d) % TickModulus) - tick) % TickModulus
                 = ((tick - tick) % TickModulus) + d
            /\ (tick + d) % TickModulus \in 0 .. TickModulus - 1
        BY <1>2, <1>5, <2>2, SilenceGrows, ZenonT(60)
      <3> QED BY <1>2, <1>3, <2>1, <3>1
    <2>4. lastTelemetry' = tick /\ silence' = d
      BY <1>2, <1>3, <1>6
    <2>5. d <= TelemetryPeriod + WriteTicks /\ (d = 0 => d < TelemetryPeriod)
      BY <1>2
    <2> QED BY <1>1, <1>2, <1>3, <1>4, <1>5, <2>3, <2>4, <2>5 DEF SilenceInv
  <1>7. CASE ~telemetry
    <2>1. silence = (tick - lastTelemetry) % TickModulus /\ silence < TelemetryPeriod
      BY <1>5, <1>7 DEF SilenceInv, IsDue
    <2>2. ((tick - lastTelemetry) % TickModulus) + d < TickModulus
      BY <1>2, <1>7, <2>1
    <2>3. (tick' - lastTelemetry) % TickModulus = silence + d /\ tick' \in 0 .. TickModulus - 1
      <3>1. /\ (((tick + d) % TickModulus) - lastTelemetry) % TickModulus
                 = ((tick - lastTelemetry) % TickModulus) + d
            /\ (tick + d) % TickModulus \in 0 .. TickModulus - 1
        BY <1>2, <1>5, <2>2, SilenceGrows, ZenonT(60)
      <3> QED BY <1>3, <2>1, <3>1
    <2>4. silence \in Nat
      BY DEF SilenceInv
    <2> QED BY <1>1, <1>2, <1>3, <1>4, <1>5, <1>7, <2>1, <2>3, <2>4 DEF SilenceInv
  <1> QED BY <1>6, <1>7

\* A tick preserves it.
LEMMA SilenceTicks ==
  ASSUME SilenceInv, SysTick, TelemetryPeriod + WriteTicks < TickModulus
  PROVE  SilenceInv'
  <1> USE BoardAssumption, MonitorAssumption
  <1>1. /\ tick' = (tick + 1) % TickModulus
        /\ UNCHANGED <<lastTelemetry, telemetryPending>> /\ ~ran'
        /\ Initialized' <=> Initialized
        /\ silence' = IF Initialized THEN silence + 1 ELSE silence
    BY DEF SysTick, Ticks, Initialized
  <1>2. ran' \in BOOLEAN /\ telemetryPending' \in BOOLEAN
    BY <1>1, Zenon DEF SysTick, SilenceInv
  <1>3. /\ tick \in 0 .. TickModulus - 1 /\ lastTelemetry \in 0 .. TickModulus - 1
        /\ silence \in Nat /\ tick' \in 0 .. TickModulus - 1
    <2>1. /\ tick \in 0 .. TickModulus - 1 /\ lastTelemetry \in 0 .. TickModulus - 1
          /\ silence \in Nat
      BY DEF SilenceInv
    <2>2. tick + 1 \in Int /\ TickModulus \in Nat \ {0}
      BY <2>1
    <2>3. (tick + 1) % TickModulus \in 0 .. TickModulus - 1
      BY <2>2, Division, ZenonT(60)
    <2> QED BY <1>1, <2>1, <2>3
  <1>4. CASE telemetryPending
    <2>1. ~Initialized
      BY <1>4 DEF SysTick, SilenceInv, Initialized, Steps
    <2> QED BY <1>1, <1>2, <1>3, <1>4, <2>1 DEF SilenceInv
  <1>5. CASE ~telemetryPending
    <2>1. Initialized /\ ran
      BY <1>5 DEF SilenceInv, SysTick, Initialized, Steps
    <2>2. silence = (tick - lastTelemetry) % TickModulus /\ silence < TelemetryPeriod
      BY <1>5, <2>1 DEF SilenceInv
    <2>3. ((tick - lastTelemetry) % TickModulus) + 1 < TickModulus
      BY <1>3, <2>2
    <2>4. (tick' - lastTelemetry) % TickModulus = silence + 1
      <3>1. (((tick + 1) % TickModulus) - lastTelemetry) % TickModulus
              = ((tick - lastTelemetry) % TickModulus) + 1
        <4> DEFINE one == 1
        <4>1. one \in Nat /\ ((tick - lastTelemetry) % TickModulus) + one < TickModulus
          BY <2>3
        <4> HIDE DEF one
        <4>2. (((tick + one) % TickModulus) - lastTelemetry) % TickModulus
                = ((tick - lastTelemetry) % TickModulus) + one
          BY <1>3, <4>1, SilenceGrows, ZenonT(60)
        <4> QED BY <4>2 DEF one
      <3> QED BY <1>1, <2>2, <3>1
    <2> QED BY <1>1, <1>2, <1>3, <1>5, <2>1, <2>2, <2>4 DEF SilenceInv
  <1> QED BY <1>4, <1>5

\* Telemetry is never late by more than one blocking write, when a write does
\* not take longer than a period and both together fit into the clock.
THEOREM TelemetryOnTimeHolds ==
  ASSUME WriteTicks <= TelemetryPeriod, TelemetryPeriod + WriteTicks < TickModulus
  PROVE  MonitorSpec => []TelemetryOnTime
  <1> USE BoardAssumption, MonitorAssumption
  <1>1. MonitorInit => SilenceInv
    <2> SUFFICES ASSUME MonitorInit PROVE SilenceInv
      OBVIOUS
    <2>1. telemetryPending \in BOOLEAN /\ ran \in BOOLEAN
      BY Zenon DEF MonitorInit
    <2> QED BY <2>1 DEF MonitorInit, BoardInit, SilenceInv
  <1>2. SilenceInv /\ [MonitorNext]_productVars => SilenceInv'
    <2> SUFFICES ASSUME SilenceInv, [MonitorNext]_productVars PROVE SilenceInv'
      OBVIOUS
    <2>1. CASE RunOnce BY <2>1, SilenceRun
    <2>2. CASE SysTick BY <2>2, SilenceTicks
    <2>3. CASE Await /\ UNCHANGED monitorVars
      <3>1. Initialized => Initialized'
        BY <2>3 DEF Await
      <3> QED BY <2>3, <3>1 DEF Await, monitorVars, SilenceInv
    <2>4. CASE \/ (Configure \/ TakesEffect) /\ UNCHANGED monitorVars
               \/ \E c \in Characters \cup {Enter} : Type(c)
               \/ UNCHANGED productVars
      <3>1. UNCHANGED <<phase, tick, lastTelemetry, silence, telemetryPending, ran>>
        BY <2>4 DEF Configure, TakesEffect, Type, monitorVars, productVars, boardVars
      <3> QED BY <3>1 DEF SilenceInv, Initialized
    <2> QED BY <2>1, <2>2, <2>3, <2>4 DEF MonitorNext
  <1>3. SilenceInv => TelemetryOnTime
    BY DEF SilenceInv, TelemetryOnTime
  <1> QED BY <1>1, <1>2, <1>3, PTL DEF MonitorSpec, productVars

\* The inductive invariant of the command line: what is in the buffer, and the
\* character that waits to be read, are the line that was typed, as long as
\* nothing of it was lost and it fits.
LineInv ==
  /\ line \in Seq(Characters) /\ command \in Seq(Characters)
  /\ rdr \in Characters \cup {Enter, NoCharacter}
  /\ ~garbled /\ Len(line) < CommandCapacity =>
       line = IF rdr \in Characters THEN Append(command, rdr) ELSE command

\* One more character.
LEMMA OneMore ==
  ASSUME NEW q \in Seq(Characters), NEW c \in Characters
  PROVE  /\ Append(q, c) \in Seq(Characters)
         /\ Len(Append(q, c)) = Len(q) + 1 /\ Len(q) \in Nat
  OBVIOUS

\* A character that is typed preserves it.
LEMMA LineTyped ==
  ASSUME LineInv, NEW c \in Characters \cup {Enter}, Type(c) PROVE LineInv'
  <1> USE BoardAssumption, MonitorAssumption
  <1>1. /\ rdr' = IF rdr = NoCharacter THEN c ELSE rdr
        /\ line' = IF rdr = NoCharacter /\ c # Enter THEN Append(line, c) ELSE line
        /\ garbled' <=> (garbled \/ rdr \in Characters)
        /\ command' = command
    BY DEF Type, Arrive
  <1>2. line' \in Seq(Characters) /\ rdr' \in Characters \cup {Enter, NoCharacter}
    BY <1>1 DEF LineInv
  <1>3. CASE rdr = NoCharacter /\ c # Enter
    <2>1. /\ c \in Characters /\ rdr' = c /\ line' = Append(line, c)
          /\ rdr \notin Characters /\ (garbled' <=> garbled)
      BY <1>1, <1>3
    <2>2. Len(line') = Len(line) + 1 /\ Len(line) \in Nat
      BY <2>1, OneMore DEF LineInv
    <2>3. ~garbled' /\ Len(line') < CommandCapacity => line = command
      BY <2>1, <2>2 DEF LineInv
    <2> QED BY <1>1, <1>2, <2>1, <2>3 DEF LineInv
  <1>4. CASE ~(rdr = NoCharacter /\ c # Enter)
    <2>1. line' = line /\ (rdr' = rdr \/ (rdr = NoCharacter /\ rdr' = Enter))
      BY <1>1, <1>4
    <2>2. ~garbled' => ~garbled /\ rdr \notin Characters /\ rdr' \notin Characters
      BY <1>1, <2>1
    <2> QED BY <1>1, <1>2, <2>1, <2>2 DEF LineInv
  <1> QED BY <1>3, <1>4

\* A character that is read preserves it.
LEMMA LineRead == ASSUME LineInv, RunCli PROVE LineInv'
  <1> USE BoardAssumption, MonitorAssumption
  <1>1. rdr' = NoCharacter /\ NoCharacter \notin Characters
    BY DEF RunCli, Read
  <1>2. CASE EndLine
    BY <1>1, <1>2 DEF EndLine, LineInv
  <1>3. CASE TakeCharacter
    <2>1. /\ rdr \in Characters /\ line' = line /\ garbled' = garbled
          /\ Len(command) + 1 < CommandCapacity => command' = Append(command, rdr)
          /\ command' \in {<<>>, Append(command, rdr)}
      BY <1>3 DEF TakeCharacter, lineVars, LineInv
    <2>2. /\ Append(command, rdr) \in Seq(Characters)
          /\ Len(Append(command, rdr)) = Len(command) + 1
      BY <2>1, OneMore DEF LineInv
    <2>3. command' \in Seq(Characters)
      <3>1. <<>> \in Seq(Characters)
        OBVIOUS
      <3> QED BY <2>1, <2>2, <3>1, Zenon
    <2>4. ASSUME ~garbled, Len(line) < CommandCapacity PROVE line = command'
      BY <2>1, <2>2, <2>4 DEF LineInv
    <2> QED BY <1>1, <2>1, <2>3, <2>4 DEF LineInv
  <1>4. CASE rdr = NoCharacter /\ UNCHANGED <<command, lineVars>>
    BY <1>1, <1>4 DEF lineVars, LineInv
  <1> QED BY <1>2, <1>3, <1>4 DEF RunCli

\* No step of the product breaks it.
LEMMA LineStep == ASSUME LineInv, [MonitorNext]_productVars PROVE LineInv'
  <1>1. CASE RunOnce
    <2>1. RunCli \/ UNCHANGED <<rdr, command, lineVars>>
      BY <1>1 DEF RunOnce
    <2>2. CASE UNCHANGED <<rdr, command, lineVars>>
      BY <2>2 DEF lineVars, LineInv
    <2> QED BY <2>1, <2>2, LineRead
  <1>2. CASE \E c \in Characters \cup {Enter} : Type(c)
    BY <1>2, LineTyped
  <1>3. CASE \/ (Configure \/ Await \/ TakesEffect) /\ UNCHANGED monitorVars
             \/ SysTick \/ UNCHANGED productVars
    <2>1. UNCHANGED <<rdr, command, line, garbled>>
      BY <1>3 DEF Configure, Await, TakesEffect, SysTick, monitorVars, lineVars,
                  productVars, boardVars
    <2> QED BY <2>1 DEF LineInv
  <1> QED BY <1>1, <1>2, <1>3 DEF MonitorNext

\* A line of which no character was lost and that fits the buffer is answered
\* by its own meaning.
THEOREM CommandIsLineHolds == MonitorSpec => CommandIsLine
  <1> USE BoardAssumption, MonitorAssumption
  <1> DEFINE Own == (rdr = Enter /\ rdr' = NoCharacter /\ ~garbled
                       /\ Len(line) < CommandCapacity)
                      => answer' = IF line = <<>> THEN "none" ELSE Meaning(line)
  <1>1. MonitorInit => LineInv
    BY DEF MonitorInit, BoardInit, LineInv
  <1>2. LineInv /\ [MonitorNext]_productVars => LineInv'
    BY LineStep
  <1>3. LineInv /\ [MonitorNext]_productVars => [Own]_productVars
    <2> SUFFICES ASSUME LineInv, MonitorNext, rdr = Enter, rdr' = NoCharacter, ~garbled,
                        Len(line) < CommandCapacity
                 PROVE  answer' = IF line = <<>> THEN "none" ELSE Meaning(line)
      BY DEF Own
    <2>1. line = command /\ Enter # NoCharacter /\ Enter \notin Characters
      BY DEF LineInv
    <2>2. RunOnce
      BY <2>1 DEF MonitorNext, Configure, Await, TakesEffect, SysTick, Type, Arrive
    <2>3. RunCli
      BY <2>1, <2>2 DEF RunOnce
    <2>4. EndLine
      BY <2>1, <2>3 DEF RunCli, TakeCharacter
    <2> QED BY <2>1, <2>4 DEF EndLine
  <1> QED BY <1>1, <1>2, <1>3, PTL DEF MonitorSpec, CommandIsLine, Own, productVars

-----------------------------------------------------------------------------
\* Indication.

\* The requests of the service.
Requests == [active : BOOLEAN, frame : Frames \cup {Off}, expiresAt : 0 .. WrapTicks - 1]

\* What is left of the request of a source, without the clock, agrees with
\* what the clock shows: a deadline that is ahead or past by less than half its
\* range is seen on the right side.
LeftIsRight(s) ==
  /\ ~requests[s].active => left[s] <= 0
  /\ requests[s].active /\ requests[s].expiresAt = 0 => left[s] = Forever
  /\ requests[s].active /\ requests[s].expiresAt # 0 =>
       /\ left[s] >= 0 - MaxDelay /\ 2 * (left[s] + MaxDelay) < WrapTicks
       /\ 2 * MaxDelay < WrapTicks
       /\ (ticks - requests[s].expiresAt) % WrapTicks = (0 - left[s]) % WrapTicks

\* The inductive invariant: besides, what was applied last is what is shown.
IndicationInv ==
  /\ ticks \in 0 .. WrapTicks - 1
  /\ requests \in [IndicationSources -> Requests]
  /\ left \in [IndicationSources -> Int]
  /\ applied # "nothing" => shown = applied
  /\ \A s \in IndicationSources : LeftIsRight(s)
  /\ ShowsHighest

\* poll() drops a request exactly when its time is over.
LEMMA ExpiredIsOver ==
  ASSUME IndicationInv, NEW s \in IndicationSources, requests[s].active
  PROVE  Expired(requests[s]) <=> left[s] <= 0
  <1> USE IndicationAssumption
  <1>1. left[s] \in Int /\ requests[s].expiresAt \in Int /\ ticks \in Int
    BY DEF IndicationInv, Requests
  <1>2. LeftIsRight(s)
    BY DEF IndicationInv
  <1>3. CASE requests[s].expiresAt = 0
    BY <1>2, <1>3 DEF LeftIsRight, Expired, Forever
  <1>4. CASE requests[s].expiresAt # 0
    <2> DEFINE l == left[s]
    <2>1. /\ l \in Int /\ l >= 0 - MaxDelay /\ 2 * (l + MaxDelay) < WrapTicks
          /\ 2 * MaxDelay < WrapTicks
          /\ Expired(requests[s]) <=> 2 * ((0 - l) % WrapTicks) < WrapTicks
      BY <1>1, <1>2, <1>4 DEF LeftIsRight, Expired
    <2> HIDE DEF l
    <2>2. CASE l <= 0
      <3>1. 0 - l \in 0 .. WrapTicks - 1 /\ 2 * (0 - l) < WrapTicks
        BY <2>1, <2>2
      <3>2. (0 - l) % WrapTicks = 0 - l
        BY <3>1, SmallRemainder
      <3> QED BY <2>1, <2>2, <3>1, <3>2 DEF l
    <2>3. CASE l > 0
      <3>1. 0 - l \in (0 - WrapTicks) .. (0 - 1)
        BY <2>1, <2>3
      <3>2. (0 - l) % WrapTicks = WrapTicks - l
        BY <2>1, <3>1
      <3> QED BY <2>1, <2>3, <3>2 DEF l
    <2> QED BY <2>1, <2>2, <2>3
  <1> QED BY <1>3, <1>4

\* A request that is made ends as far ahead as its duration.
LEMMA RequestLeft ==
  ASSUME IndicationInv, NEW s \in IndicationSources, NEW f \in Frames,
         NEW d \in Durations, Request(s, f, d)
  PROVE  IndicationInv'
  <1> USE IndicationAssumption
  <1> DEFINE deadline == IF d = 0 THEN 0 ELSE (ticks + d) % WrapTicks
             new == [active |-> TRUE, frame |-> f, expiresAt |-> deadline]
  <1>1. ticks \in 0 .. WrapTicks - 1 /\ d \in Nat /\ ticks + d \in Int
    BY DEF IndicationInv
  <1>2. deadline \in 0 .. WrapTicks - 1
    <2>1. (ticks + d) % WrapTicks \in 0 .. WrapTicks - 1
      BY <1>1, Division, ZenonT(60)
    <2>2. 0 \in 0 .. WrapTicks - 1
      OBVIOUS
    <2> QED BY <2>1, <2>2
  <1>3. new \in Requests
    BY <1>2 DEF Requests
  <1>4. /\ requests' = [requests EXCEPT ![s] = new]
        /\ left' = [left EXCEPT ![s] = IF deadline = 0 THEN Forever ELSE d]
        /\ ~pollOk' /\ UNCHANGED <<ticks, applied, shown>>
    BY DEF Request
  <1>5. deadline # 0 => (ticks - deadline) % WrapTicks = (0 - d) % WrapTicks
    <2> SUFFICES ASSUME d # 0
                 PROVE  (ticks - ((ticks + d) % WrapTicks)) % WrapTicks = (0 - d) % WrapTicks
      OBVIOUS
    <2> DEFINE sum == ticks + d
    <2>1. ticks \in Int /\ sum \in Int /\ ticks - sum = 0 - d
      BY <1>1
    <2> HIDE DEF sum
    <2>2. (ticks - (sum % WrapTicks)) % WrapTicks = (ticks - sum) % WrapTicks
      BY <2>1, SubRemainder, Zenon
    <2> QED BY <2>1, <2>2 DEF sum
  <1> HIDE DEF deadline
  <1>6. /\ requests' \in [IndicationSources -> Requests]
        /\ requests'[s] = new
        /\ \A x \in IndicationSources : x # s => requests'[x] = requests[x]
    BY <1>3, <1>4 DEF IndicationInv
  <1>7. /\ left' \in [IndicationSources -> Int]
        /\ left'[s] = IF deadline = 0 THEN Forever ELSE d
        /\ \A x \in IndicationSources : x # s => left'[x] = left[x]
    BY <1>1, <1>4 DEF IndicationInv, Forever
  <1>8. LeftIsRight(s)'
    <2>1. requests'[s].active /\ requests'[s].expiresAt = deadline
      BY <1>6
    <2>2. 2 * (d + MaxDelay) < WrapTicks /\ 2 * MaxDelay < WrapTicks /\ d >= 0 - MaxDelay
      BY <1>1
    <2> QED BY <1>4, <1>5, <1>7, <2>1, <2>2 DEF LeftIsRight, Forever
  <1>9. ASSUME NEW x \in IndicationSources, x # s PROVE LeftIsRight(x)'
    BY <1>4, <1>6, <1>7, <1>9 DEF IndicationInv, LeftIsRight, Forever
  <1>10. ticks' \in 0 .. WrapTicks - 1 /\ (applied' # "nothing" => shown' = applied')
    BY <1>1, <1>4 DEF IndicationInv
  <1>11. ShowsHighest'
    BY <1>4 DEF ShowsHighest
  <1> QED BY <1>6, <1>7, <1>8, <1>9, <1>10, <1>11 DEF IndicationInv

\* A request that is cleared is not shown any more.
LEMMA ClearLeft ==
  ASSUME IndicationInv, NEW s \in IndicationSources, Clear(s) PROVE IndicationInv'
  <1> USE IndicationAssumption
  <1> DEFINE new == [requests[s] EXCEPT !.active = FALSE]
  <1>1. new \in Requests /\ ~new.active
    BY DEF IndicationInv, Requests
  <1>2. /\ requests' = [requests EXCEPT ![s] = new]
        /\ left' = [left EXCEPT ![s] = 0]
        /\ ~pollOk' /\ UNCHANGED <<ticks, applied, shown>>
    BY DEF Clear
  <1> HIDE DEF new
  <1>3. /\ requests' \in [IndicationSources -> Requests] /\ requests'[s] = new
        /\ \A x \in IndicationSources : x # s => requests'[x] = requests[x]
    BY <1>1, <1>2 DEF IndicationInv
  <1>4. /\ left' \in [IndicationSources -> Int] /\ left'[s] = 0
        /\ \A x \in IndicationSources : x # s => left'[x] = left[x]
    BY <1>2 DEF IndicationInv
  <1>5. LeftIsRight(s)'
    BY <1>1, <1>3, <1>4 DEF LeftIsRight
  <1>6. ASSUME NEW x \in IndicationSources, x # s PROVE LeftIsRight(x)'
    BY <1>2, <1>3, <1>4, <1>6 DEF IndicationInv, LeftIsRight, Forever
  <1>7. ticks' \in 0 .. WrapTicks - 1 /\ (applied' # "nothing" => shown' = applied')
    BY <1>2 DEF IndicationInv
  <1>8. ShowsHighest'
    BY <1>2 DEF ShowsHighest
  <1> QED BY <1>3, <1>4, <1>5, <1>6, <1>7, <1>8 DEF IndicationInv

\* A tick brings every deadline one closer.
LEMMA PassLeft == ASSUME IndicationInv, Pass PROVE IndicationInv'
  <1> USE IndicationAssumption
  <1>1. /\ ticks' = (ticks + 1) % WrapTicks /\ ticks \in Int
        /\ UNCHANGED <<requests, applied, shown>> /\ ~pollOk'
    BY DEF Pass, IndicationInv
  <1>2. ticks' \in 0 .. WrapTicks - 1
    BY <1>1, Division
  <1>3. \A s \in IndicationSources :
          left'[s] = IF left[s] = Forever \/ ~requests[s].active THEN left[s] ELSE left[s] - 1
    BY DEF Pass
  <1>4. left' \in [IndicationSources -> Int]
    BY DEF Pass, IndicationInv
  <1>5. ASSUME NEW s \in IndicationSources PROVE LeftIsRight(s)'
    <2>1. LeftIsRight(s) /\ left[s] \in Int
      BY DEF IndicationInv
    <2>2. CASE ~requests[s].active \/ requests[s].expiresAt = 0
      BY <1>1, <1>3, <2>1, <2>2 DEF LeftIsRight, Forever
    <2>3. CASE requests[s].active /\ requests[s].expiresAt # 0
      <3> DEFINE l == left[s]
                 e == requests[s].expiresAt
                 minus == 0 - l
                 one == 1
      <3>1. /\ l \in Int /\ l >= 0 - MaxDelay /\ 2 * (l + MaxDelay) < WrapTicks
            /\ l + MaxDelay > 0 /\ l # Forever
            /\ (ticks - e) % WrapTicks = minus % WrapTicks
        BY <2>1, <2>3 DEF LeftIsRight, Pass, Forever
      <3>2. left'[s] = l - 1
        BY <1>3, <2>3, <3>1
      <3>3. e \in Int /\ minus \in Int /\ one \in Int /\ minus + one = 0 - (l - 1)
        BY <3>1 DEF IndicationInv, Requests
      <3> HIDE DEF l, e, minus, one
      <3>4. (((ticks + one) % WrapTicks) - e) % WrapTicks = (((ticks - e) % WrapTicks) + one) % WrapTicks
        BY <1>1, <3>3, LaterAge, ZenonT(60)
      <3>5. ((minus % WrapTicks) + one) % WrapTicks = (minus + one) % WrapTicks
        BY <3>3, AddRemainder, Zenon
      <3>6. (ticks' - e) % WrapTicks = (0 - left'[s]) % WrapTicks
        BY <1>1, <3>1, <3>2, <3>3, <3>4, <3>5 DEF one
      <3>7. l - 1 >= 0 - MaxDelay /\ 2 * ((l - 1) + MaxDelay) < WrapTicks
        BY <3>1
      <3>8. 2 * MaxDelay < WrapTicks
        BY <2>1, <2>3 DEF LeftIsRight
      <3> QED BY <1>1, <2>3, <3>2, <3>6, <3>7, <3>8 DEF LeftIsRight, e
    <2> QED BY <2>2, <2>3
  <1>6. ShowsHighest'
    BY <1>1 DEF ShowsHighest
  <1>7. requests' \in [IndicationSources -> Requests] /\ (applied' # "nothing" => shown' = applied')
    BY <1>1 DEF IndicationInv
  <1> QED BY <1>2, <1>4, <1>5, <1>6, <1>7 DEF IndicationInv

\* The frame that is selected was requested, or is no frame.
LEMMA SelectedFrame ==
  ASSUME NEW rs \in [IndicationSources -> Requests]
  PROVE  Selected(rs) \in Frames \cup {Off}
  <1> USE IndicationAssumption
  <1> DEFINE lit == {s \in IndicationSources : rs[s].active}
  <1>1. CASE lit = {}
    BY <1>1 DEF Selected
  <1>2. CASE lit # {}
    <2>1. lit \subseteq 0 .. SourceCount
      BY DEF IndicationSources
    <2>2. Max(lit) \in lit
      BY <1>2, <2>1, MaxInSet
    <2>3. rs[Max(lit)] \in Requests
      BY <2>2
    <2> QED BY <1>2, <2>3 DEF Selected, Requests
  <1> QED BY <1>1, <1>2

\* A poll() that returns ok shows the highest request that is left, and one
\* that fails remembers that its frame is not applied.
LEMMA PollLeft ==
  ASSUME IndicationInv, PollIndication, ~FailedApplyShows PROVE IndicationInv'
  <1> USE IndicationAssumption
  <1> DEFINE kept == [s \in IndicationSources |->
                        [requests[s] EXCEPT !.active = @ /\ ~Expired(requests[s])]]
             frame == Selected(kept)
  <1>1. /\ requests' = kept /\ UNCHANGED <<ticks, left>>
        /\ \/ applied = frame /\ pollOk' = TRUE /\ UNCHANGED <<applied, shown>>
           \/ applied # frame /\ pollOk' = TRUE /\ applied' = frame /\ shown' = frame
           \/ applied # frame /\ pollOk' = FALSE /\ UNCHANGED <<applied, shown>>
    BY DEF PollIndication
  <1>2. ASSUME NEW s \in IndicationSources
        PROVE  /\ kept[s] \in Requests
               /\ kept[s].expiresAt = requests[s].expiresAt
               /\ kept[s].active <=> (requests[s].active /\ ~Expired(requests[s]))
    <2>1. requests[s] \in Requests
      BY DEF IndicationInv
    <2>2. (requests[s].active /\ ~Expired(requests[s])) \in BOOLEAN
      BY <2>1, Zenon DEF Requests
    <2> QED BY <2>1, <2>2 DEF Requests
  <1>3. kept \in [IndicationSources -> Requests]
    BY <1>2
  <1> HIDE DEF kept
  <1>4. ASSUME NEW s \in IndicationSources
        PROVE  /\ kept[s].active <=> left[s] > 0
               /\ LeftIsRight(s)'
    <2>1. LeftIsRight(s) /\ left[s] \in Int /\ Forever \in Nat \ {0}
      BY DEF IndicationInv, Forever
    <2>2. requests[s].active => (Expired(requests[s]) <=> left[s] <= 0)
      BY ExpiredIsOver
    <2>3. kept[s].active <=> left[s] > 0
      BY <1>2, <2>1, <2>2 DEF LeftIsRight
    <2>4. requests'[s] = kept[s] /\ left'[s] = left[s] /\ ticks' = ticks
      BY <1>1
    <2> QED BY <1>2, <2>1, <2>2, <2>3, <2>4 DEF LeftIsRight, Forever
  <1>5. frame # "nothing"
    BY <1>3, SelectedFrame
  <1>6. /\ applied' # "nothing" => shown' = applied'
        /\ pollOk' => shown' = frame
    BY <1>1, <1>5 DEF IndicationInv
  <1>7. ShowsHighest'
    <2>1. {s \in IndicationSources : kept[s].active} = {s \in IndicationSources : left'[s] > 0}
      BY <1>1, <1>4
    <2> QED BY <1>1, <1>6, <2>1 DEF ShowsHighest, Selected
  <1> QED BY <1>1, <1>3, <1>4, <1>6, <1>7 DEF IndicationInv

\* After a poll() that returned ok the indicator shows the request of the
\* highest source that is still to be shown, for any number of sources and any
\* durations below half the range of the clock; an apply() that fails must
\* leave the indicator as it was.
THEOREM ShowsHighestHolds ==
  ASSUME ~FailedApplyShows PROVE IndicationSpec => []ShowsHighest
  <1> USE IndicationAssumption
  <1>1. IndicationInit => IndicationInv
    <2> SUFFICES ASSUME IndicationInit PROVE IndicationInv
      OBVIOUS
    <2> DEFINE none == [active |-> FALSE, frame |-> Off, expiresAt |-> 0]
    <2>1. none \in Requests /\ ~none.active
      BY DEF Requests
    <2>2. /\ requests = [s \in IndicationSources |-> none]
          /\ left = [s \in IndicationSources |-> 0]
          /\ ticks = 0 /\ applied = "nothing" /\ ~pollOk
      BY DEF IndicationInit
    <2> HIDE DEF none
    <2>3. requests \in [IndicationSources -> Requests] /\ left \in [IndicationSources -> Int]
      BY <2>1, <2>2
    <2>4. \A s \in IndicationSources : LeftIsRight(s)
      BY <2>1, <2>2 DEF LeftIsRight
    <2>5. ShowsHighest
      BY <2>2 DEF ShowsHighest
    <2> QED BY <2>2, <2>3, <2>4, <2>5 DEF IndicationInv
  <1>2. IndicationInv /\ [IndicationNext]_indicationVars => IndicationInv'
    <2> SUFFICES ASSUME IndicationInv, [IndicationNext]_indicationVars PROVE IndicationInv'
      OBVIOUS
    <2>1. CASE UNCHANGED indicationVars
      BY <2>1 DEF indicationVars, IndicationInv, LeftIsRight, ShowsHighest, Forever
    <2> QED BY <2>1, RequestLeft, ClearLeft, PassLeft, PollLeft DEF IndicationNext
  <1>3. IndicationInv => ShowsHighest
    BY DEF IndicationInv
  <1> QED BY <1>1, <1>2, <1>3, PTL DEF IndicationSpec
==============================================================================
