------------------------------- MODULE TimeSync ------------------------------
(***************************************************************************)
(* TimeSyncService with the BackoffPolicy it owns, polled up to MaxPollGap *)
(* ticks after the poll before, on a millisecond clock that wraps.  The    *)
(* time source is external: it refuses a request or takes it, answers some *)
(* time later, and keeps its answer until take_utc().  It may answer late, *)
(* when connectivity went down and up and the request was forgotten.  The  *)
(* system clock is external too: set_utc() may fail, and poll() goes on as *)
(* if it had not.                                                          *)
(***************************************************************************)
EXTENDS Integers, Sequences

CONSTANTS
  StaleAfter,      \* 86400000 ms, in ticks
  SyncInterval,    \* 21600000 ms
  RetryDelays,     \* kDelaysMs
  ClockModulus,    \* 2^32
  MaxPollGap       \* longest time between two polls

ASSUME TimeAssumption ==
  /\ {StaleAfter, SyncInterval, MaxPollGap} \subseteq Nat \ {0}
  /\ RetryDelays \in Seq(Nat) /\ RetryDelays # <<>>
  /\ ClockModulus \in Nat \ {0}

VARIABLES
  clock,        \* the clock at the last poll
  quality,      \* quality_
  retryAt,      \* retry_at_
  lastSync,     \* last_sync_ms_
  requested,    \* requested_
  failures,     \* backoff_.attempt_, as far as it changes the delay
  source,       \* external: "idle", "working", or the answer "good" or "bad"
  setOk,        \* history: the last call of set_utc() succeeded
  age,          \* history: ticks since set_utc() last succeeded, counted up to
                \* StaleAfter, or Never
  asked         \* history: the last step called request_sync()

timeVars ==
  <<clock, quality, retryAt, lastSync, requested, failures, source, setOk, age, asked>>

\* The age of a system clock that was never set.
Never == StaleAfter + 1

\* The age of the system clock some ticks later.
Older(elapsed) ==
  CASE age = Never                -> Never
    [] age + elapsed < StaleAfter -> age + elapsed
    [] OTHER                      -> StaleAfter

TimeInit ==
  /\ clock = 0 /\ quality = "unsynced" /\ retryAt = 0 /\ lastSync = 0
  /\ requested = FALSE /\ failures = 0
  /\ source = "idle" /\ setOk = FALSE /\ age = Never /\ asked = FALSE

\* next_delay_ms(): the delay after n failures, and the count it leaves.
RetryDelay(n) == RetryDelays[n + 1]
MoreFailures(n) == IF n + 1 < Len(RetryDelays) THEN n + 1 ELSE n

\* static_cast<std::int32_t>(t - due) >= 0.
Reached(t, due) == 2 * ((t - due) % ClockModulus) < ClockModulus

\* Mutant: the age is compared as if the clock did not wrap.
QualityAtUnwrapped(t, q, synced) ==
  IF q = "synced" /\ t >= synced + StaleAfter THEN "stale" ELSE q

\* The quality at time t when the last answer was accepted at synced.
QualityAt(t, q, synced) ==
  IF q = "synced" /\ (t - synced) % ClockModulus >= StaleAfter THEN "stale" ELSE q

\* Mutant: only a plausible answer clears requested_.
TakenIfGood == requested /\ source = "good"

\* poll() takes an answer only when it waits for one.
Taken == requested /\ source \in {"good", "bad"}

\* poll() at time t: an answer is taken, the quality is updated, and a request
\* that is due is made, which the source answers with reply.  An answer that
\* failed or is not after 2020-01-01 is "bad".  For a good one set_utc() is
\* called, which succeeds or not; its status is ignored.
PollTime(t, reply) ==
  LET good     == Taken /\ source = "good"
      bad      == Taken /\ source = "bad"
      synced   == IF good THEN t ELSE lastSync
      waiting  == requested /\ ~Taken
      failed   == CASE good -> 0 [] bad -> MoreFailures(failures) [] OTHER -> failures
      due      == CASE good  -> (t + SyncInterval) % ClockModulus
                    [] bad   -> (t + RetryDelay(failures)) % ClockModulus
                    [] OTHER -> retryAt
      asks     == ~waiting /\ Reached(t, due)
      refused  == asks /\ reply = "error"
      idle     == IF Taken THEN "idle" ELSE source
  IN  /\ clock' = t
      /\ quality' = QualityAt(t, IF good THEN "synced" ELSE quality, synced)
      /\ lastSync' = synced
      /\ requested' = (waiting \/ (asks /\ ~refused))
      /\ retryAt' = IF refused THEN (t + RetryDelay(failed)) % ClockModulus ELSE due
      /\ failures' = IF refused THEN MoreFailures(failed) ELSE failed
      /\ source' = IF asks /\ ~refused /\ idle = "idle" THEN "working" ELSE idle
      /\ setOk' \in IF good THEN BOOLEAN ELSE {setOk}
      /\ age' = IF good /\ setOk' THEN 0 ELSE Older((t - clock) % ClockModulus)
      /\ asked' = asks

\* utc_now() gives timestamp zero instead of the system clock.
ExposesZero == quality = "unsynced"

\* on_connectivity_up(): the request is forgotten, by the service only.
ConnectivityUp ==
  /\ retryAt' = clock /\ requested' = FALSE /\ asked' = FALSE
  /\ UNCHANGED <<clock, quality, lastSync, failures, source, setOk, age>>

\* The source answers.
Answer ==
  /\ source = "working" /\ source' \in {"good", "bad"} /\ asked' = FALSE
  /\ UNCHANGED <<clock, quality, retryAt, lastSync, requested, failures, setOk, age>>

\* A source that is working says busy, one that is not takes the request, and
\* either may fail.
SomePoll ==
  \E gap \in 1 .. MaxPollGap, reply \in {"taken", "error"} :
    PollTime((clock + gap) % ClockModulus, reply)

TimeNext == SomePoll \/ ConnectivityUp \/ Answer

TimeSpec == TimeInit /\ [][TimeNext]_timeVars

-----------------------------------------------------------------------------
\* Properties.

\* When the system clock took the last good answer, consumers never see it as
\* "synced" StaleAfter or longer after it was set, however often the
\* millisecond counter wrapped and however many calls of set_utc() had failed
\* before; and a clock that was set once is never hidden behind timestamp zero
\* again.  What is shown after a set_utc() that failed, whose status poll()
\* ignores, is the subject of UnsetExposesZero.
StaleTimeIsFlagged ==
  /\ quality = "synced" /\ setOk => age < StaleAfter
  /\ age # Never => ~ExposesZero

\* A system clock that was never set is not shown: utc_now() gives timestamp
\* zero (README.md of the service: "Unsynchronized devices remain operational
\* and expose timestamp zero").  The code does not keep to it when set_utc()
\* fails.
UnsetExposesZero == age = Never => ExposesZero

\* Once it is polled the service never stops asking for the time: failed,
\* implausible, late and refused answers, connectivity that flaps and a clock
\* that wraps leave it neither waiting for an answer that was taken nor for a
\* time that is past.
RequestsGoOn == clock # 0 ~> asked
==============================================================================
