----------------------------- MODULE ButtonInput -----------------------------
(***************************************************************************)
(* ButtonInput: debounce and classification of a sampled button.  A loop   *)
(* calls update() with a sample and the clock, up to MaxGap ticks after    *)
(* the call before.  The uptime is counted without end and kept modulo     *)
(* ClockRange in what the code stores, as std::uint32_t does.              *)
(***************************************************************************)
EXTENDS Integers

CONSTANTS
  DebounceMs, ShortPressMax, CommissioningMin, FactoryResetMin,  \* ButtonInputConfig
  ClockRange,      \* 2^32, in ticks
  MaxGap,          \* longest time between two samples
  MaxUptime        \* bound on the uptime

ASSUME ButtonAssumption ==
  /\ {DebounceMs, ShortPressMax, CommissioningMin, FactoryResetMin} \subseteq Nat
  /\ ShortPressMax < CommissioningMin /\ CommissioningMin < FactoryResetMin
  /\ ClockRange \in Nat \ {0} /\ MaxGap \in Nat \ {0} /\ MaxUptime \in Nat

VARIABLES
  uptime,        \* when update() was called last
  rawLast,       \* raw_last_
  stable,        \* stable_pressed_
  debouncing,    \* debouncing_
  lastChange,    \* last_change_ms_
  pressStart,    \* press_start_ms_
  event,         \* what the last update() returned
  changedAt,     \* history: uptime of the last change of the samples
  pressedAt,     \* history: uptime of the change that began the stable press
  held           \* history: how long the samples of the last press were pressed

buttonVars == <<uptime, rawLast, stable, debouncing, lastChange, pressStart, event,
                changedAt, pressedAt, held>>

ButtonInit ==
  /\ uptime = 0
  /\ rawLast = FALSE /\ stable = FALSE /\ debouncing = FALSE
  /\ lastChange = 0 /\ pressStart = 0 /\ event = "none"
  /\ changedAt = 0 /\ pressedAt = 0 /\ held = 0

\* a - b in std::uint32_t.
Since(a, b) == (a - b) % ClockRange

\* The class of a press that is released at t.
Release(t) ==
  LET ms == Since(t, pressStart)
  IN  CASE ms >= FactoryResetMin -> "factory_reset_press"
        [] ms >= CommissioningMin /\ ms < FactoryResetMin -> "commissioning_press"
        [] ms <= ShortPressMax -> "short_press"
        [] OTHER -> "none"

\* The sample differs from the last one: debouncing starts again.
Changed(raw, t) ==
  /\ raw # rawLast
  /\ rawLast' = raw /\ debouncing' = TRUE /\ lastChange' = t % ClockRange
  /\ event' = "none"
  /\ changedAt' = t
  /\ UNCHANGED <<stable, pressStart, pressedAt, held>>

\* The sample is the last one again, and nothing is decided.
Waiting(raw, t) ==
  /\ raw = rawLast
  /\ ~debouncing \/ Since(t, lastChange) < DebounceMs
  /\ event' = "none"
  /\ UNCHANGED <<rawLast, stable, debouncing, lastChange, pressStart, changedAt,
                 pressedAt, held>>

\* Mutant: the start of a press is not recorded.
SettledKeepsStart(raw, t) ==
  /\ raw = rawLast /\ debouncing /\ Since(t, lastChange) >= DebounceMs
  /\ debouncing' = FALSE
  /\ stable' = raw
  /\ event' = IF stable = raw THEN "none" ELSE IF raw THEN "press_started" ELSE Release(t)
  /\ pressedAt' = IF raw /\ ~stable THEN changedAt ELSE pressedAt
  /\ held' = IF ~raw /\ stable THEN changedAt - pressedAt ELSE held
  /\ UNCHANGED <<rawLast, lastChange, pressStart, changedAt>>

\* The samples were equal for the debounce time.
Settled(raw, t) ==
  /\ raw = rawLast /\ debouncing /\ Since(t, lastChange) >= DebounceMs
  /\ debouncing' = FALSE
  /\ stable' = raw
  /\ pressStart' = IF raw /\ ~stable THEN t % ClockRange ELSE pressStart
  /\ event' = IF stable = raw THEN "none" ELSE IF raw THEN "press_started" ELSE Release(t)
  /\ pressedAt' = IF raw /\ ~stable THEN changedAt ELSE pressedAt
  /\ held' = IF ~raw /\ stable THEN changedAt - pressedAt ELSE held
  /\ UNCHANGED <<rawLast, lastChange, changedAt>>

\* update()
Update(raw, t) ==
  /\ uptime' = t
  /\ Changed(raw, t) \/ Waiting(raw, t) \/ Settled(raw, t)

ButtonNext ==
  \E raw \in BOOLEAN, t \in uptime + 1 .. uptime + MaxGap :
    t <= MaxUptime /\ Update(raw, t)

ButtonSpec == ButtonInit /\ [][ButtonNext]_buttonVars

-----------------------------------------------------------------------------
\* Properties.

\* A press is classified by how long the button was really down, give or take
\* one sampling gap: bounces, releases that are noticed late and a wrap of the
\* clock do not turn a short press into a factory reset.  Only a press longer
\* than the range of the clock (49.7 days) is taken for a shorter one.
PressIsHeld ==
  /\ event = "factory_reset_press" => held > FactoryResetMin - MaxGap
  /\ event = "commissioning_press" => held > CommissioningMin - MaxGap
  /\ held + MaxGap < ClockRange =>
       /\ event = "commissioning_press" => held < FactoryResetMin + MaxGap
       /\ event = "short_press" => held < ShortPressMax + MaxGap
==============================================================================
