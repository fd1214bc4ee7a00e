---------------------------- MODULE BinarySwitch -----------------------------
(***************************************************************************)
(* BinarySwitchService over two ESP32-C6 output pins and a state store.    *)
(* A call is cut into its port calls, each of which may fail, and power    *)
(* may be lost between any two of them.  The store is external: load() and *)
(* save() may fail, and a save() that fails may still have written.        *)
(***************************************************************************)
EXTENDS Naturals

CONSTANTS ActiveLow    \* the pins that are constructed with active_low

Pins == {"load", "indicator"}
States == {"on", "off"}
Opposite(s) == IF s = "on" THEN "off" ELSE "on"

ASSUME SwitchAssumption == ActiveLow \subseteq Pins

VARIABLES
  on,         \* state_.on
  step,       \* the port call the service is at; "dead" without power
  verb,       \* the call in progress, or the last one
  loadOk,     \* load_status
  status,     \* what the last call returned
  valid,      \* OutputPin::valid_
  level,      \* OutputPin::level_
  high,       \* the physical level of each pin, or "floating"
  medium,     \* what the store holds
  acked,      \* history: the last set() returned ok for this state
  defaulted   \* history: restore() found nothing it could load

switchVars == <<on, step, verb, loadOk, status, valid, level, high, medium, acked,
                defaulted>>

\* physical_high() of a logical level.
PhysicalHigh(p, s) == IF p \in ActiveLow THEN s = "off" ELSE s = "on"

\* gpio_write() of a logical level.
Physical(p, s) == IF PhysicalHigh(p, s) THEN "high" ELSE "low"

Unpowered == [p \in Pins |-> "floating"]

SwitchInit ==
  /\ on = "off" /\ step = "dead" /\ verb = "none" /\ loadOk = FALSE /\ status = "none"
  /\ valid = [p \in Pins |-> FALSE] /\ level = [p \in Pins |-> "off"]
  /\ high = Unpowered /\ medium = "empty" /\ acked = "none" /\ defaulted = FALSE

-----------------------------------------------------------------------------
\* configure_output() of the pins that succeed; the others stay as they are.
Outputs(configured) ==
  [p \in Pins |-> IF p \in configured THEN Physical(p, "off") ELSE "floating"]

\* The constructors of the pins, with initial_level low, and of the service.
Construct(configured) ==
  /\ step = "dead" /\ step' = "boot"
  /\ on' = "off" /\ verb' = "none" /\ status' = "none" /\ loadOk' = FALSE
  /\ valid' = [p \in Pins |-> p \in configured]
  /\ level' = [p \in Pins |-> "off"]
  /\ high' = Outputs(configured)
  /\ UNCHANGED <<medium, acked, defaulted>>

\* restore(): what cannot be loaded is OFF.
Restore(loaded) ==
  /\ step \in {"boot", "idle"} /\ step' = "load" /\ verb' = "restore"
  /\ on' = IF loaded THEN medium ELSE "off"
  /\ defaulted' = ~loaded
  /\ UNCHANGED <<loadOk, status, valid, level, high, medium, acked>>

\* set(), up to apply().
Set(s) ==
  /\ step = "idle" /\ step' = "load" /\ verb' = "set"
  /\ on' = s /\ acked' = "none"
  /\ UNCHANGED <<loadOk, status, valid, level, high, medium, defaulted>>

Toggle == Set(Opposite(on))

\* Mutant: the level is written without regard to active_low.
DriveUninverted(p, s) ==
  /\ valid[p]
  /\ high' = [high EXCEPT ![p] = IF s = "on" THEN "high" ELSE "low"]
  /\ level' = [level EXCEPT ![p] = s]

\* OutputPin::set() that returns ok.
Drive(p, s) ==
  /\ valid[p]
  /\ high' = [high EXCEPT ![p] = Physical(p, s)]
  /\ level' = [level EXCEPT ![p] = s]

ApplyLoad ==
  /\ step = "load" /\ step' = "indicator"
  /\ \/ Drive("load", on) /\ loadOk' = TRUE
     \/ loadOk' = FALSE /\ UNCHANGED <<level, high>>
  /\ UNCHANGED <<on, verb, status, valid, medium, acked, defaulted>>

\* apply() ends; only set() goes on to save, and only when both outputs took
\* the level.
ApplyIndicator ==
  /\ step = "indicator"
  /\ \/ /\ Drive("indicator", on) /\ loadOk
        /\ step' = IF verb = "set" THEN "save" ELSE "idle"
        /\ status' = IF verb = "set" THEN status ELSE "ok"
     \/ /\ \/ Drive("indicator", on) /\ ~loadOk
           \/ UNCHANGED <<level, high>>
        /\ step' = "idle" /\ status' = "io_error"
  /\ UNCHANGED <<on, verb, loadOk, valid, medium, acked, defaulted>>

Save ==
  /\ step = "save" /\ step' = "idle"
  /\ \/ medium' = on /\ status' = "ok" /\ acked' = on /\ defaulted' = FALSE
     \/ medium' \in {medium, on} /\ status' = "store_error" /\ UNCHANGED <<acked, defaulted>>
  /\ UNCHANGED <<on, verb, loadOk, valid, level, high>>

\* The environment.
LosePower ==
  /\ step # "dead" /\ step' = "dead"
  /\ high' = Unpowered
  /\ UNCHANGED <<on, verb, loadOk, status, valid, level, medium, acked, defaulted>>

SwitchNext ==
  \/ \E configured \in SUBSET Pins : Construct(configured)
  \/ Restore(FALSE)
  \/ medium # "empty" /\ Restore(TRUE)
  \/ \E s \in States : Set(s)
  \/ Toggle
  \/ ApplyLoad \/ ApplyIndicator \/ Save
  \/ LosePower

SwitchSpec == SwitchInit /\ [][SwitchNext]_switchVars

-----------------------------------------------------------------------------
\* Properties.

\* A call that returned ok means what it says: both pins are driven at the
\* state, each with its own polarity, and what set() acknowledged comes back
\* with the power, unless the store cannot be read, which gives OFF.
OkIsDurable ==
  step = "idle" /\ status = "ok" =>
    /\ \A p \in Pins : level[p] = on /\ high[p] = Physical(p, on)
    /\ acked # "none" => medium = acked /\ on = IF defaulted THEN "off" ELSE acked
==============================================================================
