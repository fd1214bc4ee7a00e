-------------------------- MODULE EnvironmentMonitor -------------------------
(***************************************************************************)
(* The env_monitor product on its board: EnvironmentMonitor::run_once() in *)
(* an endless loop over the clock, the UART and the LED of NucleoL476rg.   *)
(* The loop turns far faster than the clock ticks, but a write blocks it   *)
(* for up to WriteTicks.  The user types at any speed.  The random numbers *)
(* are any, and the temperature is kept as far as the LED shows it.        *)
(***************************************************************************)
EXTENDS NucleoL476rg

CONSTANTS
  CliPeriod, SensorPeriod, TelemetryPeriod,    \* kCliPeriodMs, ..., in ticks
  CommandCapacity,                             \* kCommandCapacity
  Help, Status,                                \* the commands, as sequences
  MaxLine                                      \* bound on a typed line

ASSUME MonitorAssumption ==
  /\ {CliPeriod, SensorPeriod, TelemetryPeriod, CommandCapacity} \subseteq Nat \ {0}
  /\ MaxLine \in Nat
  /\ {Help, Status} \subseteq Seq(Characters) /\ Help # Status

VARIABLES
  lastCli, lastSensor, lastTelemetry,    \* last_cli_ms_, ...
  telemetryPending,                      \* telemetry_pending_
  command,                               \* command_ up to command_length_
  ran,          \* history: run_once() was called since the last tick
  silence,      \* history: ticks since the last telemetry
  answer,       \* history: what the last step answered to a command
  line,         \* history: the characters of the line so far that were not lost
  garbled,      \* history: a character of the line, or before it, was lost
  nextGarbled   \* history: a character after the Enter that is unread was lost

monitorVars == <<lastCli, lastSensor, lastTelemetry, telemetryPending, command, ran,
                 silence, answer, line, garbled, nextGarbled>>
lineVars == <<line, garbled, nextGarbled>>

MonitorInit ==
  /\ BoardInit
  /\ lastCli = 0 /\ lastSensor = 0 /\ lastTelemetry = 0 /\ telemetryPending = TRUE
  /\ command = <<>>
  /\ ran = FALSE /\ silence = TelemetryPeriod + WriteTicks
  /\ answer = "none" /\ line = <<>> /\ garbled = FALSE /\ nextGarbled = FALSE

-----------------------------------------------------------------------------
\* Mutant: the clock is compared as if it did not wrap.
IsDueUnwrapped(last, period) == tick >= last + period

\* is_due()
IsDue(last, period) == (tick - last) % TickModulus >= period

\* process_command()
Meaning(c) == CASE c = Help -> "help" [] c = Status -> "status" [] OTHER -> "unknown"

\* Mutant: a command is left in the buffer when it was processed.
EndLineKeeps ==
  /\ rdr = Enter
  /\ answer' = IF command = <<>> THEN "none" ELSE Meaning(command)
  /\ line' = <<>> /\ garbled' = nextGarbled /\ nextGarbled' = FALSE
  /\ UNCHANGED command

\* run_cli_task() reads the end of a line.
EndLine ==
  /\ rdr = Enter
  /\ answer' = IF command = <<>> THEN "none" ELSE Meaning(command)
  /\ command' = <<>>
  /\ line' = <<>> /\ garbled' = nextGarbled /\ nextGarbled' = FALSE

\* run_cli_task() reads a character; when the buffer is full it is dropped with
\* the buffer.
TakeCharacter ==
  /\ rdr \in Characters
  /\ IF Len(command) + 1 >= CommandCapacity
     THEN command' = <<>> /\ answer' = "too_long"
     ELSE command' = Append(command, rdr) /\ answer' = "none"
  /\ UNCHANGED lineVars

\* run_cli_task()
RunCli ==
  /\ Read
  /\ \/ EndLine \/ TakeCharacter
     \/ rdr = NoCharacter /\ answer' = "none" /\ UNCHANGED <<command, lineVars>>

\* What next_temperature_celsius() may give.
Temperatures == 23 .. 27

\* run_sensor_task(); an answer to "status" in the same run tells what was before.
RunSensor == \E t \in Temperatures : SetLd2(t > 25)

\* The calls of write_text() in one run: an answer, and telemetry.
Texts(answered, telemetry) ==
  (IF answered = "none" THEN 0 ELSE 1) + (IF telemetry THEN 1 ELSE 0)

\* run_telemetry_task(), in a run that takes d ticks; whether the text was cut
\* short is not looked at.
RunTelemetry(due, d) == silence' = d + (IF due THEN 0 ELSE silence)

\* run_once(), in the order CLI, sensor, telemetry.
RunOnce ==
  LET cli       == IsDue(lastCli, CliPeriod)
      sensor    == IsDue(lastSensor, SensorPeriod)
      telemetry == telemetryPending \/ IsDue(lastTelemetry, TelemetryPeriod)
  IN  /\ Initialized /\ ~ran
      /\ lastCli' = IF cli THEN tick ELSE lastCli
      /\ IF cli THEN RunCli
                ELSE answer' = "none" /\ UNCHANGED <<rdr, command, lineVars>>
      /\ lastSensor' = IF sensor THEN tick ELSE lastSensor
      /\ IF sensor THEN RunSensor ELSE UNCHANGED ld2
      /\ lastTelemetry' = IF telemetry THEN tick ELSE lastTelemetry
      /\ telemetryPending' = FALSE
      /\ \E d \in Writing(Texts(answer', telemetry)) :
           Ticks(d) /\ ran' = (d = 0) /\ RunTelemetry(telemetry, d)
      /\ UNCHANGED <<phase, configured, ready>>

\* SysTick, when the loop has turned at least once since the last one.  It runs
\* since configure_clock() ended.
SysTick ==
  /\ phase = Len(Steps) \/ (Initialized /\ ran)
  /\ Ticks(1)
  /\ ran' = FALSE
  /\ silence' = IF Initialized THEN silence + 1 ELSE silence
  /\ answer' = "none"
  /\ UNCHANGED <<phase, configured, ready, rdr, ld2, lastCli, lastSensor, lastTelemetry,
                 telemetryPending, command, lineVars>>

\* The user types a character.
Type(c) ==
  /\ Initialized /\ (c = Enter \/ Len(line) < MaxLine)
  /\ Arrive(c)
  /\ line' = IF rdr = NoCharacter /\ c # Enter THEN Append(line, c) ELSE line
  /\ garbled' = (garbled \/ rdr \in Characters)
  /\ nextGarbled' = (nextGarbled \/ (rdr = Enter /\ c # Enter))
  /\ answer' = "none"
  /\ UNCHANGED <<phase, configured, ready, tick, ld2, lastCli, lastSensor, lastTelemetry,
                 telemetryPending, command, ran, silence>>

MonitorNext ==
  \/ (Configure \/ Await \/ TakesEffect) /\ UNCHANGED monitorVars
  \/ RunOnce \/ SysTick
  \/ \E c \in Characters \cup {Enter} : Type(c)

MonitorSpec == MonitorInit /\ [][MonitorNext]_<<boardVars, monitorVars>>

-----------------------------------------------------------------------------
\* Properties.

\* What is executed is the line the user typed: a line of which no character
\* was lost and that fits the buffer is answered by its own meaning, never with
\* what a line before it left behind.
CommandIsLine ==
  [][ (rdr = Enter /\ rdr' = NoCharacter /\ ~garbled /\ Len(line) < CommandCapacity)
        => answer' = IF line = <<>> THEN "none" ELSE Meaning(line) ]_<<boardVars, monitorVars>>

\* Telemetry goes out as soon as the loop starts, and then every
\* TelemetryPeriod, late by no more than one blocking write, for ever: also
\* when the tick counter wraps.
TelemetryOnTime ==
  silence <= TelemetryPeriod + WriteTicks
==============================================================================
