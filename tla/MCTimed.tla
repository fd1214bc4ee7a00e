------------------------------- MODULE MCTimed -------------------------------
(* The parts that read the millisecond clock and share nothing else: the   *)
(* health monitor, the time service, the indication, the button, the       *)
(* env_monitor product and the network manager.  They do not call each     *)
(* other, so each behaviour runs one of them, the subject.  Every clock    *)
(* but the uptime of the network manager wraps many times.                 *)
EXTENDS HealthMonitor, TimeSync, Indication, ButtonInput, EnvironmentMonitor,
        NetworkManager

CONSTANTS f1, f2

VARIABLE subject

MCSources == 0 .. 2
MCDeadline == [s \in MCSources |-> s + 1]
MCRetryDelays == <<1, 2>>
MCDelays == <<1, 2, 3>>
MCFrames == {f1, f2}
MCHelp == <<"h">>
MCStatus == <<"s">>

productVars == <<boardVars, monitorVars>>
mcVars ==
  <<subject, vars, timeVars, indicationVars, buttonVars, productVars, networkVars>>

Health ==
  subject = "health" /\ Next
  /\ UNCHANGED <<subject, timeVars, indicationVars, buttonVars, productVars, networkVars>>
Time ==
  subject = "time" /\ TimeNext
  /\ UNCHANGED <<subject, vars, indicationVars, buttonVars, productVars, networkVars>>
Light ==
  subject = "light" /\ IndicationNext
  /\ UNCHANGED <<subject, vars, timeVars, buttonVars, productVars, networkVars>>
Button ==
  subject = "button" /\ ButtonNext
  /\ UNCHANGED <<subject, vars, timeVars, indicationVars, productVars, networkVars>>
Product ==
  subject = "product" /\ MonitorNext
  /\ UNCHANGED <<subject, vars, timeVars, indicationVars, buttonVars, networkVars>>
Network ==
  subject = "network" /\ NetworkNext
  /\ UNCHANGED <<subject, vars, timeVars, indicationVars, buttonVars, productVars>>

\* The button is not followed beyond MaxUptime.
Enough == subject = "button" /\ uptime + MaxGap > MaxUptime /\ UNCHANGED mcVars

MCInit ==
  /\ subject \in {"health", "time", "light", "button", "product", "network"}
  /\ Init /\ TimeInit /\ IndicationInit /\ ButtonInit /\ MonitorInit /\ NetworkInit

MCNext == Health \/ Time \/ Light \/ Button \/ Product \/ Network \/ Enough

\* The fairness of FairSpec; besides, the loop polls the time service, and the
\* time source answers every request it took.
MCSpec ==
  /\ MCInit /\ [][MCNext]_mcVars
  /\ WF_mcVars(Health /\ Tick)
  /\ WF_mcVars(Health /\ Restart /\ unfed = WatchdogTimeout)
  /\ WF_mcVars(Time /\ SomePoll)
  /\ WF_mcVars(Time /\ Answer)
==============================================================================
