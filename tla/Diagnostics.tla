----------------------------- MODULE Diagnostics -----------------------------
(***************************************************************************)
(* DiagnosticsService: saturating counters, gauges, and the history of the *)
(* last faults, in the first-in first-out queue that OfflineQueue shows    *)
(* FixedRingBuffer to be.                                                  *)
(***************************************************************************)
EXTENDS Naturals, SequencesExt

CONSTANTS
  Counters,         \* the ids below kDiagnosticCounterCount
  CounterMax,       \* 0xFFFFFFFF
  Amounts,          \* what is added to a counter at once
  Faults,           \* FaultRecords
  FaultCapacity,    \* kFaultRingCapacity
  MaxFaults         \* bound on the faults that are recorded

ASSUME DiagnosticsAssumption ==
  /\ CounterMax \in Nat /\ Amounts \subseteq 0 .. CounterMax
  /\ FaultCapacity \in Nat \ {0} /\ MaxFaults \in Nat

VARIABLES
  counters,    \* counters_
  gauge,       \* a gauge of gauges_
  faults,      \* faults_, oldest first
  total,       \* history: the sum of what was added, up to twice the maximum
  recorded     \* history: all faults that were recorded

diagnosticsVars == <<counters, gauge, faults, total, recorded>>

DiagnosticsInit ==
  /\ counters = [i \in Counters |-> 0] /\ gauge = 0
  /\ faults = <<>> /\ total = [i \in Counters |-> 0] /\ recorded = <<>>

\* Mutant: the sum wraps.
SumWraps(old, amount) == (old + amount) % (CounterMax + 1)

\* old + amount, or the maximum when that is not std::uint32_t.
Sum(old, amount) == IF CounterMax - old < amount THEN CounterMax ELSE old + amount

\* increment(); an id out of range changes nothing.
Increment(id, amount) ==
  /\ counters' = [counters EXCEPT ![id] = Sum(@, amount)]
  /\ total' = [total EXCEPT ![id] = IF @ > CounterMax THEN @ ELSE @ + amount]
  /\ UNCHANGED <<gauge, faults, recorded>>

SetGauge(value) ==
  /\ gauge' = value
  /\ UNCHANGED <<counters, faults, total, recorded>>

\* record_fault()
RecordFault(f) ==
  /\ Len(recorded) < MaxFaults
  /\ faults' = Append(IF Len(faults) = FaultCapacity THEN Tail(faults) ELSE faults, f)
  /\ recorded' = Append(recorded, f)
  /\ UNCHANGED <<counters, gauge, total>>

DiagnosticsNext ==
  \/ \E id \in Counters, amount \in Amounts : Increment(id, amount)
  \/ \E value \in {0, 1} : SetGauge(value)
  \/ \E f \in Faults : RecordFault(f)

DiagnosticsSpec == DiagnosticsInit /\ [][DiagnosticsNext]_diagnosticsVars

-----------------------------------------------------------------------------
\* Properties.

\* A counter tells the true sum until it is full and then stays full, also when
\* one large amount passes the maximum, and the history is always the newest
\* faults in the order they happened.
DiagnosticsAreTrue ==
  /\ \A i \in Counters :
       counters[i] = IF total[i] > CounterMax THEN CounterMax ELSE total[i]
  /\ IsSuffix(faults, recorded)
  /\ Len(faults) = FaultCapacity \/ faults = recorded
==============================================================================
