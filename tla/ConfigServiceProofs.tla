------------------------- MODULE ConfigServiceProofs -------------------------
(***************************************************************************)
(* Proofs about ConfigService, for any keys, values, capacities, sequence  *)
(* width and number of faults.                                             *)
(***************************************************************************)
EXTENDS ConfigService, TLAPS

ReadStatuses == {"ok", "corrupt", "not_found", "io_error"}

-----------------------------------------------------------------------------
\* Type correctness.

\* The empty table is a table.
LEMMA EmptyIsTable == Empty \in Tables
  BY DEF Empty, Tables

\* sequence_ + 1 keeps its width.
LEMMA NextSeqType == ASSUME sequence \in Sequences PROVE NextSeq \in Sequences
  BY ConstantsAssumption DEF Sequences, NextSeq

\* A valid slot holds a snapshot.
LEMMA GoodSlot ==
  ASSUME slots \in [Slots -> Snapshots \cup {Bad}], NEW s \in Slots, slots[s] # Bad
  PROVE  /\ slots[s] \in Snapshots
         /\ slots[s].table \in Tables
         /\ slots[s].sequence \in Sequences
  BY DEF Snapshots

\* A slot that reads ok is valid, and initialize() selects one of those read.
LEMMA SelectedSlot ==
  ASSUME NEW st, \A s \in Slots : st[s] \in ReadStatus(s),
         {s \in Slots : st[s] = "ok"} # {}
  PROVE  LET sel == Select({s \in Slots : st[s] = "ok"})
         IN  sel \in Slots /\ slots[sel] # Bad
  <1> DEFINE valid == {s \in Slots : st[s] = "ok"}
  <1>1. \A s \in valid : slots[s] # Bad
    BY DEF ReadStatus
  <1>2. Select(valid) \in valid
    BY DEF Select, Slots
  <1> QED BY <1>1, <1>2

\* Initialize preserves the types.
LEMMA InitializeType ==
  ASSUME TypeOK, NEW st \in [Slots -> ReadStatuses], Initialize(st)
  PROVE  TypeOK'
  <1> DEFINE valid == {s \in Slots : st[s] = "ok"}
             sel == Select(valid)
  <1>1. faults' \in 0 .. MaxFaults
    BY ConstantsAssumption DEF TypeOK, Initialize, Fault
  <1>2. UNCHANGED <<slots, pc>>
    BY DEF Initialize
  <1>3. CASE valid # {} /\ Load(slots[sel].table, slots[sel].sequence, sel)
    <2>1. sel \in Slots /\ slots[sel] # Bad
      BY <1>3, SelectedSlot DEF Initialize
    <2>2. slots[sel].table \in Tables /\ slots[sel].sequence \in Sequences
      BY <2>1, GoodSlot DEF TypeOK
    <2> QED BY <1>1, <1>2, <1>3, <2>1, <2>2 DEF TypeOK, Load, Statuses
  <1>4. CASE Load(Empty, 0, 0)
    BY <1>1, <1>2, <1>4, EmptyIsTable, ConstantsAssumption
    DEF TypeOK, Load, Statuses, Slots, Sequences
  <1>5. CASE ret' = "io_error" /\ UNCHANGED <<ram, history>>
    BY <1>1, <1>2, <1>5 DEF TypeOK, Statuses, ram, history
  <1> QED BY <1>3, <1>4, <1>5 DEF Initialize

\* The snapshot a commit writes is decodable.
LEMMA WrittenType ==
  ASSUME TypeOK
  PROVE  /\ target \in Slots
         /\ [slots EXCEPT ![target] = Bad] \in [Slots -> Snapshots \cup {Bad}]
         /\ [slots EXCEPT ![target] = [sequence |-> NextSeq, table |-> table]]
              \in [Slots -> Snapshots \cup {Bad}]
  BY NextSeqType DEF TypeOK, target, Slots, Snapshots

\* Every step preserves the types.
LEMMA TypeStep == TypeOK /\ [Next]_vars => TypeOK'
  <1> SUFFICES ASSUME TypeOK, [Next]_vars PROVE TypeOK'
    OBVIOUS
  <1>1. ASSUME NEW st \in [Slots -> ReadStatuses], Initialize(st) PROVE TypeOK'
    BY <1>1, InitializeType
  <1>2. ASSUME NEW k \in Keys, NEW v \in Values, SetBlob(k, v) PROVE TypeOK'
    <2>1. table' \in Tables
      BY <1>2 DEF TypeOK, SetBlob, Tables
    <2> QED BY <1>2, <2>1 DEF TypeOK, SetBlob, Statuses, history
  <1>3. ASSUME NEW k \in Keys, Erase(k) PROVE TypeOK'
    BY <1>3 DEF TypeOK, Erase, Tables, Statuses, history
  <1>4. CASE CommitErase
    BY <1>4, WrittenType, ConstantsAssumption
    DEF TypeOK, CommitErase, Fault, Statuses, ram, history
  <1>5. CASE CommitWrite
    BY <1>5, WrittenType, NextSeqType, ConstantsAssumption
    DEF TypeOK, CommitWrite, Fault, Statuses
  <1>6. CASE PowerLoss
    <2>1. slots' \in [Slots -> Snapshots \cup {Bad}]
      BY <1>6, WrittenType DEF TypeOK, PowerLoss
    <2>2. faults' \in 0 .. MaxFaults
      BY <1>6, ConstantsAssumption DEF TypeOK, PowerLoss, Fault
    <2>3. 0 \in Slots /\ 0 \in Sequences
      BY ConstantsAssumption DEF Slots, Sequences
    <2> QED BY <1>6, <2>1, <2>2, <2>3, EmptyIsTable DEF TypeOK, PowerLoss, Statuses
  <1>7. ASSUME NEW s \in Slots, Decay(s) PROVE TypeOK'
    BY <1>7, ConstantsAssumption DEF TypeOK, Decay, Fault, ram, history
  <1>8. CASE UNCHANGED vars
    BY <1>8 DEF TypeOK, vars
  <1> QED BY <1>1, <1>2, <1>3, <1>4, <1>5, <1>6, <1>7, <1>8 DEF Next, ReadStatuses

\* Whatever storage and clients do, the state of ConfigService keeps its types;
\* in particular what is stored always decodes or is recognised as corrupt.
THEOREM TypeCorrect == Spec => []TypeOK
  <1>1. Init => TypeOK
    <2>1. 0 \in Slots /\ 0 \in Sequences /\ 0 \in 0 .. MaxFaults
      BY ConstantsAssumption DEF Slots, Sequences
    <2> QED BY <2>1, EmptyIsTable DEF Init, TypeOK, Statuses
  <1> QED BY <1>1, TypeStep, PTL DEF Spec

-----------------------------------------------------------------------------
\* What the A/B slots hold.

\* Clients wait for initialize() to succeed, stored snapshots stay readable,
\* and the device makes fewer than SeqModulus commits.
Disciplined == ~UncheckedBoot /\ ~MediaDecay /\ LastSeq < SeqModulus

\* Before the bound the sequence does not wrap.
LEMMA NoWrap ==
  ASSUME Disciplined, sequence \in Sequences, sequence <= LastSeq, sequence # LastSeq
  PROVE  NextSeq = sequence + 1
  BY ConstantsAssumption DEF Disciplined, Sequences, NextSeq

\* Initialize preserves SlotInv, with or without read errors.
LEMMA InitializeSlot ==
  ASSUME TypeOK, SlotInv, NEW st \in [Slots -> ReadStatuses], Initialize(st)
  PROVE  SlotInv'
  <1> DEFINE valid == {s \in Slots : st[s] = "ok"}
             sel == Select(valid)
  <1>1. UNCHANGED <<slots, pc>> /\ pc' = "idle" /\ Good' = Good
    BY DEF Initialize, Good
  <1>2. CASE valid # {} /\ Load(slots[sel].table, slots[sel].sequence, sel)
    <2>1. sel \in Slots /\ slots[sel] # Bad
      BY <1>2, SelectedSlot DEF Initialize
    <2>2. slots[sel] \in Snapshots
      BY <2>1, GoodSlot DEF TypeOK
    <2>3. slots[sel] = [sequence |-> slots[sel].sequence, table |-> slots[sel].table]
      BY <2>2 DEF Snapshots
    <2>4. slots[sel].sequence <= LastSeq
      BY <2>1 DEF SlotInv, Good
    <2> QED BY <1>1, <1>2, <2>3, <2>4 DEF SlotInv, Load
  <1>3. CASE valid = {} /\ "io_error" \notin {st[0], st[1]} /\ Load(Empty, 0, 0)
    <2>1. slots[0] = Bad
      BY <1>3 DEF Initialize, ReadStatus, Slots
    <2> QED BY <1>1, <1>3, <2>1, ConstantsAssumption DEF SlotInv, Load
  <1>4. CASE ret' = "io_error" /\ UNCHANGED <<ram, history>>
    BY <1>1, <1>4 DEF SlotInv, ram, history
  <1> QED BY <1>2, <1>3, <1>4 DEF Initialize

\* Edits of RAM do not concern the slots.
LEMMA EditSlot ==
  ASSUME SlotInv, UNCHANGED <<slots, sequence, active, pc, history>>
  PROVE  SlotInv'
  BY DEF SlotInv, Good, target, history

\* Neither the erase nor the write of a commit disturbs the active slot.
LEMMA CommitSlot ==
  ASSUME Disciplined, TypeOK, SlotInv, CommitErase \/ CommitWrite
  PROVE  SlotInv'
  <1>1. target \in Slots /\ active \in Slots /\ target # active
        /\ Slots = {active, target}
    BY DEF TypeOK, target, Slots
  <1>2. CASE CommitErase
    <2>1. initialized /\ sequence # LastSeq
      BY <1>2 DEF CommitErase, Callable, Disciplined
    <2>2. slots' = slots \/ slots' = [slots EXCEPT ![target] = Bad]
      BY <1>2 DEF CommitErase
    <2>3. slots'[active] = slots[active]
      BY <1>1, <2>2 DEF TypeOK
    <2>4. UNCHANGED <<ram, history>> /\ target' = target
      BY <1>2 DEF CommitErase, ram, target
    <2>5. pc' = "writing" => slots'[target] = Bad
      BY <1>1, <1>2 DEF CommitErase, TypeOK, Callable
    <2>6. \A s \in Slots : slots'[s] = slots[s] \/ slots'[s] = Bad
      BY <2>2 DEF TypeOK
    <2> QED BY <2>1, <2>3, <2>4, <2>5, <2>6 DEF SlotInv, Good, ram, history, Slots
  <1>3. CASE CommitWrite
    <2> DEFINE snap == [sequence |-> NextSeq, table |-> table]
    <2>1. initialized /\ sequence # LastSeq /\ slots[target] = Bad
      BY <1>3 DEF CommitWrite, SlotInv
    <2>2. NextSeq = sequence + 1 /\ NextSeq <= LastSeq /\ sequence \in Nat
      BY <2>1, NoWrap, ConstantsAssumption DEF TypeOK, SlotInv, Sequences
    <2>3. slots' = slots \/ slots' = [slots EXCEPT ![target] = snap]
      BY <1>3 DEF CommitWrite
    <2>4. slots'[active] = slots[active]
          /\ (slots'[target] = Bad \/ slots'[target] = snap)
      BY <1>1, <2>1, <2>3 DEF TypeOK
    <2>5. slots[active] = Bad \/ slots[active].sequence = sequence
      BY <2>1 DEF SlotInv
    <2>6. (Good = Slots => slots[0].sequence # slots[1].sequence)'
      BY <1>1, <2>2, <2>4, <2>5 DEF Good, Slots
    <2>7. (\A s \in Good : slots[s].sequence <= LastSeq)'
      BY <1>1, <2>2, <2>4 DEF SlotInv, Good
    <2>8. CASE UNCHANGED <<sequence, active, acked>>
      BY <1>3, <2>1, <2>4, <2>6, <2>7, <2>8 DEF CommitWrite, SlotInv
    <2>9. CASE slots' = [slots EXCEPT ![target] = snap] /\ active' = target
               /\ sequence' = NextSeq /\ acked' = table
      <3>1. slots'[active'] = [sequence |-> sequence', table |-> acked']
        BY <1>1, <2>9 DEF TypeOK
      <3> QED BY <1>3, <2>2, <2>6, <2>7, <2>9, <3>1 DEF CommitWrite, SlotInv
    <2> QED BY <1>3, <2>8, <2>9 DEF CommitWrite
  <1> QED BY <1>2, <1>3

\* A power loss leaves in the slots what they held, or the torn commit whole.
LEMMA PowerLossSlot ==
  ASSUME Disciplined, TypeOK, SlotInv, PowerLoss
  PROVE  SlotInv'
  <1> DEFINE snap == [sequence |-> NextSeq, table |-> table]
  <1>1. target \in Slots /\ active \in Slots /\ target # active
        /\ Slots = {active, target}
    BY DEF TypeOK, target, Slots
  <1>2. initialized' = FALSE /\ pc' = "idle" /\ sequence' = 0
    BY DEF PowerLoss
  <1>3. CASE slots' = slots
    BY <1>2, <1>3, ConstantsAssumption DEF SlotInv, Good
  <1>4. CASE pc = "writing" /\ slots' = [slots EXCEPT ![target] = snap]
    <2>1. initialized /\ sequence # LastSeq
      BY <1>4 DEF SlotInv
    <2>2. NextSeq = sequence + 1 /\ NextSeq <= LastSeq /\ sequence \in Nat
      BY <2>1, NoWrap, ConstantsAssumption DEF TypeOK, SlotInv, Sequences
    <2>3. slots'[active] = slots[active] /\ slots'[target] = snap
      BY <1>1, <1>4 DEF TypeOK
    <2>4. slots[active] = Bad \/ slots[active].sequence = sequence
      BY <2>1 DEF SlotInv
    <2>5. (Good = Slots => slots[0].sequence # slots[1].sequence)'
      BY <1>1, <2>2, <2>3, <2>4 DEF Good, Slots
    <2>6. (\A s \in Good : slots[s].sequence <= LastSeq)'
      BY <1>1, <2>2, <2>3 DEF SlotInv, Good
    <2> QED BY <1>2, <2>5, <2>6, ConstantsAssumption DEF SlotInv
  <1> QED BY <1>3, <1>4 DEF PowerLoss

\* Every step preserves SlotInv.
LEMMA SlotStep ==
  ASSUME Disciplined PROVE TypeOK /\ SlotInv /\ [Next]_vars => SlotInv'
  <1> SUFFICES ASSUME TypeOK, SlotInv, [Next]_vars PROVE SlotInv'
    OBVIOUS
  <1>1. ASSUME NEW st \in [Slots -> ReadStatuses], Initialize(st) PROVE SlotInv'
    BY <1>1, InitializeSlot
  <1>2. ASSUME NEW k \in Keys, NEW v \in Values, SetBlob(k, v) PROVE SlotInv'
    BY <1>2, EditSlot DEF SetBlob
  <1>3. ASSUME NEW k \in Keys, Erase(k) PROVE SlotInv'
    BY <1>3, EditSlot DEF Erase
  <1>4. CASE CommitErase \/ CommitWrite
    BY <1>4, CommitSlot
  <1>5. CASE PowerLoss
    BY <1>5, PowerLossSlot
  <1>6. ASSUME NEW s \in Slots, Decay(s) PROVE SlotInv'
    BY <1>6 DEF Decay, Disciplined
  <1>7. CASE UNCHANGED vars
    BY <1>7, EditSlot DEF vars, history
  <1> QED BY <1>1, <1>2, <1>3, <1>4, <1>5, <1>6, <1>7 DEF Next, ReadStatuses

\* However commits fail, are interrupted or are retried, and even when reads
\* fail, the active slot holds exactly the table last acknowledged, and a
\* commit only ever touches the other slot.
THEOREM SlotCorrect == ASSUME Disciplined PROVE Spec => []SlotInv
  <1>1. Init => SlotInv
    BY ConstantsAssumption DEF Init, SlotInv, Good, Slots
  <1> QED BY <1>1, TypeCorrect, SlotStep, PTL DEF Spec

-----------------------------------------------------------------------------
\* Errors leave RAM alone.

\* No call that reports an error changes the RAM table, in any environment.
THEOREM RamTableSafe == Spec => RamTableSurvivesFailures
  <1>1. ASSUME [Next]_vars, ret' \notin {"ok", "none"} PROVE table' = table
    <2>1. ASSUME NEW st \in [Slots -> ReadStatuses], Initialize(st)
          PROVE  table' = table
      BY <1>1, <2>1 DEF Initialize, Load, ram
    <2>2. ASSUME NEW k \in Keys, NEW v \in Values, SetBlob(k, v)
          PROVE  table' = table
      BY <1>1, <2>2 DEF SetBlob
    <2>3. ASSUME NEW k \in Keys, Erase(k) PROVE table' = table
      BY <1>1, <2>3 DEF Erase
    <2>4. ASSUME NEW s \in Slots, Decay(s) PROVE table' = table
      BY <2>4 DEF Decay, ram
    <2>5. CASE CommitErase \/ CommitWrite \/ PowerLoss \/ UNCHANGED vars
      BY <1>1, <2>5 DEF CommitErase, CommitWrite, PowerLoss, vars, ram
    <2> QED BY <1>1, <2>1, <2>2, <2>3, <2>4, <2>5 DEF Next, ReadStatuses
  <1>2. [Next]_vars => [ret' \notin {"ok", "none"} => table' = table]_vars
    BY <1>1
  <1> QED BY <1>2, PTL DEF Spec, RamTableSurvivesFailures

-----------------------------------------------------------------------------
\* One fault.

\* Slot s holds one of the last two tables that were acknowledged.
Holds(s) == slots[s] # Bad /\ slots[s].table \in {acked, previous}

\* The inductive invariant: without a fault both slots hold an acknowledged
\* table, except the one a commit is writing, and the active one holds the last;
\* so whatever slot the first fault hits, the other remains, and after it a
\* commit that erases the remaining one puts the new table in its place.
KeepInv ==
  /\ faults = 0 /\ sequence # 0 => slots[active] # Bad /\ slots[active].table = acked
  /\ faults = 0 /\ previous # Absent =>
       \A s \in Slots : Holds(s) \/ (pc = "writing" /\ s = target)
  /\ faults = 1 /\ previous # Absent /\ pc = "idle" => \E s \in Slots : Holds(s)

\* The target is the other slot.
LEMMA TwoSlots ==
  ASSUME TypeOK
  PROVE  target \in Slots /\ active \in Slots /\ target # active /\ Slots = {active, target}
  BY DEF TypeOK, target, Slots

\* A fault is the first or a later one.
LEMMA FaultCount ==
  ASSUME TypeOK, Fault
  PROVE  faults' # 0 /\ (faults' = 1 => faults = 0)
  BY ConstantsAssumption DEF TypeOK, Fault

\* A recovery keeps previous only if it loads the last acknowledged table.
LEMMA InitializeKeeps ==
  ASSUME TypeOK, KeepInv, NEW st \in [Slots -> ReadStatuses], Initialize(st)
  PROVE  KeepInv'
  <1> DEFINE valid == {s \in Slots : st[s] = "ok"}
             sel == Select(valid)
             failed == "io_error" \in {st[0], st[1]}
  <1>1. /\ pc = "idle" /\ UNCHANGED <<slots, pc>>
        /\ \A s \in Slots : st[s] \in ReadStatus(s)
        /\ IF failed THEN Fault ELSE UNCHANGED faults
    BY DEF Initialize
  <1>2. faults' = 0 => faults = 0
    BY <1>1, FaultCount
  <1>3. faults' = 1 => faults = 0 \/ (faults = 1 /\ ~failed)
    BY <1>1, FaultCount
  <1>4. faults' \in {0, 1} /\ previous # Absent => \E s \in Slots : Holds(s)
    BY <1>1, <1>2, <1>3 DEF KeepInv, Slots
  <1>5. CASE valid # {} /\ Load(slots[sel].table, slots[sel].sequence, sel)
    <2>1. sel \in Slots /\ slots[sel] # Bad
      BY <1>1, <1>5, SelectedSlot
    <2>2. active' = sel /\ acked' = slots[sel].table
      BY <1>5 DEF Load
    <2>3. previous' # Absent => acked' = acked /\ previous' = previous
      BY <1>5, <2>2 DEF Load
    <2> HIDE DEF sel, valid
    <2>4. previous' # Absent => \A s \in Slots : Holds(s)' <=> Holds(s)
      BY <1>1, <2>3 DEF Holds
    <2>5. (faults = 0 /\ sequence # 0 => slots[active] # Bad /\ slots[active].table = acked)'
      BY <1>1, <2>1, <2>2
    <2> QED BY <1>1, <1>2, <1>4, <2>3, <2>4, <2>5 DEF KeepInv
  <1>6. CASE valid = {} /\ ~failed /\ Load(Empty, 0, 0)
    <2>1. \A s \in Slots : slots[s] = Bad
      BY <1>1, <1>6 DEF ReadStatus, Slots
    <2>2. sequence' = 0 /\ (previous' # Absent => previous # Absent)
      BY <1>6 DEF Load
    <2>3. faults' \in {0, 1} => previous' = Absent
      BY <1>4, <2>1, <2>2 DEF Holds
    <2> QED BY <2>2, <2>3 DEF KeepInv
  <1>7. CASE failed /\ ret' = "io_error" /\ UNCHANGED <<ram, history>>
    <2>1. UNCHANGED <<table, sequence, active, initialized, acked, previous, slots, pc>>
      BY <1>1, <1>7 DEF ram, history
    <2>2. \A s \in Slots : Holds(s)' <=> Holds(s)
      BY <2>1 DEF Holds
    <2>3. faults' # 0
      BY <1>1, <1>7, FaultCount
    <2> QED BY <1>4, <2>1, <2>2, <2>3 DEF KeepInv
  <1> QED BY <1>5, <1>6, <1>7 DEF Initialize

\* The erase of a commit leaves the active slot.
LEMMA EraseKeeps == ASSUME TypeOK, KeepInv, CommitErase PROVE KeepInv'
  <1>1. target \in Slots /\ active \in Slots /\ target # active /\ Slots = {active, target}
    BY TwoSlots
  <1>2. /\ pc = "idle" /\ UNCHANGED <<table, sequence, active, initialized, acked, previous>>
        /\ slots' \in {slots, [slots EXCEPT ![target] = Bad]}
        /\ (pc' = "writing" /\ UNCHANGED faults) \/ (Fault /\ UNCHANGED pc)
    BY DEF CommitErase, Callable, ram, history
  <1>3. slots'[active] = slots[active] /\ target' = target
    BY <1>1, <1>2 DEF TypeOK, target
  <1>4. Holds(active) => Holds(active)'
    BY <1>2, <1>3 DEF Holds
  <1>5. faults' = 0 => faults = 0 /\ pc' = "writing"
    BY <1>2, FaultCount
  <1>6. faults' = 1 /\ pc' = "idle" => faults = 0
    BY <1>2, FaultCount
  <1>7. faults = 0 /\ previous # Absent => Holds(active)
    BY <1>1, <1>2 DEF KeepInv
  <1>8. (faults = 0 /\ sequence # 0 => slots[active] # Bad /\ slots[active].table = acked)'
    BY <1>2, <1>3, <1>5 DEF KeepInv
  <1>9. (faults = 0 /\ previous # Absent =>
          \A s \in Slots : Holds(s) \/ (pc = "writing" /\ s = target))'
    BY <1>1, <1>2, <1>3, <1>4, <1>5, <1>7
  <1>10. (faults = 1 /\ previous # Absent /\ pc = "idle" => \E s \in Slots : Holds(s))'
    BY <1>1, <1>2, <1>4, <1>6, <1>7
  <1> QED BY <1>8, <1>9, <1>10 DEF KeepInv

\* The write of a commit stores what it acknowledges, or leaves the active slot.
LEMMA WriteKeeps == ASSUME TypeOK, KeepInv, CommitWrite PROVE KeepInv'
  <1> DEFINE snap == [sequence |-> NextSeq, table |-> table]
  <1>1. target \in Slots /\ active \in Slots /\ target # active /\ Slots = {active, target}
    BY TwoSlots
  <1>2. pc = "writing" /\ pc' = "idle"
    BY DEF CommitWrite
  <1>3. CASE /\ slots' = [slots EXCEPT ![target] = snap]
             /\ active' = target /\ sequence' = NextSeq /\ acked' = table
             /\ previous' = IF sequence = 0 THEN Absent ELSE acked
             /\ UNCHANGED faults
    <2>1. slots'[target] = snap /\ slots'[active] = slots[active]
      BY <1>1, <1>3 DEF TypeOK
    <2>2. snap # Bad /\ snap.table = table
      BY NextSeqType, BadAssumption DEF TypeOK, Snapshots
    <2> HIDE DEF snap
    <2>3. slots'[target] # Bad /\ slots'[target].table = acked'
      BY <1>3, <2>1, <2>2
    <2>4. ASSUME faults' = 0, previous' # Absent
          PROVE  slots'[active] # Bad /\ slots'[active].table = previous'
      BY <1>3, <2>1, <2>4 DEF KeepInv
    <2>5. slots'[target] # Bad /\ slots'[target].table \in {acked', previous'}
      BY <2>3
    <2>6. faults' = 0 /\ previous' # Absent =>
            \A s \in Slots : slots'[s] # Bad /\ slots'[s].table \in {acked', previous'}
      BY <1>1, <2>4, <2>5
    <2>7. (faults = 0 /\ previous # Absent => \A s \in Slots : Holds(s))'
      BY <2>6 DEF Holds
    <2>8. (\E s \in Slots : Holds(s))'
      BY <1>1, <2>5 DEF Holds
    <2>9. slots'[active'] # Bad /\ slots'[active'].table = acked'
      BY <1>3, <2>3
    <2> QED BY <2>7, <2>8, <2>9 DEF KeepInv
  <1>4. CASE /\ Fault /\ slots' \in {slots, [slots EXCEPT ![target] = snap]}
             /\ UNCHANGED <<sequence, active, acked, previous>>
    <2>1. slots'[active] = slots[active]
      BY <1>1, <1>4 DEF TypeOK
    <2>2. faults' # 0 /\ (faults' = 1 => faults = 0)
      BY <1>4, FaultCount
    <2>3. faults = 0 /\ previous # Absent => Holds(active)
      BY <1>1 DEF KeepInv
    <2>4. Holds(active) => slots'[active] # Bad /\ slots'[active].table \in {acked', previous'}
      BY <1>4, <2>1 DEF Holds
    <2>5. Holds(active) => (\E s \in Slots : Holds(s))'
      BY <1>1, <2>4 DEF Holds
    <2> QED BY <1>4, <2>2, <2>3, <2>5 DEF KeepInv
  <1> QED BY <1>3, <1>4 DEF CommitWrite

\* A power loss hits at most the slot that is being written.
LEMMA PowerLossKeeps == ASSUME TypeOK, KeepInv, PowerLoss PROVE KeepInv'
  <1>1. target \in Slots /\ active \in Slots /\ target # active /\ Slots = {active, target}
    BY TwoSlots
  <1>2. pc' = "idle" /\ sequence' = 0 /\ UNCHANGED <<acked, previous>>
    BY DEF PowerLoss
  <1>3. CASE pc = "writing"
    <2>1. /\ Fault
          /\ slots' \in {slots, [slots EXCEPT ![target] = [sequence |-> NextSeq, table |-> table]]}
      BY <1>3 DEF PowerLoss
    <2>2. slots'[active] = slots[active]
      BY <1>1, <2>1 DEF TypeOK
    <2>3. faults' # 0 /\ (faults' = 1 => faults = 0)
      BY <2>1, FaultCount
    <2>4. faults = 0 /\ previous # Absent => Holds(active)
      BY <1>1 DEF KeepInv
    <2>5. Holds(active) => slots'[active] # Bad /\ slots'[active].table \in {acked', previous'}
      BY <1>2, <2>2 DEF Holds
    <2>6. Holds(active) => (\E s \in Slots : Holds(s))'
      BY <1>1, <2>5 DEF Holds
    <2> QED BY <1>2, <2>3, <2>4, <2>6 DEF KeepInv
  <1>4. CASE pc = "idle"
    <2>1. UNCHANGED <<faults, slots>>
      BY <1>4 DEF PowerLoss
    <2>2. \A s \in Slots : Holds(s)' <=> Holds(s)
      BY <1>2, <2>1 DEF Holds
    <2> QED BY <1>2, <1>4, <2>1, <2>2 DEF KeepInv
  <1> QED BY <1>3, <1>4 DEF TypeOK

\* A slot that decays leaves the other.
LEMMA DecayKeeps == ASSUME TypeOK, KeepInv, NEW s \in Slots, Decay(s) PROVE KeepInv'
  <1>1. /\ Fault /\ slots' = [slots EXCEPT ![s] = Bad]
        /\ UNCHANGED <<table, sequence, active, initialized, acked, previous, pc>>
    BY DEF Decay, ram, history
  <1>2. faults' # 0 /\ (faults' = 1 => faults = 0)
    BY <1>1, FaultCount
  <1>3. PICK r \in Slots : r # s
    BY DEF Slots
  <1>4. slots'[r] = slots[r]
    BY <1>1, <1>3 DEF TypeOK
  <1>5. Holds(r) => slots'[r] # Bad /\ slots'[r].table \in {acked', previous'}
    BY <1>1, <1>4 DEF Holds
  <1>6. Holds(r) => (\E x \in Slots : Holds(x))'
    BY <1>3, <1>5 DEF Holds
  <1>7. faults = 0 /\ previous # Absent /\ pc = "idle" => Holds(r)
    BY <1>3 DEF KeepInv
  <1> QED BY <1>1, <1>2, <1>6, <1>7 DEF KeepInv

\* Two acknowledged commits survive any one fault, in every environment: with
\* read errors, decay, a sequence that wraps, and clients that do not wait for
\* initialize().
THEOREM OneFaultKeepsHolds == Spec => []OneFaultKeepsAConfiguration
  <1>1. Init => KeepInv
    BY DEF Init, KeepInv
  <1>2. ASSUME TypeOK, KeepInv, [Next]_vars PROVE KeepInv'
    <2>1. ASSUME UNCHANGED <<slots, sequence, active, pc, acked, previous, faults>>
          PROVE  KeepInv'
      <3>1. target' = target /\ \A s \in Slots : Holds(s)' <=> Holds(s)
        BY <2>1 DEF Holds, target
      <3> QED BY <1>2, <2>1, <3>1 DEF KeepInv
    <2>2. ASSUME NEW k \in Keys, NEW v \in Values, SetBlob(k, v) PROVE KeepInv'
      BY <2>1, <2>2 DEF SetBlob, history
    <2>3. ASSUME NEW k \in Keys, Erase(k) PROVE KeepInv'
      BY <2>1, <2>3 DEF Erase, history
    <2>4. CASE UNCHANGED vars
      BY <2>1, <2>4 DEF vars
    <2> QED BY <1>2, <2>2, <2>3, <2>4, InitializeKeeps, EraseKeeps, WriteKeeps,
               PowerLossKeeps, DecayKeeps DEF Next, ReadStatuses
  <1>3. ASSUME TypeOK, KeepInv PROVE OneFaultKeepsAConfiguration
    <2>1. faults <= 1 => faults = 0 \/ faults = 1
      BY <1>3, ConstantsAssumption DEF TypeOK
    <2>2. pc = "idle" /\ previous # Absent /\ faults <= 1 => \E s \in Slots : Holds(s)
      BY <1>3, <2>1 DEF KeepInv, Slots
    <2> QED BY <2>2 DEF OneFaultKeepsAConfiguration, Holds, Good
  <1> QED BY <1>1, <1>2, <1>3, TypeCorrect, PTL DEF Spec

-----------------------------------------------------------------------------
\* The slots implement an atomic durable table.

\* With the target slot empty the last acknowledged table is the newest.
LEMMA NewestIsAcked ==
  ASSUME TypeOK, SlotInv, initialized, slots[target] = Bad
  PROVE  Newest = {acked}
  <1>1. target \in Slots /\ active \in Slots /\ Slots = {active, target}
    BY DEF TypeOK, target, Slots
  <1>2. CASE slots[active] = Bad
    <2>1. [sequence |-> sequence, table |-> acked] # Bad
      BY BadAssumption DEF TypeOK, Snapshots
    <2>2. acked = Empty /\ Good = {}
      BY <1>1, <1>2, <2>1 DEF Good, SlotInv
    <2> QED BY <2>2 DEF Newest
  <1>3. CASE slots[active] # Bad
    <2>1. Good = {active} /\ slots[active].table = acked
      BY <1>1, <1>3 DEF Good, SlotInv
    <2>2. slots[active].sequence \in Sequences
      BY <1>1, <1>3, GoodSlot DEF TypeOK
    <2> QED BY <2>1, <2>2 DEF Newest, Sequences
  <1> QED BY <1>2, <1>3

\* The same once the target slot has been erased.
LEMMA NewestAfterErase ==
  ASSUME TypeOK, SlotInv, initialized, slots' = [slots EXCEPT ![target] = Bad]
  PROVE  Newest' = {acked}
  <1>1. target \in Slots /\ active \in Slots /\ target # active
        /\ Slots = {active, target}
    BY DEF TypeOK, target, Slots
  <1>2. slots'[active] = slots[active] /\ slots'[target] = Bad
    BY <1>1 DEF TypeOK
  <1>3. CASE slots[active] = Bad
    <2>1. [sequence |-> sequence, table |-> acked] # Bad
      BY BadAssumption DEF TypeOK, Snapshots
    <2>2. acked = Empty /\ Good' = {}
      BY <1>1, <1>2, <1>3, <2>1 DEF Good, SlotInv
    <2> QED BY <2>2 DEF Newest
  <1>4. CASE slots[active] # Bad
    <2>1. Good' = {active} /\ slots'[active].table = acked
      BY <1>1, <1>2, <1>4 DEF Good, SlotInv
    <2>2. slots'[active].sequence \in Sequences
      BY <1>1, <1>2, <1>4, GoodSlot DEF TypeOK
    <2> QED BY <2>1, <2>2 DEF Newest, Sequences
  <1> QED BY <1>3, <1>4

\* Once a commit's snapshot is in the target slot, its table is the newest.
LEMMA NewestAfterWrite ==
  ASSUME Disciplined, TypeOK, SlotInv, initialized, sequence # LastSeq,
         slots' = [slots EXCEPT ![target] = [sequence |-> NextSeq, table |-> table]]
  PROVE  Newest' = {table}
  <1> DEFINE snap == [sequence |-> NextSeq, table |-> table]
  <1>1. target \in Slots /\ active \in Slots /\ target # active
        /\ Slots = {active, target}
    BY DEF TypeOK, target, Slots
  <1>2. slots'[active] = slots[active] /\ slots'[target] = snap
    BY <1>1 DEF TypeOK
  <1>3. NextSeq = sequence + 1 /\ sequence \in Nat
    BY NoWrap DEF TypeOK, SlotInv, Sequences
  <1>4. snap # Bad
    BY NextSeqType, BadAssumption DEF TypeOK, Snapshots
  <1>5. slots[active] = Bad \/ slots[active].sequence = sequence
    BY DEF SlotInv
  <1>6. {g \in Good' : \A r \in Good' : slots'[g].sequence >= slots'[r].sequence}
          = {target}
    BY <1>1, <1>2, <1>3, <1>4, <1>5 DEF Good
  <1>7. Good' # {}
    BY <1>1, <1>2, <1>4 DEF Good
  <1>8. Newest' = {slots'[s].table : s \in {target}}
    BY <1>6, <1>7 DEF Newest
  <1> QED BY <1>2, <1>8

\* Without read errors initialize() loads the newest snapshot, and there is
\* only one that is the newest.
LEMMA InitializeLoads ==
  ASSUME ~ReadFaults, TypeOK, SlotInv, NEW st \in [Slots -> ReadStatuses],
         Initialize(st)
  PROVE  /\ initialized' = TRUE /\ acked' = table' /\ Newest = {table'}
         /\ UNCHANGED <<slots, pc>> /\ pc = "idle"
  <1> DEFINE valid == {s \in Slots : st[s] = "ok"}
             sel == Select(valid)
  <1>1. valid = Good /\ "io_error" \notin {st[0], st[1]}
    BY DEF Initialize, ReadStatus, Good, Slots
  <1>2. CASE valid # {} /\ Load(slots[sel].table, slots[sel].sequence, sel)
    <2>1. \A s \in Good : slots[s].sequence \in Nat
      BY GoodSlot DEF TypeOK, Good, Sequences
    <2>2. sel \in Good
      BY <1>1, <1>2 DEF Select, Good, Slots
    <2>3. \A r \in Good : slots[sel].sequence >= slots[r].sequence
      BY <1>1, <2>1 DEF Select, Good, Slots
    <2>4. \A s \in Good : s # sel => ~(slots[s].sequence >= slots[sel].sequence)
      BY <2>1, <2>2, <2>3 DEF SlotInv, Good, Slots
    <2>5. {g \in Good : \A r \in Good : slots[g].sequence >= slots[r].sequence} = {sel}
      BY <2>2, <2>3, <2>4
    <2>6. Newest = {slots[s].table : s \in {sel}}
      <3> HIDE DEF sel
      <3> QED BY <2>2, <2>5 DEF Newest
    <2>7. Newest = {slots[sel].table}
      BY <2>6
    <2> QED BY <1>2, <2>7 DEF Load, Initialize
  <1>3. CASE valid = {} /\ Load(Empty, 0, 0)
    BY <1>1, <1>3 DEF Newest, Load, Initialize
  <1> QED BY <1>1, <1>2, <1>3 DEF Initialize

\* A recovery that says ok has loaded the newest valid snapshot, provided the
\* storage can be read.
THEOREM LoadsNewestHolds ==
  ASSUME Disciplined, ~ReadFaults PROVE Spec => LoadsNewest
  <1>1. ASSUME TypeOK, SlotInv, NEW st \in [Slots -> ReadStatuses], Initialize(st)
        PROVE  table' \in Newest
    BY <1>1, InitializeLoads
  <1>2. TypeOK /\ SlotInv =>
          [(\E st \in [Slots -> {"ok", "corrupt", "not_found", "io_error"}] :
              Initialize(st)) /\ ret' = "ok" => table' \in Newest]_vars
    BY <1>1 DEF ReadStatuses
  <1> QED BY <1>2, TypeCorrect, SlotCorrect, PTL DEF Spec, LoadsNewest

\* The steps of a commit are attempts of the store, or its acknowledgement.
LEMMA CommitImplements ==
  ASSUME Disciplined, TypeOK, SlotInv, CommitErase \/ CommitWrite, TypeOK', SlotInv'
  PROVE  Store!Attempt \/ Store!Acknowledge
  <1>1. target \in Slots /\ active \in Slots /\ target # active
        /\ Slots = {active, target}
    BY DEF TypeOK, target, Slots
  <1>2. initialized /\ initialized' = initialized /\ table' = table
    BY DEF CommitErase, CommitWrite, Callable, SlotInv, Disciplined, ram, history
  <1>3. CASE CommitErase
    <2>1. acked' = acked /\ target' = target
      BY <1>3 DEF CommitErase, target, ram, history
    <2>2. CASE slots' = slots /\ pc' = pc
      BY <1>2, <2>1, <2>2 DEF Store!Attempt, Maybe, Newest, Good
    <2>3. CASE slots' = [slots EXCEPT ![target] = Bad]
      <3>1. Newest' = {acked}
        BY <1>2, <2>3, NewestAfterErase
      <3> QED BY <1>2, <2>1, <3>1 DEF Store!Attempt, Maybe
    <2> QED BY <1>3, <2>2, <2>3 DEF CommitErase
  <1>4. CASE CommitWrite
    <2> DEFINE snap == [sequence |-> NextSeq, table |-> table]
    <2>1. pc = "writing" /\ pc' = "idle" /\ slots[target] = Bad
      BY <1>4 DEF CommitWrite, SlotInv
    <2>2. Newest = {acked} /\ Maybe = {table} \ {acked}
      BY <1>2, <2>1, NewestIsAcked DEF Maybe
    <2>3. CASE slots' = slots /\ acked' = acked
      <3>1. Newest' = Newest
        BY <2>3 DEF Newest, Good
      <3> QED BY <1>2, <2>1, <2>2, <2>3, <3>1 DEF Store!Attempt, Maybe
    <2>4. CASE slots' = [slots EXCEPT ![target] = snap]
      <3>1. Newest' = {table}
        BY <1>2, <2>1, <2>4, NewestAfterWrite DEF SlotInv
      <3>2. CASE acked' = acked
        BY <1>2, <2>1, <2>2, <3>1, <3>2 DEF Store!Attempt, Maybe
      <3>3. CASE acked' = table
        BY <1>2, <2>1, <3>1, <3>3 DEF Store!Acknowledge, Maybe
      <3> QED BY <1>4, <3>2, <3>3 DEF CommitWrite
    <2> QED BY <1>4, <2>3, <2>4 DEF CommitWrite
  <1> QED BY <1>3, <1>4

\* A power loss is the store's, and drops what an interrupted commit left.
LEMMA PowerLossImplements ==
  ASSUME Disciplined, TypeOK, SlotInv, PowerLoss
  PROVE  Store!LosePower
  <1> DEFINE snap == [sequence |-> NextSeq, table |-> table]
  <1>1. target \in Slots /\ active \in Slots /\ target # active
        /\ Slots = {active, target}
    BY DEF TypeOK, target, Slots
  <1>2. initialized' = FALSE /\ table' = Empty /\ acked' = acked /\ pc' = "idle"
    BY DEF PowerLoss
  <1>3. Maybe' \subseteq Maybe
    <2>1. CASE slots' = slots
      BY <1>2, <2>1 DEF Maybe, Newest, Good
    <2>2. CASE pc = "writing" /\ slots' = [slots EXCEPT ![target] = snap]
      <3>1. initialized /\ slots[target] = Bad
        BY <2>2 DEF SlotInv
      <3>2. Newest' = {table}
        BY <2>2, <3>1, NewestAfterWrite DEF SlotInv
      <3> QED BY <1>2, <2>2, <3>2 DEF Maybe
    <2> QED BY <2>1, <2>2 DEF PowerLoss
  <1> QED BY <1>2, <1>3 DEF Store!LosePower

\* ConfigService implements ConfigStore when clients wait for initialize(),
\* the medium can be read and keeps what was written, and the sequence does
\* not wrap: then no failure of an erase or a write and no power loss can make
\* a recovery return anything but the last acknowledged table or one whose
\* commit was never acknowledged.
THEOREM Implementation ==
  ASSUME Disciplined, ~ReadFaults PROVE Spec => ImplementsStore
  <1>1. Init => Store!StoreInit
    BY DEF Init, Store!StoreInit, Maybe, Newest, Good
  <1>2. ASSUME TypeOK, SlotInv, TypeOK', SlotInv', [Next]_vars
        PROVE  [Store!StoreNext]_(Store!storeVars)
    <2>1. ASSUME NEW st \in [Slots -> ReadStatuses], Initialize(st)
          PROVE  Store!Restore
      <3>1. initialized' = TRUE /\ acked' = table' /\ Newest = {table'}
            /\ pc = "idle" /\ pc' = "idle" /\ slots' = slots
        BY <1>2, <2>1, InitializeLoads
      <3>2. Newest' = Newest
        BY <3>1 DEF Newest, Good
      <3> QED BY <3>1, <3>2 DEF Store!Restore, Maybe
    <2>2. ASSUME initialized, pc = "idle", UNCHANGED <<slots, pc, history>>
          PROVE  Store!Edit
      BY <1>2, <2>2 DEF Store!Edit, TypeOK, Maybe, Newest, Good, history
    <2>3. ASSUME NEW k \in Keys, NEW v \in Values, SetBlob(k, v)
          PROVE  Store!Edit
      BY <2>2, <2>3 DEF SetBlob, Callable, Disciplined
    <2>4. ASSUME NEW k \in Keys, Erase(k) PROVE Store!Edit
      BY <2>2, <2>4 DEF Erase, Callable, Disciplined
    <2>5. CASE CommitErase \/ CommitWrite
      BY <1>2, <2>5, CommitImplements DEF Store!StoreNext
    <2>6. CASE PowerLoss
      BY <1>2, <2>6, PowerLossImplements DEF Store!StoreNext
    <2>7. ASSUME NEW s \in Slots, Decay(s) PROVE FALSE
      BY <2>7 DEF Decay, Disciplined
    <2>8. CASE UNCHANGED vars
      BY <2>8 DEF vars, Store!storeVars, Maybe, Newest, Good
    <2> QED BY <1>2, <2>1, <2>3, <2>4, <2>5, <2>6, <2>7, <2>8
            DEF Next, ReadStatuses, Store!StoreNext
  <1> QED BY <1>1, <1>2, TypeCorrect, SlotCorrect, PTL
          DEF Spec, ImplementsStore, Store!StoreSpec
==============================================================================
