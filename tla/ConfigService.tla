---------------------------- MODULE ConfigService ----------------------------
(***************************************************************************)
(* ConfigService: a key/value table in RAM, persisted as A/B snapshots     *)
(* over uhal::IStorage.  A snapshot is valid when its CRC, magic and       *)
(* bounds check out; anything else in a slot (never written, erased, torn, *)
(* decayed) is Bad.  records_ is abstracted to a function from keys to     *)
(* values: the index of a record is never observable.                      *)
(*                                                                         *)
(* commit() makes two storage calls (erase, then write), and power can be  *)
(* lost between them, so it is two steps.  Every other call is one step.   *)
(***************************************************************************)
EXTENDS Integers, FiniteSets

CONSTANTS
  Keys,            \* keys clients use
  KeyLength,       \* [Keys -> Nat], their length
  Values,          \* values clients store
  ValueSize,       \* [Values -> Nat], their length in bytes
  Absent,          \* no record for this key
  Bad,             \* content of a slot that does not decode
  KeyCapacity,     \* kConfigKeyCapacity
  ValueCapacity,   \* kConfigValueCapacity
  RecordCapacity,  \* kConfigRecordCapacity
  SeqModulus,      \* 2^32: sequence_ is a std::uint32_t
  LastSeq,         \* bound: no commit starts once sequence_ has this value
  MaxFaults,       \* bound on the faults of one behaviour
  ReadFaults,      \* storage_.read may fail
  MediaDecay,      \* a stored snapshot may become unreadable by itself
  UncheckedBoot    \* clients may call the service before initialize() is ok

ASSUME ConstantsAssumption ==
  /\ KeyLength \in [Keys -> Nat]
  /\ ValueSize \in [Values -> Nat]
  /\ Absent \notin Values
  /\ {KeyCapacity, ValueCapacity, RecordCapacity, MaxFaults} \subseteq Nat
  /\ SeqModulus \in Nat \ {0}
  /\ LastSeq \in Nat
  /\ {ReadFaults, MediaDecay, UncheckedBoot} \subseteq BOOLEAN

Tables == [Keys -> Values \cup {Absent}]
Empty == [k \in Keys |-> Absent]
Sequences == 0 .. SeqModulus - 1
Snapshots == [sequence : Sequences, table : Tables]

\* A model value is never a record; stated for the provers.
ASSUME BadAssumption == Bad \notin Snapshots

Slots == {0, 1}
Used(t) == {k \in Keys : t[k] # Absent}

VARIABLES
  slots,        \* what storage_ holds in each slot
  table,        \* records_
  sequence,     \* sequence_
  active,       \* active_slot_
  pc,           \* "writing" between the erase and the write of a commit
  ret,          \* status of the last call, "none" when there is none to see
  initialized,  \* history: initialize() has returned ok since power-up
  acked,        \* history: table of the last commit or initialize that was ok
  previous,     \* history: the one committed before it, or Absent
  faults        \* history: faults so far

ram == <<table, sequence, active>>
history == <<initialized, acked, previous>>
vars == <<slots, table, sequence, active, pc, ret, initialized, acked,
          previous, faults>>

Init ==
  /\ slots = [s \in Slots |-> Bad]
  /\ table = Empty /\ sequence = 0 /\ active = 0
  /\ pc = "idle" /\ ret = "none"
  /\ initialized = FALSE /\ acked = Empty /\ previous = Absent
  /\ faults = 0

Fault == faults < MaxFaults /\ faults' = faults + 1

-----------------------------------------------------------------------------
\* Reading a slot and choosing one.

\* The statuses read_slot may return for slot s.  A storage without content
\* may also answer not_found.
ReadStatus(s) ==
  (IF slots[s] = Bad THEN {"corrupt", "not_found"} ELSE {"ok"})
    \cup (IF ReadFaults THEN {"io_error"} ELSE {})

\* Mutant: The older snapshot is preferred.
SelectOldest(valid) ==
  IF 1 \notin valid \/ (0 \in valid /\ slots[0].sequence <= slots[1].sequence)
  THEN 0 ELSE 1

\* The slot initialize() selects when the slots in "valid" were read.
Select(valid) ==
  IF 1 \notin valid \/ (0 \in valid /\ slots[0].sequence >= slots[1].sequence)
  THEN 0 ELSE 1

Load(t, seq, slot) ==
  /\ table' = t /\ sequence' = seq /\ active' = slot
  /\ ret' = "ok"
  /\ initialized' = TRUE
  /\ acked' = t
  /\ previous' = IF t = acked THEN previous ELSE Absent

\* Mutant: initialize() resets the table before it looks at the statuses.
InitializeResetsFirst(st) ==
  /\ pc = "idle"
  /\ \A s \in Slots : st[s] \in ReadStatus(s)
  /\ "io_error" \in {st[0], st[1]} /\ "ok" \notin {st[0], st[1]}
  /\ Fault
  /\ table' = Empty /\ sequence' = 0 /\ active' = 0
  /\ ret' = "io_error"
  /\ UNCHANGED <<slots, pc, history>>

\* initialize(), with the statuses of its two read_slot calls.
Initialize(st) ==
  LET valid == {s \in Slots : st[s] = "ok"}
  IN  /\ pc = "idle"
      /\ \A s \in Slots : st[s] \in ReadStatus(s)
      /\ IF "io_error" \in {st[0], st[1]} THEN Fault ELSE UNCHANGED faults
      /\ \/ /\ valid # {}
            /\ Load(slots[Select(valid)].table, slots[Select(valid)].sequence,
                    Select(valid))
         \/ /\ valid = {} /\ "io_error" \notin {st[0], st[1]}
            /\ Load(Empty, 0, 0)
         \/ /\ valid = {} /\ "io_error" \in {st[0], st[1]}
            /\ ret' = "io_error"
            /\ UNCHANGED <<ram, history>>
      /\ UNCHANGED <<slots, pc>>

-----------------------------------------------------------------------------
\* Edits of the RAM table.

Callable == pc = "idle" /\ (initialized \/ UncheckedBoot)

KeyUsable(k) == 0 < KeyLength[k] /\ KeyLength[k] < KeyCapacity

\* set_blob, which set_u32 and set_bool call with 4 bytes and 1 byte.
SetBlob(k, v) ==
  /\ Callable
  /\ \/ /\ ~KeyUsable(k) \/ ValueSize[v] > ValueCapacity
        /\ ret' = "invalid_argument" /\ UNCHANGED table
     \/ /\ KeyUsable(k) /\ ValueSize[v] <= ValueCapacity
        /\ k \notin Used(table) /\ Cardinality(Used(table)) >= RecordCapacity
        /\ ret' = "no_resources" /\ UNCHANGED table
     \/ /\ KeyUsable(k) /\ ValueSize[v] <= ValueCapacity
        /\ k \in Used(table) \/ Cardinality(Used(table)) < RecordCapacity
        /\ ret' = "ok" /\ table' = [table EXCEPT ![k] = v]
  /\ UNCHANGED <<slots, sequence, active, pc, history, faults>>

Erase(k) ==
  /\ Callable
  /\ \/ k \notin Used(table) /\ ret' = "not_found" /\ UNCHANGED table
     \/ k \in Used(table) /\ ret' = "ok" /\ table' = [table EXCEPT ![k] = Absent]
  /\ UNCHANGED <<slots, sequence, active, pc, history, faults>>

-----------------------------------------------------------------------------
\* commit() and write_slot().

\* Mutant: commit() rewrites the active slot instead of the other one.
targetActive == active

\* The slot a commit writes.
target == IF active = 0 THEN 1 ELSE 0

\* The sequence number it carries, of the width of sequence_.
NextSeq == (sequence + 1) % SeqModulus

\* The storage erase of a commit; a failing one may have erased part.
CommitErase ==
  /\ Callable
  /\ sequence # LastSeq
  /\ \/ /\ slots' = [slots EXCEPT ![target] = Bad]
        /\ pc' = "writing" /\ ret' = "none" /\ UNCHANGED faults
     \/ /\ Fault
        /\ slots' \in {slots, [slots EXCEPT ![target] = Bad]}
        /\ ret' = "io_error" /\ UNCHANGED pc
  /\ UNCHANGED <<ram, history>>

\* Mutant: commit() advances sequence_ and the slot even when the write failed.
CommitWriteIgnoresStatus ==
  /\ pc = "writing" /\ pc' = "idle"
  /\ \/ /\ slots' = [slots EXCEPT ![target] = [sequence |-> NextSeq, table |-> table]]
        /\ UNCHANGED faults
     \/ Fault /\ UNCHANGED slots
  /\ ret' = "ok" /\ active' = target /\ sequence' = NextSeq
  /\ acked' = table /\ previous' = IF sequence = 0 THEN Absent ELSE acked
  /\ UNCHANGED <<table, initialized>>

\* The storage write and the rest of commit().  A failing write may have
\* left nothing, a torn snapshot, or the whole snapshot.
CommitWrite ==
  LET written == [slots EXCEPT ![target] = [sequence |-> NextSeq, table |-> table]]
  IN  /\ pc = "writing"
      /\ pc' = "idle"
      /\ \/ /\ slots' = written
            /\ ret' = "ok"
            /\ active' = target /\ sequence' = NextSeq
            /\ acked' = table
            /\ previous' = IF sequence = 0 THEN Absent ELSE acked
            /\ UNCHANGED faults
         \/ /\ Fault
            /\ slots' \in {slots, written}
            /\ ret' = "io_error"
            /\ UNCHANGED <<sequence, active, acked, previous>>
      /\ UNCHANGED <<table, initialized>>

-----------------------------------------------------------------------------
\* The environment.

\* Power is lost, perhaps in the middle of a write; the constructor's values
\* are in RAM when it is back.
PowerLoss ==
  /\ IF pc = "writing" THEN Fault ELSE UNCHANGED faults
  /\ slots' \in IF pc = "writing"
                THEN {slots, [slots EXCEPT ![target] =
                                [sequence |-> NextSeq, table |-> table]]}
                ELSE {slots}
  /\ table' = Empty /\ sequence' = 0 /\ active' = 0
  /\ pc' = "idle" /\ ret' = "none" /\ initialized' = FALSE
  /\ UNCHANGED <<acked, previous>>

\* A stored snapshot becomes unreadable.
Decay(s) ==
  /\ MediaDecay
  /\ slots[s] # Bad
  /\ Fault
  /\ slots' = [slots EXCEPT ![s] = Bad]
  /\ UNCHANGED <<ram, pc, ret, history>>

Next ==
  \/ \E st \in [Slots -> {"ok", "corrupt", "not_found", "io_error"}] : Initialize(st)
  \/ \E k \in Keys, v \in Values : SetBlob(k, v)
  \/ \E k \in Keys : Erase(k)
  \/ CommitErase
  \/ CommitWrite
  \/ PowerLoss
  \/ \E s \in Slots : Decay(s)

Spec == Init /\ [][Next]_vars
-----------------------------------------------------------------------------
\* Properties.

Statuses == {"none", "ok", "io_error", "invalid_argument", "no_resources",
             "not_found"}

\* Every variable has its type: a slot holds Bad or a decodable snapshot, and
\* sequence_ stays a std::uint32_t even when the counter wraps.
TypeOK ==
  /\ slots \in [Slots -> Snapshots \cup {Bad}]
  /\ table \in Tables /\ sequence \in Sequences /\ active \in Slots
  /\ pc \in {"idle", "writing"} /\ ret \in Statuses
  /\ initialized \in BOOLEAN
  /\ acked \in Tables /\ previous \in Tables \cup {Absent}
  /\ faults \in 0 .. MaxFaults

Good == {s \in Slots : slots[s] # Bad}

\* The tables a recovery ought to load: those of the highest sequence.
Newest ==
  IF Good = {} THEN {Empty}
  ELSE {slots[s].table : s \in {g \in Good :
          \A r \in Good : slots[g].sequence >= slots[r].sequence}}

\* A call that returns an error leaves the RAM table as it was, whatever the
\* storage did (README.md of the service: "storage failures propagate without
\* corrupting the current RAM table").
RamTableSurvivesFailures ==
  [][ret' \notin {"ok", "none"} => table' = table]_vars

\* initialize() says ok only when it has loaded the newest valid snapshot
\* that the storage holds; a storage failure that hides it is reported.
LoadsNewest ==
  [][(\E st \in [Slots -> {"ok", "corrupt", "not_found", "io_error"}] : Initialize(st))
       /\ ret' = "ok" => table' \in Newest]_vars

\* Two acknowledged commits protect against any one fault (a failed or torn
\* write, a power loss inside commit, a slot that decays): between calls some
\* slot still decodes to one of the last two acknowledged tables.
OneFaultKeepsAConfiguration ==
  (pc = "idle" /\ previous # Absent /\ faults <= 1)
    => \E s \in Good : slots[s].table \in {acked, previous}

\* The tables of unacknowledged commits that a recovery may find.
Maybe == (Newest \cup (IF pc = "writing" THEN {table} ELSE {})) \ {acked}

Store == INSTANCE ConfigStore
           WITH up <- initialized, durable <- acked, maybe <- Maybe

\* The A/B slots implement an atomic durable table: after any interleaving of
\* edits, commits, storage failures and power losses a recovery finds the last
\* acknowledged table or that of an unacknowledged commit, and nothing else.
ImplementsStore == Store!StoreSpec

\* What ImplementsStore rests on: the active slot holds exactly what was last
\* acknowledged (or nothing was ever committed), the slot being written is
\* empty, the two sequences differ, and no sequence has passed the bound.
SlotInv ==
  /\ initialized =>
       \/ slots[active] = [sequence |-> sequence, table |-> acked]
       \/ slots[active] = Bad /\ sequence = 0 /\ acked = Empty
  /\ pc = "writing" =>
       initialized /\ slots[target] = Bad /\ sequence # LastSeq
  /\ Good = Slots => slots[0].sequence # slots[1].sequence
  /\ sequence <= LastSeq
  /\ \A s \in Good : slots[s].sequence <= LastSeq

==============================================================================
