---------------------------- MODULE OfflineQueue -----------------------------
(***************************************************************************)
(* OfflineQueue over FixedRingBuffer: an array with a read index, a write  *)
(* index and a count.  try_pop and clear of the ring have no caller in     *)
(* OfflineQueue, which holds its ring privately, and are not actions here. *)
(***************************************************************************)
EXTENDS Naturals, Sequences

CONSTANTS Capacity,    \* the template parameter of FixedRingBuffer
          Messages,    \* values of the element type T
          Oversized,   \* messages too large for a QueuedMessage
          Blank,       \* T{}
          MaxDropped   \* bound on dropped_

ASSUME QueueAssumption ==
  /\ Capacity \in Nat \ {0}
  /\ Oversized \subseteq Messages /\ Blank \notin Messages
  /\ MaxDropped \in Nat

VARIABLES entries, readIndex, writeIndex, count, dropped

vars == <<entries, readIndex, writeIndex, count, dropped>>

Indices == 0 .. Capacity - 1

Init ==
  /\ entries = [i \in Indices |-> Blank]
  /\ readIndex = 0 /\ writeIndex = 0 /\ count = 0
  /\ dropped = 0

\* Mutant: the index forgets to wrap at the last entry.
SuccStuck(i) == IF i = Capacity - 1 THEN i ELSE i + 1

Succ(i) == (i + 1) % Capacity

Full == count = Capacity

\* try_push when it returns true.
Push(m) ==
  /\ ~Full
  /\ entries' = [entries EXCEPT ![writeIndex] = m]
  /\ writeIndex' = Succ(writeIndex)
  /\ count' = count + 1
  /\ UNCHANGED readIndex

\* drop_oldest: nothing happens when the ring is empty.
DropOldest ==
  /\ readIndex' = IF count = 0 THEN readIndex ELSE Succ(readIndex)
  /\ count' = IF count = 0 THEN 0 ELSE count - 1
  /\ UNCHANGED <<entries, writeIndex>>

\* drop_oldest followed by try_push on a full buffer: the entry at the write
\* index is the oldest, which is overwritten.
DropThenPush(m) ==
  /\ Full
  /\ entries' = [entries EXCEPT ![writeIndex] = m]
  /\ readIndex' = Succ(readIndex)
  /\ writeIndex' = Succ(writeIndex)
  /\ UNCHANGED count

\* enqueue(): a message that does not fit a record is refused first.
Enqueue(m, allowDrop) ==
  \/ /\ m \notin Oversized /\ Push(m)
     /\ UNCHANGED dropped
  \/ /\ m \notin Oversized /\ allowDrop /\ dropped < MaxDropped
     /\ DropThenPush(m)
     /\ dropped' = dropped + 1
  \/ /\ m \in Oversized \/ (Full /\ ~allowDrop)    \* no_resources
     /\ UNCHANGED vars

CommitFront == DropOldest /\ UNCHANGED dropped

Next ==
  \/ \E m \in Messages, allowDrop \in BOOLEAN : Enqueue(m, allowDrop)
  \/ CommitFront

Spec == Init /\ [][Next]_vars

-----------------------------------------------------------------------------
\* Properties.

\* The indices stay in the array and the count within the capacity.
TypeOK ==
  /\ entries \in [Indices -> Messages \cup {Blank}]
  /\ readIndex \in Indices /\ writeIndex \in Indices
  /\ count \in 0 .. Capacity
  /\ dropped \in 0 .. MaxDropped

\* The messages in the order peek() will show them.
Contents == [i \in 1 .. count |-> entries[(readIndex + i - 1) % Capacity]]

Fifo == INSTANCE BoundedFifo WITH queue <- Contents

\* The ring behaves as a first-in first-out queue: through any number of
\* wraps, messages leave in the order they came, none is lost or repeated
\* except the oldest of a full queue, which is counted.
ImplementsFifo == Fifo!FifoSpec
==============================================================================
