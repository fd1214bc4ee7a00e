----------------------------- MODULE BoundedFifo -----------------------------
(***************************************************************************)
(* What IOfflineQueue promises: a first-in first-out queue of at most      *)
(* Capacity messages.  A full queue refuses a message, or makes room by    *)
(* dropping its oldest one and counting it.                                *)
(***************************************************************************)
EXTENDS Naturals, Sequences

CONSTANTS Capacity,   \* Depth, kOfflineQueueDepth
          Messages

VARIABLES queue, dropped

fifoVars == <<queue, dropped>>

FifoInit == queue = <<>> /\ dropped = 0

\* enqueue(): ok, ok after a drop, or no_resources.
Enqueue(m, allowDrop) ==
  \/ /\ Len(queue) < Capacity
     /\ queue' = Append(queue, m)
     /\ UNCHANGED dropped
  \/ /\ Len(queue) >= Capacity /\ allowDrop
     /\ queue' = Append(Tail(queue), m)
     /\ dropped' = dropped + 1
  \/ /\ Len(queue) >= Capacity /\ ~allowDrop
     /\ UNCHANGED fifoVars

\* commit_front(): on an empty queue it does nothing.
CommitFront ==
  /\ queue' = IF queue = <<>> THEN queue ELSE Tail(queue)
  /\ UNCHANGED dropped

FifoNext ==
  \/ \E m \in Messages, allowDrop \in BOOLEAN : Enqueue(m, allowDrop)
  \/ CommitFront

FifoSpec == FifoInit /\ [][FifoNext]_fifoVars
==============================================================================
