------------------------------ MODULE Messaging ------------------------------
(***************************************************************************)
(* CommandDispatcher and TelemetryService, which share one offline queue   *)
(* and one message transport.  All of them run in one loop, so each call   *)
(* is one step; what interleaves is the order of the calls, the state of   *)
(* the connection, and what a publish really did.                          *)
(*                                                                         *)
(* A publish that fails may still have reached the gateway (the transport  *)
(* gives up waiting for the acknowledgement), so the outcome of a publish  *)
(* and the delivery of its message are two things.                         *)
(***************************************************************************)
EXTENDS Naturals, Sequences, FiniteSets

CONSTANTS
  Ids,               \* command ids the gateway uses
  Names,             \* command names it uses
  NoId,              \* the empty id of an answer to a corrupt command
  Vacant,            \* an unused entry of the idempotency cache
  HandlerStatuses,   \* what handlers may return
  HandlerCapacity,   \* kCommandHandlerCapacity
  Window,            \* kIdempotencyWindow
  Capacity,          \* kOfflineQueueDepth
  MaxSequence,       \* bound on the telemetry records of a behaviour
  MaxCommands        \* bound on the commands that are not answered from cache

Statuses == HandlerStatuses \cup {"denied", "not_found", "corrupt"}
Telemetry(n) == [kind |-> "telemetry", seq |-> n]
Response(id, st) == [kind |-> "response", id |-> id, status |-> st]
Messages == {Telemetry(n) : n \in 0 .. MaxSequence}
              \cup {Response(id, st) : id \in Ids \cup {NoId}, st \in Statuses}
Entries == [id : Ids, status : Statuses]

ASSUME MessagingAssumption ==
  /\ NoId \notin Ids
  /\ {HandlerCapacity, Capacity, MaxSequence, MaxCommands} \subseteq Nat
  /\ Capacity # 0
  /\ Window \in Nat \ {0}
  /\ Vacant \notin Entries

VARIABLES
  queue, dropped,   \* the offline queue
  sequence,         \* TelemetryService::sequence_
  handlers,         \* names of the registered handlers, in order
  cache,            \* cache_
  cacheIndex,       \* cache_index_
  connected,        \* transport_.is_connected()
  delivered,        \* history: messages that reached the gateway
  log               \* history: the commands that were cached, in order

vars == <<queue, dropped, sequence, handlers, cache, cacheIndex, connected,
          delivered, log>>

Fifo == INSTANCE BoundedFifo

Init ==
  /\ Fifo!FifoInit
  /\ sequence = 0
  /\ handlers = <<>>
  /\ cache = [i \in 0 .. Window - 1 |-> Vacant] /\ cacheIndex = 0
  /\ connected = FALSE
  /\ delivered = {} /\ log = <<>>

-----------------------------------------------------------------------------
\* The transport.

PublishOk(m) == connected /\ delivered' = delivered \cup {m}
PublishFails(m) == connected /\ delivered' \in {delivered, delivered \cup {m}}

\* Publish when connected, queue when not or when the publish fails.
SendOrQueue(m, allowDrop) ==
  \/ PublishOk(m) /\ UNCHANGED <<queue, dropped>>
  \/ PublishFails(m) /\ Fifo!Enqueue(m, allowDrop)
  \/ ~connected /\ Fifo!Enqueue(m, allowDrop) /\ UNCHANGED delivered

-----------------------------------------------------------------------------
\* CommandDispatcher.

\* add_handler(); a handler that finds no room changes nothing.
AddHandler(name) ==
  /\ Len(handlers) < HandlerCapacity
  /\ handlers' = Append(handlers, name)
  /\ UNCHANGED <<queue, dropped, sequence, cache, cacheIndex, connected, delivered, log>>

\* respond(): the status of the enqueue is ignored, so an answer that finds
\* the queue full is lost.
Respond(id, st) == SendOrQueue(Response(id, st), FALSE)

Cached == {i \in 0 .. Window - 1 : cache[i] # Vacant}

\* Mutant: only the entry under the index is looked at.
FindCachedOne(id) == {i \in Cached : cache[i].id = id /\ i = cacheIndex}

\* Mutant: any entry in use is taken for the one with this id.
FindCachedAny(id) == Cached

\* find_cached(): the entries that hold id.
FindCached(id) == {i \in Cached : cache[i].id = id}

NextCacheIndex == (cacheIndex + 1) % Window

\* cache(): overwrites the oldest entry.
Remember(id, st) ==
  /\ cache' = [cache EXCEPT ![cacheIndex] = [id |-> id, status |-> st]]
  /\ cacheIndex' = NextCacheIndex
  /\ log' = Append(log, [id |-> id, status |-> st])

\* The authorizer refuses, no handler has the name, or the handler runs.
Outcomes(name) ==
  {"denied"} \cup (IF \E i \in 1 .. Len(handlers) : handlers[i] = name    \* find_handler
                   THEN HandlerStatuses ELSE {"not_found"})

\* on_message() of a command that parses.
OnCommand(id, name) ==
  /\ \/ \E i \in FindCached(id) :
          /\ \A j \in FindCached(id) : i <= j
          /\ Respond(id, cache[i].status)
          /\ UNCHANGED <<cache, cacheIndex, log>>
     \/ /\ FindCached(id) = {}
        /\ Len(log) < MaxCommands
        /\ \E st \in Outcomes(name) : Remember(id, st) /\ Respond(id, st)
  /\ UNCHANGED <<sequence, handlers, connected>>

\* on_message() of a payload without id or name.
OnCorrupt ==
  /\ Respond(NoId, "corrupt")
  /\ UNCHANGED <<sequence, handlers, cache, cacheIndex, connected, log>>

-----------------------------------------------------------------------------
\* TelemetryService.

PublishBool ==
  /\ sequence < MaxSequence
  /\ SendOrQueue(Telemetry(sequence), TRUE)
  /\ sequence' = sequence + 1
  /\ UNCHANGED <<handlers, cache, cacheIndex, connected, log>>

\* Mutant: the record leaves the queue before its publish succeeds.
ReplayOneEarly ==
  /\ connected /\ queue # <<>>
  /\ PublishOk(Head(queue)) \/ PublishFails(Head(queue))
  /\ Fifo!CommitFront
  /\ UNCHANGED <<sequence, handlers, cache, cacheIndex, connected, log>>

\* Mutant: a record whose publish fails goes to the back of the queue.
ReplayOneRequeues ==
  /\ connected /\ queue # <<>>
  /\ \/ PublishOk(Head(queue)) /\ Fifo!CommitFront
     \/ /\ PublishFails(Head(queue))
        /\ queue' = Append(Tail(queue), Head(queue)) /\ UNCHANGED dropped
  /\ UNCHANGED <<sequence, handlers, cache, cacheIndex, connected, log>>

\* Mutant: the record stays in the queue after its publish succeeded.
ReplayOneKeeps ==
  /\ connected /\ queue # <<>>
  /\ PublishOk(Head(queue))
  /\ UNCHANGED <<queue, dropped, sequence, handlers, cache, cacheIndex, connected, log>>

\* replay_one() with a connection and a record: it leaves the queue only when
\* the publish succeeds.
ReplayOne ==
  /\ connected /\ queue # <<>>
  /\ \/ PublishOk(Head(queue)) /\ Fifo!CommitFront
     \/ PublishFails(Head(queue)) /\ UNCHANGED <<queue, dropped>>
  /\ UNCHANGED <<sequence, handlers, cache, cacheIndex, connected, log>>

-----------------------------------------------------------------------------
\* The environment: the connection comes and goes.

Connect ==
  /\ ~connected /\ connected' = TRUE
  /\ UNCHANGED <<queue, dropped, sequence, handlers, cache, cacheIndex, delivered, log>>

Disconnect ==
  /\ connected /\ connected' = FALSE
  /\ UNCHANGED <<queue, dropped, sequence, handlers, cache, cacheIndex, delivered, log>>

Next ==
  \/ \E name \in Names : AddHandler(name)
  \/ \E id \in Ids, name \in Names : OnCommand(id, name)
  \/ OnCorrupt
  \/ PublishBool
  \/ ReplayOne
  \/ Connect
  \/ Disconnect

Spec == Init /\ [][Next]_vars

\* The connection always returns, the loop keeps calling replay_one(), and a
\* record that is published again and again is acknowledged in the end.
FairSpec ==
  /\ Spec
  /\ WF_vars(Connect)
  /\ SF_vars(ReplayOne /\ (queue' # queue))

-----------------------------------------------------------------------------
\* Properties.

Queued == {queue[i] : i \in 1 .. Len(queue)}

\* Every variable has its type, and the queue never outgrows its ring.
TypeOK ==
  /\ queue \in Seq(Messages) /\ Len(queue) <= Capacity
  /\ dropped \in Nat
  /\ sequence \in 0 .. MaxSequence
  /\ handlers \in Seq(Names)
  /\ cache \in [0 .. Window - 1 -> Entries \cup {Vacant}]
  /\ cacheIndex \in 0 .. Window - 1
  /\ connected \in BOOLEAN
  /\ delivered \subseteq Messages
  /\ log \in Seq(Entries)

\* No telemetry record is lost without being counted: those that neither
\* reached the gateway nor wait in the queue are at most dropped_count().
LossIsCounted ==
  Cardinality({n \in 0 .. sequence - 1 :
                 Telemetry(n) \notin delivered \cup Queued}) <= dropped

\* Records wait in the order they were taken, so a replay never sends an
\* older record after a newer one of the queue.
TelemetryInOrder ==
  \A i, j \in 1 .. Len(queue) :
    i < j /\ queue[i].kind = "telemetry" /\ queue[j].kind = "telemetry"
      => queue[i].seq < queue[j].seq

\* A command id is handled again only when more than Window commands were
\* handled since: within the window a duplicate is answered from the cache.
OnceInWindow ==
  \A i, j \in 1 .. Len(log) : i < j /\ log[i].id = log[j].id => j - i > Window

\* Every answer for an id, sent, queued or replayed, is the outcome of a
\* command with that id.
AnswersAreTrue ==
  \A m \in delivered \cup Queued :
    m.kind = "response" /\ m.id # NoId =>
      \E j \in 1 .. Len(log) : log[j] = [id |-> m.id, status |-> m.status]

\* A record in the queue leaves it: it is sent when the connection is back, or
\* makes room for a newer one.
BacklogDrains ==
  \A n \in 0 .. MaxSequence - 1 :
    (Telemetry(n) \in Queued) ~> (Telemetry(n) \notin Queued)
==============================================================================
