------------------------------- MODULE EventBus ------------------------------
(***************************************************************************)
(* EventBus over EventQueue sinks, and a StateMachine that consumes one of *)
(* the queues and publishes from the actions of its transitions.  Events   *)
(* carry their topic and are numbered in the order they are published.     *)
(***************************************************************************)
EXTENDS Integers, SequencesExt

CONSTANTS
  Topics, Sinks,
  SubscribersPerTopic,
  QueueCapacity,    \* Capacity of every EventQueue
  Machine,          \* the sink the state machine consumes
  Table,            \* transitions_, with the topic an action publishes on or "none"
  MaxEvents         \* bound on the events that are published

ASSUME BusAssumption ==
  /\ {SubscribersPerTopic, QueueCapacity} \subseteq Nat \ {0} /\ MaxEvents \in Nat
  /\ Machine \in Sinks /\ "none" \notin Topics /\ DOMAIN Table \subseteq Nat
  /\ \A r \in Range(Table) :
       r.event \in Topics /\ r.publishes \in Topics \cup {"none"}

VARIABLES
  subscribers,    \* subscribers_, the slots in use of each topic
  queue,          \* the EventQueue of each sink
  machine,        \* current_state_
  published,      \* history: events published so far
  accepted,       \* history: the events try_push() took, for each sink
  taken           \* history: the events try_pop() gave, for each sink

busVars == <<subscribers, queue, machine, published, accepted, taken>>

Slots == 0 .. QueueCapacity - 1
Nothing == [topic |-> "none", number |-> 0]

BusInit ==
  /\ subscribers = [t \in Topics |-> <<>>]
  /\ queue = [s \in Sinks |-> [events |-> [i \in Slots |-> Nothing],
                               read |-> 0, write |-> 0, size |-> 0]]
  /\ machine = Table[1].from
  /\ published = 0
  /\ accepted = [s \in Sinks |-> <<>>] /\ taken = [s \in Sinks |-> <<>>]

-----------------------------------------------------------------------------
\* Mutant: a sink that is subscribed already takes another slot.
SubscribeTwice(t, s) ==
  /\ Len(subscribers[t]) < SubscribersPerTopic
  /\ subscribers' = [subscribers EXCEPT ![t] = Append(@, s)]
  /\ UNCHANGED <<queue, machine, published, accepted, taken>>

\* subscribe() into the first free slot; a sink that has one keeps it, and
\* without a free slot nothing changes.
Subscribe(t, s) ==
  /\ s \notin Range(subscribers[t]) /\ Len(subscribers[t]) < SubscribersPerTopic
  /\ subscribers' = [subscribers EXCEPT ![t] = Append(@, s)]
  /\ UNCHANGED <<queue, machine, published, accepted, taken>>

\* try_push() of an event, k times, into a queue with room for them.
Pushed(q, e, k) ==
  [events |-> [i \in Slots |-> IF \E j \in 0 .. k - 1 : i = (q.write + j) % QueueCapacity
                               THEN e ELSE q.events[i]],
   read |-> q.read, write |-> (q.write + k) % QueueCapacity, size |-> q.size + k]

\* try_pop()
Popped(q) ==
  [events |-> q.events, read |-> (q.read + 1) % QueueCapacity, write |-> q.write,
   size |-> q.size - 1]

\* publish() on topic t, to one subscriber after the other, when the queues are
\* qs.  A queue that is full does not keep the others from the event, and a sink
\* is offered the event once for each slot that it has.
Publish(t, qs) ==
  LET e == [topic |-> t, number |-> published + 1]
      slots(s) == {i \in DOMAIN subscribers[t] : subscribers[t][i] = s}
      copies(s) == Min({Cardinality(slots(s)), QueueCapacity - qs[s].size})
  IN  /\ published < MaxEvents
      /\ queue' = [s \in Sinks |-> Pushed(qs[s], e, copies(s))]
      /\ accepted' = [s \in Sinks |-> accepted[s] \o [i \in 1 .. copies(s) |-> e]]
      /\ published' = published + 1

\* A client publishes.
ClientPublish(t) ==
  /\ Publish(t, queue)
  /\ UNCHANGED <<subscribers, machine, taken>>

\* process(): the first row for the state and the event, whose action runs in
\* the new state.
Process(e, qs) ==
  LET rows == {i \in DOMAIN Table : Table[i].from = machine /\ Table[i].event = e.topic}
      row  == Table[Min(rows)]
  IN  \/ /\ rows = {} /\ queue' = qs
         /\ UNCHANGED <<machine, published, accepted>>
      \/ /\ rows # {} /\ machine' = row.to
         /\ IF row.publishes = "none" THEN queue' = qs /\ UNCHANGED <<published, accepted>>
                                      ELSE Publish(row.publishes, qs)

\* A sink takes an event with try_pop(); the machine processes it.
Consume(s) ==
  LET e == queue[s].events[queue[s].read]
      popped == [queue EXCEPT ![s] = Popped(@)]
  IN  /\ queue[s].size > 0
      /\ taken' = [taken EXCEPT ![s] = Append(@, e)]
      /\ IF s = Machine THEN Process(e, popped)
                        ELSE queue' = popped /\ UNCHANGED <<machine, published, accepted>>
      /\ UNCHANGED subscribers

BusNext ==
  \/ \E t \in Topics : ClientPublish(t) \/ \E s \in Sinks : Subscribe(t, s)
  \/ \E s \in Sinks : Consume(s)

BusSpec == BusInit /\ [][BusNext]_busVars

-----------------------------------------------------------------------------
\* Properties.

\* Every sink takes what its queue accepted, in the order it was published,
\* over all its topics, each event once: also when it subscribes again, when
\* the ring wraps, and when the machine publishes to itself while it consumes.
OrderedOnce ==
  \A s \in Sinks :
    /\ \A i, j \in DOMAIN accepted[s] : i < j => accepted[s][i].number < accepted[s][j].number
    /\ IsPrefix(taken[s], accepted[s])
    /\ Len(accepted[s]) = Len(taken[s]) + queue[s].size
==============================================================================
