--------------------------- MODULE MessagingProofs ---------------------------
(***************************************************************************)
(* Proofs about Messaging, for any ids, handlers, window and queue depth,  *)
(* and for a transport that may deliver a message and report a failure.    *)
(***************************************************************************)
EXTENDS Messaging, FiniteSetTheorems, SequenceTheorems, TLAPS

\* The slot of the idempotency cache that was written d commands ago, when the
\* next one goes to slot c.
Back(c, d) == IF d <= c THEN c - d ELSE c + Window - d

\* The cache holds the last Window commands that were handled: walking back
\* from the index meets them from the newest to the oldest.
CacheIsWindow ==
  \A d \in 1 .. Window :
    cache[Back(cacheIndex, d)] =
      IF d <= Len(log) THEN log[Len(log) + 1 - d] ELSE Vacant

\* The telemetry records in the queue are older than the next one.
QueuedIsOlder ==
  \A i \in 1 .. Len(queue) : queue[i].kind = "telemetry" => queue[i].seq < sequence

\* The inductive invariants of the commands and of the telemetry.
CommandInv == TypeOK /\ CacheIsWindow /\ OnceInWindow /\ AnswersAreTrue
TelemetryInv == TypeOK /\ QueuedIsOlder /\ TelemetryInOrder /\ LossIsCounted

-----------------------------------------------------------------------------
\* What the constants are.
LEMMA Constants ==
  /\ Capacity \in Nat \ {0} /\ Window \in Nat \ {0}
  /\ MaxSequence \in Nat /\ Vacant \notin Entries /\ NoId \notin Ids
  BY MessagingAssumption

\* A telemetry record is a message, with its number.
LEMMA TelemetryMessage ==
  ASSUME NEW n \in 0 .. MaxSequence
  PROVE  /\ Telemetry(n) \in Messages
         /\ Telemetry(n).kind = "telemetry" /\ Telemetry(n).seq = n
  BY DEF Telemetry, Messages

\* An answer is a message, with its id and its status.
LEMMA ResponseMessage ==
  ASSUME NEW id \in Ids \cup {NoId}, NEW st \in Statuses
  PROVE  /\ Response(id, st) \in Messages
         /\ Response(id, st).kind = "response"
         /\ Response(id, st).id = id /\ Response(id, st).status = st
  BY DEF Response, Messages

\* Every message is a telemetry record or an answer.
LEMMA MessageKinds ==
  ASSUME NEW m \in Messages
  PROVE  \/ \E n \in 0 .. MaxSequence : m = Telemetry(n)
         \/ m.kind = "response"
  BY DEF Messages, Telemetry, Response

-----------------------------------------------------------------------------
\* The queue.

\* A place that is not the last has a successor.
LEMMA NotTheLast ==
  ASSUME NEW n \in Nat, NEW i \in 1 .. n, i # n
  PROVE  i \in 1 .. n - 1 /\ i + 1 \in 1 .. n
  OBVIOUS

\* Appending to the queue adds one message and moves none.
LEMMA AppendQueued ==
  ASSUME queue \in Seq(Messages), NEW m \in Messages, queue' = Append(queue, m)
  PROVE  /\ queue' \in Seq(Messages) /\ Len(queue') = Len(queue) + 1
         /\ \A i \in 1 .. Len(queue) : queue'[i] = queue[i]
         /\ queue'[Len(queue) + 1] = m
         /\ Queued' = Queued \cup {m}
  <1>1. /\ queue' \in Seq(Messages) /\ Len(queue') = Len(queue) + 1
        /\ \A i \in 1 .. Len(queue) : queue'[i] = queue[i]
        /\ queue'[Len(queue) + 1] = m
        /\ Len(queue) \in Nat
    BY AppendProperties, LenProperties
  <1>2. 1 .. Len(queue') = (1 .. Len(queue)) \cup {Len(queue) + 1}
    BY <1>1
  <1> QED BY <1>1, <1>2 DEF Queued

\* Dropping the oldest message moves the others one place ahead.
LEMMA TailQueued ==
  ASSUME queue \in Seq(Messages), queue # <<>>, queue' = Tail(queue)
  PROVE  /\ queue' \in Seq(Messages) /\ Len(queue') = Len(queue) - 1
         /\ \A i \in 1 .. Len(queue') : queue'[i] = queue[i + 1]
         /\ Head(queue) = queue[1] /\ Head(queue) \in Messages
         /\ Queued = Queued' \cup {Head(queue)}
  <1>1. /\ queue' \in Seq(Messages) /\ Len(queue') = Len(queue) - 1
        /\ \A i \in 1 .. Len(queue') : queue'[i] = queue[i + 1]
        /\ Head(queue) \in Messages
        /\ Len(queue) \in Nat \ {0}
    BY HeadTailProperties, EmptySeq
  <1>2. Head(queue) = queue[1]
    OBVIOUS
  <1>3. Queued \subseteq Queued' \cup {Head(queue)}
    <2> SUFFICES ASSUME NEW i \in 1 .. Len(queue)
                 PROVE  queue[i] \in Queued' \cup {Head(queue)}
      BY DEF Queued
    <2>1. CASE i = 1
      BY <1>2, <2>1
    <2>2. CASE i # 1
      <3>1. i - 1 \in 1 .. Len(queue') /\ queue'[i - 1] = queue[i]
        BY <1>1, <2>2
      <3> QED BY <3>1 DEF Queued
    <2> QED BY <2>1, <2>2
  <1>4. Queued' \cup {Head(queue)} \subseteq Queued
    <2>1. \A i \in 1 .. Len(queue') : i + 1 \in 1 .. Len(queue)
      BY <1>1
    <2>2. 1 \in 1 .. Len(queue)
      BY <1>1
    <2> QED BY <1>1, <1>2, <2>1, <2>2 DEF Queued
  <1> QED BY <1>1, <1>2, <1>3, <1>4

\* A full queue that drops its oldest message for a new one.
LEMMA DropQueued ==
  ASSUME queue \in Seq(Messages), queue # <<>>, NEW m \in Messages,
         queue' = Append(Tail(queue), m)
  PROVE  /\ queue' \in Seq(Messages) /\ Len(queue') = Len(queue)
         /\ \A i \in 1 .. Len(queue) - 1 : queue'[i] = queue[i + 1]
         /\ queue'[Len(queue)] = m
         /\ Head(queue) \in Messages
         /\ Queued' \subseteq Queued \cup {m}
         /\ Queued \cup {m} \subseteq Queued' \cup {Head(queue)}
  <1>1. /\ Tail(queue) \in Seq(Messages) /\ Len(Tail(queue)) = Len(queue) - 1
        /\ \A i \in 1 .. Len(queue) - 1 : Tail(queue)[i] = queue[i + 1]
        /\ Head(queue) \in Messages
        /\ Len(queue) \in Nat \ {0}
    BY HeadTailProperties, EmptySeq
  <1>2. /\ queue' \in Seq(Messages) /\ Len(queue') = Len(queue)
        /\ \A i \in 1 .. Len(queue) - 1 : queue'[i] = queue[i + 1]
        /\ queue'[Len(queue)] = m
    BY <1>1, AppendProperties
  <1>3. Head(queue) = queue[1]
    OBVIOUS
  <1>4. Queued' \subseteq Queued \cup {m}
    <2> SUFFICES ASSUME NEW i \in 1 .. Len(queue) PROVE queue'[i] \in Queued \cup {m}
      BY <1>2 DEF Queued
    <2>1. CASE i = Len(queue)
      BY <1>2, <2>1
    <2>2. CASE i # Len(queue)
      <3>1. i \in 1 .. Len(queue) - 1 /\ i + 1 \in 1 .. Len(queue)
        BY <1>1, <2>2, NotTheLast
      <3>2. queue'[i] = queue[i + 1]
        BY <1>2, <3>1
      <3>3. queue[i + 1] \in Queued
        BY <3>1 DEF Queued
      <3> QED BY <3>2, <3>3
    <2> QED BY <2>1, <2>2
  <1>5. Queued \subseteq Queued' \cup {Head(queue)}
    <2> SUFFICES ASSUME NEW i \in 1 .. Len(queue)
                 PROVE  queue[i] \in Queued' \cup {Head(queue)}
      BY DEF Queued
    <2>1. CASE i = 1
      BY <1>3, <2>1
    <2>2. CASE i # 1
      <3>1. i - 1 \in 1 .. Len(queue) - 1 /\ i - 1 \in 1 .. Len(queue')
        BY <1>1, <1>2, <2>2
      <3>2. queue'[i - 1] = queue[i]
        BY <1>2, <3>1
      <3> QED BY <3>1, <3>2 DEF Queued
    <2> QED BY <2>1, <2>2
  <1>6. m \in Queued'
    <2>1. Len(queue) \in 1 .. Len(queue')
      BY <1>1, <1>2
    <2> QED BY <1>2, <2>1 DEF Queued
  <1> QED BY <1>1, <1>2, <1>4, <1>5, <1>6

\* What a message that is sent or queued does to the queue and to the gateway:
\* it is published, or refused by a full queue, or it waits at the end of the
\* queue, in the place of the oldest message if that had to go.
LEMMA SendEffect ==
  ASSUME TypeOK, NEW m \in Messages, NEW allowDrop \in BOOLEAN,
         SendOrQueue(m, allowDrop)
  PROVE  /\ queue' \in Seq(Messages) /\ Len(queue') <= Capacity /\ dropped' \in Nat
         /\ delivered \subseteq delivered' /\ delivered' \subseteq delivered \cup {m}
         /\ Queued' \subseteq Queued \cup {m}
         /\ \/ UNCHANGED <<queue, dropped>> /\ (allowDrop => m \in delivered')
            \/ queue' = Append(queue, m) /\ dropped' = dropped
            \/ /\ allowDrop /\ queue # <<>>
               /\ queue' = Append(Tail(queue), m) /\ dropped' = dropped + 1
  <1>1. /\ queue \in Seq(Messages) /\ Len(queue) \in Nat /\ Len(queue) <= Capacity
        /\ Capacity \in Nat \ {0} /\ dropped \in Nat
    BY Constants, LenProperties DEF TypeOK
  <1>2. delivered \subseteq delivered' /\ delivered' \subseteq delivered \cup {m}
    BY DEF SendOrQueue, PublishOk, PublishFails
  <1>3. CASE UNCHANGED <<queue, dropped>> /\ (allowDrop => m \in delivered')
    BY <1>1, <1>2, <1>3 DEF Queued
  <1>4. CASE Len(queue) < Capacity /\ queue' = Append(queue, m) /\ dropped' = dropped
    BY <1>1, <1>2, <1>4, AppendQueued
  <1>5. CASE /\ Len(queue) >= Capacity /\ allowDrop
             /\ queue' = Append(Tail(queue), m) /\ dropped' = dropped + 1
    <2>1. queue # <<>>
      BY <1>1, <1>5, EmptySeq
    <2> QED BY <1>1, <1>2, <1>5, <2>1, DropQueued
  <1> QED BY <1>3, <1>4, <1>5
      DEF SendOrQueue, PublishOk, Fifo!Enqueue, Fifo!fifoVars

\* What a replay does: the oldest message is delivered before it leaves.
LEMMA ReplayEffect ==
  ASSUME TypeOK, ReplayOne
  PROVE  /\ queue # <<>> /\ Head(queue) \in Messages
         /\ queue' \in Seq(Messages) /\ Len(queue') <= Capacity
         /\ delivered \subseteq delivered'
         /\ delivered' \subseteq delivered \cup {Head(queue)}
         /\ \/ UNCHANGED <<queue, Queued>>
            \/ queue' = Tail(queue) /\ Head(queue) \in delivered'
         /\ Queued' \subseteq Queued
         /\ Head(queue) \in Queued
         /\ UNCHANGED <<dropped, sequence, handlers, cache, cacheIndex, connected, log>>
  <1>1. /\ queue \in Seq(Messages) /\ Len(queue) \in Nat /\ Len(queue) <= Capacity
        /\ Capacity \in Nat \ {0} /\ queue # <<>>
    BY Constants, LenProperties DEF TypeOK, ReplayOne
  <1>2. /\ delivered \subseteq delivered'
        /\ delivered' \subseteq delivered \cup {Head(queue)}
        /\ UNCHANGED <<dropped, sequence, handlers, cache, cacheIndex, connected, log>>
    BY DEF ReplayOne, PublishOk, PublishFails, Fifo!CommitFront
  <1>3. Head(queue) = queue[1] /\ Head(queue) \in Messages /\ 1 \in 1 .. Len(queue)
    BY <1>1, HeadTailProperties, EmptySeq
  <1>4. Head(queue) \in Queued
    BY <1>3 DEF Queued
  <1>5. CASE UNCHANGED queue
    <2>1. Queued' = Queued
      BY <1>5 DEF Queued
    <2> QED BY <1>1, <1>2, <1>3, <1>4, <1>5, <2>1
  <1>6. CASE queue' = Tail(queue) /\ Head(queue) \in delivered'
    <2>1. /\ queue' \in Seq(Messages) /\ Len(queue') = Len(queue) - 1
          /\ Queued = Queued' \cup {Head(queue)}
      BY <1>1, <1>6, TailQueued
    <2>2. Len(queue') <= Capacity
      BY <1>1, <2>1
    <2> QED BY <1>1, <1>2, <1>3, <1>4, <1>6, <2>1, <2>2
  <1> QED BY <1>1, <1>5, <1>6 DEF ReplayOne, PublishOk, Fifo!CommitFront

-----------------------------------------------------------------------------
\* The commands.

\* The outcome of a command is a status.
LEMMA OutcomeIsStatus == ASSUME NEW name, NEW st \in Outcomes(name) PROVE st \in Statuses
  BY DEF Outcomes, Statuses

\* What find_cached() finds is an entry for the id.
LEMMA FoundIsEntry ==
  ASSUME TypeOK, NEW id, NEW i \in FindCached(id)
  PROVE  /\ i \in 0 .. Window - 1 /\ cache[i] \in Entries
         /\ cache[i].id = id /\ cache[i].status \in Statuses
  BY DEF TypeOK, FindCached, Cached, Entries

\* A command is answered once: with the outcome in the cache, or with that of
\* the handler, which then is in the cache.
LEMMA CommandEffect ==
  ASSUME TypeOK, NEW id \in Ids, NEW name \in Names, OnCommand(id, name)
  PROVE  \E st \in Statuses :
           /\ SendOrQueue(Response(id, st), FALSE)
           /\ \/ /\ \E i \in FindCached(id) : st = cache[i].status
                 /\ UNCHANGED <<cache, cacheIndex, log>>
              \/ FindCached(id) = {} /\ Remember(id, st)
           /\ UNCHANGED <<sequence, handlers, connected>>
  <1>1. CASE \E i \in FindCached(id) :
               Respond(id, cache[i].status) /\ UNCHANGED <<cache, cacheIndex, log>>
    <2>1. PICK i \in FindCached(id) :
            Respond(id, cache[i].status) /\ UNCHANGED <<cache, cacheIndex, log>>
      BY <1>1
    <2> QED BY <2>1, FoundIsEntry DEF Respond, OnCommand
  <1>2. CASE /\ FindCached(id) = {}
             /\ \E st \in Outcomes(name) : Remember(id, st) /\ Respond(id, st)
    <2>1. PICK st \in Outcomes(name) : Remember(id, st) /\ Respond(id, st)
      BY <1>2
    <2> QED BY <1>2, <2>1, OutcomeIsStatus DEF Respond, OnCommand
  <1> QED BY <1>1, <1>2 DEF OnCommand

\* The next index of the cache is in range, without the remainder.
LEMMA NextIndex ==
  ASSUME NEW c \in 0 .. Window - 1
  PROVE  /\ (c + 1) % Window \in 0 .. Window - 1
         /\ (c + 1) % Window = IF c = Window - 1 THEN 0 ELSE c + 1
  <1>1. Window \in Nat \ {0}
    BY Constants
  <1>2. CASE c = Window - 1
    <2>1. Window % Window = 0
      BY <1>1
    <2> QED BY <1>1, <1>2, <2>1
  <1>3. CASE c # Window - 1
    <2>1. (c + 1) % Window = c + 1
      BY <1>1, <1>3
    <2> QED BY <1>1, <1>3, <2>1
  <1> QED BY <1>2, <1>3

\* Remembering a command keeps the types of the cache and of its history.
LEMMA RememberTypes ==
  ASSUME TypeOK, NEW id \in Ids, NEW st \in Statuses, Remember(id, st)
  PROVE  /\ cache' \in [0 .. Window - 1 -> Entries \cup {Vacant}]
         /\ cacheIndex' \in 0 .. Window - 1
         /\ log' \in Seq(Entries) /\ Len(log') = Len(log) + 1
         /\ \A i \in 1 .. Len(log) : log'[i] = log[i]
         /\ log'[Len(log) + 1] = [id |-> id, status |-> st]
         /\ Len(log) \in Nat
  <1>1. [id |-> id, status |-> st] \in Entries
    BY DEF Entries
  <1>2. cacheIndex' \in 0 .. Window - 1
    BY NextIndex DEF TypeOK, Remember, NextCacheIndex
  <1>3. cache' \in [0 .. Window - 1 -> Entries \cup {Vacant}]
    BY <1>1 DEF TypeOK, Remember
  <1>4. log \in Seq(Entries) /\ Len(log) \in Nat
    BY LenProperties DEF TypeOK
  <1> QED BY <1>1, <1>2, <1>3, <1>4, AppendProperties DEF Remember

\* Every step keeps the types.
LEMMA TypeStep == ASSUME TypeOK, [Next]_vars PROVE TypeOK'
  <1>1. ASSUME NEW name \in Names, AddHandler(name) PROVE TypeOK'
    <2>1. handlers' \in Seq(Names)
      BY <1>1, AppendProperties DEF AddHandler, TypeOK
    <2> QED BY <1>1, <2>1 DEF AddHandler, TypeOK
  <1>2. ASSUME NEW id \in Ids, NEW name \in Names, OnCommand(id, name) PROVE TypeOK'
    <2>1. PICK st \in Statuses :
            /\ SendOrQueue(Response(id, st), FALSE)
            /\ UNCHANGED <<cache, cacheIndex, log>> \/ Remember(id, st)
            /\ UNCHANGED <<sequence, handlers, connected>>
      BY <1>2, CommandEffect
    <2>2. Response(id, st) \in Messages
      BY ResponseMessage
    <2>3. /\ queue' \in Seq(Messages) /\ Len(queue') <= Capacity /\ dropped' \in Nat
          /\ delivered' \subseteq delivered \cup {Response(id, st)}
      BY <2>1, <2>2, SendEffect
    <2>4. /\ cache' \in [0 .. Window - 1 -> Entries \cup {Vacant}]
          /\ cacheIndex' \in 0 .. Window - 1
          /\ log' \in Seq(Entries)
      BY <2>1, RememberTypes DEF TypeOK
    <2> QED BY <2>1, <2>2, <2>3, <2>4 DEF TypeOK
  <1>3. CASE OnCorrupt
    <2>1. Response(NoId, "corrupt") \in Messages
      BY ResponseMessage DEF Statuses
    <2>2. /\ queue' \in Seq(Messages) /\ Len(queue') <= Capacity /\ dropped' \in Nat
          /\ delivered' \subseteq delivered \cup {Response(NoId, "corrupt")}
      BY <1>3, <2>1, SendEffect DEF OnCorrupt, Respond
    <2> QED BY <1>3, <2>1, <2>2 DEF OnCorrupt, TypeOK
  <1>4. CASE PublishBool
    <2>1. sequence \in 0 .. MaxSequence /\ sequence' \in 0 .. MaxSequence
      BY <1>4, Constants DEF PublishBool, TypeOK
    <2>2. Telemetry(sequence) \in Messages
      BY <2>1, TelemetryMessage
    <2>3. /\ queue' \in Seq(Messages) /\ Len(queue') <= Capacity /\ dropped' \in Nat
          /\ delivered' \subseteq delivered \cup {Telemetry(sequence)}
      BY <1>4, <2>2, SendEffect DEF PublishBool
    <2> QED BY <1>4, <2>1, <2>2, <2>3 DEF PublishBool, TypeOK
  <1>5. CASE ReplayOne
    BY <1>5, ReplayEffect DEF TypeOK
  <1>6. CASE Connect \/ Disconnect
    <2>1. connected' \in BOOLEAN
      BY <1>6, Zenon DEF Connect, Disconnect
    <2> QED BY <1>6, <2>1 DEF Connect, Disconnect, TypeOK
  <1>7. CASE UNCHANGED vars
    BY <1>7 DEF vars, TypeOK
  <1> QED BY <1>1, <1>2, <1>3, <1>4, <1>5, <1>6, <1>7 DEF Next

\* Types, and the queue never outgrows its ring.
THEOREM MessagingTypeCorrect == Spec => []TypeOK
  <1>1. Init => TypeOK
    <2>1. Window \in Nat \ {0} /\ MaxSequence \in Nat /\ Capacity \in Nat
      BY Constants
    <2>2. <<>> \in Seq(Messages) /\ <<>> \in Seq(Names) /\ <<>> \in Seq(Entries)
      BY EmptySeq
    <2>3. Init => connected \in BOOLEAN
      BY Zenon DEF Init
    <2> QED BY <2>1, <2>2, <2>3, EmptySeq DEF Init, TypeOK, Fifo!FifoInit
  <1> QED BY <1>1, TypeStep, PTL DEF Spec

-----------------------------------------------------------------------------
\* The idempotency cache.

\* Walking back from an index stays in the cache and reaches every slot.
LEMMA BackRange ==
  ASSUME NEW c \in 0 .. Window - 1
  PROVE  /\ \A d \in 1 .. Window : Back(c, d) \in 0 .. Window - 1
         /\ \A i \in 0 .. Window - 1 : \E d \in 1 .. Window : Back(c, d) = i
  <1>1. Window \in Nat \ {0}
    BY Constants
  <1>2. ASSUME NEW d \in 1 .. Window PROVE Back(c, d) \in 0 .. Window - 1
    BY <1>1 DEF Back
  <1>3. ASSUME NEW i \in 0 .. Window - 1 PROVE \E d \in 1 .. Window : Back(c, d) = i
    <2>1. CASE i < c
      <3>1. c - i \in 1 .. Window /\ Back(c, c - i) = i
        BY <1>1, <2>1 DEF Back
      <3> QED BY <3>1
    <2>2. CASE ~(i < c)
      <3>1. c + Window - i \in 1 .. Window /\ Back(c, c + Window - i) = i
        BY <1>1, <2>2 DEF Back
      <3> QED BY <3>1
    <2> QED BY <2>1, <2>2
  <1> QED BY <1>2, <1>3

\* Advancing the index makes every slot one command older; the slot that was
\* under the index is now the newest.
LEMMA BackNext ==
  ASSUME NEW c \in 0 .. Window - 1
  PROVE  /\ Back((c + 1) % Window, 1) = c
         /\ \A d \in 2 .. Window : /\ Back((c + 1) % Window, d) = Back(c, d - 1)
                                   /\ Back(c, d - 1) # c
  <1>1. Window \in Nat \ {0}
    BY Constants
  <1>2. (c + 1) % Window = IF c = Window - 1 THEN 0 ELSE c + 1
    BY NextIndex
  <1> DEFINE n == (c + 1) % Window
  <1>3. n = IF c = Window - 1 THEN 0 ELSE c + 1
    BY <1>2
  <1> HIDE DEF n
  <1>4. Back(n, 1) = c
    BY <1>1, <1>3 DEF Back
  <1>5. ASSUME NEW d \in 2 .. Window PROVE Back(n, d) = Back(c, d - 1) /\ Back(c, d - 1) # c
    BY <1>1, <1>3 DEF Back
  <1> QED BY <1>4, <1>5 DEF n

\* Remembering a command moves the window by one.
LEMMA RememberMovesWindow ==
  ASSUME TypeOK, CacheIsWindow, NEW id \in Ids, NEW st \in Statuses, Remember(id, st)
  PROVE  CacheIsWindow'
  <1> DEFINE e == [id |-> id, status |-> st]
             n == Len(log)
             c == cacheIndex
  <1>1. Window \in Nat \ {0} /\ c \in 0 .. Window - 1 /\ n \in Nat
    BY Constants, LenProperties DEF TypeOK
  <1>2. /\ Len(log') = n + 1 /\ log'[n + 1] = e
        /\ \A i \in 1 .. n : log'[i] = log[i]
    BY RememberTypes
  <1>3. cacheIndex' = (c + 1) % Window
    BY DEF Remember, NextCacheIndex
  <1>4. cache'[c] = e /\ \A i \in 0 .. Window - 1 : i # c => cache'[i] = cache[i]
    BY <1>1 DEF Remember, TypeOK
  <1> SUFFICES ASSUME NEW d \in 1 .. Window
               PROVE  cache'[Back(cacheIndex', d)] =
                        IF d <= Len(log') THEN log'[Len(log') + 1 - d] ELSE Vacant
    BY DEF CacheIsWindow
  <1>5. CASE d = 1
    <2>1. Back(cacheIndex', d) = c
      BY <1>1, <1>3, <1>5, BackNext
    <2>2. d <= n + 1 /\ n + 1 + 1 - d = n + 1
      BY <1>1, <1>5
    <2> QED BY <1>2, <1>4, <2>1, <2>2
  <1>6. CASE d # 1
    <2>1. d \in 2 .. Window /\ d - 1 \in 1 .. Window /\ d \in Nat
      BY <1>1, <1>6
    <2>2. Back(cacheIndex', d) = Back(c, d - 1) /\ Back(c, d - 1) # c
      BY <1>1, <1>3, <2>1, BackNext
    <2>3. Back(c, d - 1) \in 0 .. Window - 1
      BY <1>1, <2>1, BackRange
    <2>4. cache'[Back(cacheIndex', d)] = cache[Back(c, d - 1)]
      BY <1>4, <2>2, <2>3
    <2>5. cache[Back(c, d - 1)] = IF d - 1 <= n THEN log[n + 1 - (d - 1)] ELSE Vacant
      BY <2>1 DEF CacheIsWindow
    <2>6. CASE d <= n + 1
      <3>1. n + 1 - (d - 1) \in 1 .. n /\ n + 1 + 1 - d = n + 1 - (d - 1) /\ d - 1 <= n
        BY <1>1, <2>1, <2>6
      <3>2. log'[n + 1 + 1 - d] = log[n + 1 - (d - 1)]
        BY <1>2, <3>1
      <3> QED BY <1>2, <2>4, <2>5, <2>6, <3>1, <3>2
    <2>7. CASE ~(d <= n + 1)
      <3>1. ~(d - 1 <= n)
        BY <1>1, <2>1, <2>7
      <3> QED BY <1>2, <2>4, <2>5, <2>7, <3>1
    <2> QED BY <2>6, <2>7
  <1> QED BY <1>5, <1>6

\* What is in the cache was handled: it is in the history.
LEMMA CachedWasHandled ==
  ASSUME TypeOK, CacheIsWindow, NEW id, NEW i \in FindCached(id)
  PROVE  \E j \in 1 .. Len(log) : log[j] = cache[i]
  <1>1. Window \in Nat \ {0} /\ cacheIndex \in 0 .. Window - 1 /\ Len(log) \in Nat
    BY Constants, LenProperties DEF TypeOK
  <1>2. i \in 0 .. Window - 1 /\ cache[i] # Vacant
    BY DEF FindCached, Cached
  <1>3. PICK d \in 1 .. Window : Back(cacheIndex, d) = i
    BY <1>1, <1>2, BackRange
  <1>4. cache[i] = IF d <= Len(log) THEN log[Len(log) + 1 - d] ELSE Vacant
    BY <1>3 DEF CacheIsWindow
  <1>5. d <= Len(log) /\ cache[i] = log[Len(log) + 1 - d]
    BY <1>2, <1>4
  <1>6. Len(log) + 1 - d \in 1 .. Len(log)
    BY <1>1, <1>5
  <1> QED BY <1>5, <1>6

\* A command that is not in the cache was not handled within the window.
LEMMA RememberOnce ==
  ASSUME TypeOK, CacheIsWindow, OnceInWindow,
         NEW id \in Ids, NEW st \in Statuses, FindCached(id) = {}, Remember(id, st)
  PROVE  OnceInWindow'
  <1> DEFINE n == Len(log)
  <1>1. /\ Window \in Nat \ {0} /\ cacheIndex \in 0 .. Window - 1 /\ n \in Nat
        /\ log \in Seq(Entries) /\ Vacant \notin Entries
    BY Constants, LenProperties DEF TypeOK
  <1>2. /\ Len(log') = n + 1 /\ log'[n + 1].id = id
        /\ \A i \in 1 .. n : log'[i] = log[i]
    <2>1. /\ Len(log') = n + 1 /\ log'[n + 1] = [id |-> id, status |-> st]
          /\ \A i \in 1 .. n : log'[i] = log[i]
      BY RememberTypes
    <2> QED BY <2>1
  <1> SUFFICES ASSUME NEW i \in 1 .. Len(log'), NEW j \in 1 .. Len(log'),
                      i < j, log'[i].id = log'[j].id
               PROVE  j - i > Window
    BY DEF OnceInWindow
  <1>3. i \in 1 .. n
    BY <1>1, <1>2
  <1>4. CASE j \in 1 .. n
    BY <1>2, <1>3, <1>4 DEF OnceInWindow
  <1>5. CASE j = n + 1
    <2> SUFFICES ASSUME ~(j - i > Window) PROVE FALSE
      OBVIOUS
    <2> DEFINE d == n + 1 - i
    <2>1. d \in 1 .. Window /\ d <= n /\ n + 1 - d = i
      BY <1>1, <1>3, <1>5
    <2>2. cache[Back(cacheIndex, d)] = log[i]
      BY <2>1 DEF CacheIsWindow
    <2>3. Back(cacheIndex, d) \in 0 .. Window - 1
      BY <1>1, <2>1, BackRange
    <2>4. log[i] \in Entries /\ log[i] # Vacant /\ log[i].id = id
      BY <1>1, <1>2, <1>3, <1>5, ElementOfSeq
    <2>5. Back(cacheIndex, d) \in FindCached(id)
      BY <2>2, <2>3, <2>4 DEF FindCached, Cached
    <2> QED BY <2>5
  <1> QED BY <1>1, <1>2, <1>4, <1>5

\* Answers stay true as long as what is added to the queue and to the gateway
\* is the outcome of a command, and the history only grows.
LEMMA AnswersStay ==
  ASSUME AnswersAreTrue, NEW m,
         delivered' \cup Queued' \subseteq delivered \cup Queued \cup {m},
         Len(log) \in Nat, Len(log') \in Nat, Len(log) <= Len(log'),
         \A j \in 1 .. Len(log) : log'[j] = log[j],
         m.kind = "response" /\ m.id # NoId =>
           \E j \in 1 .. Len(log') : log'[j] = [id |-> m.id, status |-> m.status]
  PROVE  AnswersAreTrue'
  <1> SUFFICES ASSUME NEW x \in delivered' \cup Queued', x.kind = "response", x.id # NoId
               PROVE  \E j \in 1 .. Len(log') : log'[j] = [id |-> x.id, status |-> x.status]
    BY DEF AnswersAreTrue
  <1>1. CASE x = m
    BY <1>1
  <1>2. CASE x \in delivered \cup Queued
    <2>1. PICK j \in 1 .. Len(log) : log[j] = [id |-> x.id, status |-> x.status]
      BY <1>2 DEF AnswersAreTrue
    <2>2. j \in 1 .. Len(log') /\ log'[j] = log[j]
      OBVIOUS
    <2> QED BY <2>1, <2>2
  <1> QED BY <1>1, <1>2

\* A command that is handled or answered from the cache preserves the
\* invariant of the commands.
LEMMA OnCommandStep ==
  ASSUME CommandInv, NEW id \in Ids, NEW name \in Names, OnCommand(id, name), TypeOK'
  PROVE  CommandInv'
  <1>1. PICK st \in Statuses :
          /\ SendOrQueue(Response(id, st), FALSE)
          /\ \/ /\ \E i \in FindCached(id) : st = cache[i].status
                /\ UNCHANGED <<cache, cacheIndex, log>>
             \/ FindCached(id) = {} /\ Remember(id, st)
    BY CommandEffect DEF CommandInv
  <1> DEFINE m == Response(id, st)
  <1>2. m \in Messages /\ m.id = id /\ m.status = st
    BY ResponseMessage
  <1> HIDE DEF m
  <1>3. delivered' \cup Queued' \subseteq delivered \cup Queued \cup {m}
    <2>1. delivered' \subseteq delivered \cup {m} /\ Queued' \subseteq Queued \cup {m}
      BY <1>1, <1>2, SendEffect DEF CommandInv, m
    <2> QED BY <2>1
  <1>4. Len(log) \in Nat /\ Len(log') \in Nat
    BY LenProperties DEF CommandInv, TypeOK
  <1>5. CASE /\ \E i \in FindCached(id) : st = cache[i].status
             /\ UNCHANGED <<cache, cacheIndex, log>>
    <2>1. PICK i \in FindCached(id) : st = cache[i].status
      BY <1>5
    <2>2. cache[i] \in Entries /\ cache[i].id = id
      BY FoundIsEntry DEF CommandInv
    <2>3. cache[i] = [id |-> id, status |-> st]
      BY <2>1, <2>2 DEF Entries
    <2>4. \E j \in 1 .. Len(log) : log[j] = [id |-> m.id, status |-> m.status]
      BY <1>2, <2>3, CachedWasHandled DEF CommandInv
    <2>5. AnswersAreTrue'
      BY <1>3, <1>4, <1>5, <2>4, AnswersStay DEF CommandInv
    <2>6. CacheIsWindow' /\ OnceInWindow'
      BY <1>5 DEF CommandInv, CacheIsWindow, OnceInWindow
    <2> QED BY <2>5, <2>6 DEF CommandInv
  <1>6. CASE FindCached(id) = {} /\ Remember(id, st)
    <2>1. CacheIsWindow' /\ OnceInWindow'
      BY <1>6, RememberMovesWindow, RememberOnce DEF CommandInv
    <2>2. /\ Len(log') = Len(log) + 1 /\ log'[Len(log) + 1] = [id |-> id, status |-> st]
          /\ \A j \in 1 .. Len(log) : log'[j] = log[j]
      BY <1>6, RememberTypes DEF CommandInv
    <2>3. Len(log) + 1 \in 1 .. Len(log') /\ Len(log) <= Len(log')
      BY <1>4, <2>2
    <2>4. \E j \in 1 .. Len(log') : log'[j] = [id |-> m.id, status |-> m.status]
      BY <1>2, <2>2, <2>3
    <2>5. AnswersAreTrue'
      BY <1>3, <1>4, <2>2, <2>3, <2>4, AnswersStay DEF CommandInv
    <2> QED BY <2>1, <2>5 DEF CommandInv
  <1> QED BY <1>1, <1>5, <1>6

\* Every step preserves the invariant of the commands.
LEMMA CommandStep == ASSUME CommandInv, [Next]_vars PROVE CommandInv'
  <1>1. TypeOK'
    BY TypeStep DEF CommandInv
  <1>2. Len(log) \in Nat /\ Len(log) <= Len(log)
    BY LenProperties DEF CommandInv, TypeOK
  <1>3. ASSUME NEW m, UNCHANGED <<cache, cacheIndex, log>>,
               m.kind = "telemetry" \/ m.id = NoId \/ m \in delivered \cup Queued,
               delivered' \cup Queued' \subseteq delivered \cup Queued \cup {m}
        PROVE  CommandInv'
    <2>1. m.kind = "response" /\ m.id # NoId =>
            \E j \in 1 .. Len(log') : log'[j] = [id |-> m.id, status |-> m.status]
      BY <1>3 DEF CommandInv, AnswersAreTrue
    <2>2. AnswersAreTrue'
      BY <1>2, <1>3, <2>1, AnswersStay DEF CommandInv
    <2>3. CacheIsWindow' /\ OnceInWindow'
      BY <1>3 DEF CommandInv, CacheIsWindow, OnceInWindow
    <2> QED BY <1>1, <2>2, <2>3 DEF CommandInv
  <1>4. ASSUME UNCHANGED <<queue, delivered, cache, cacheIndex, log>> PROVE CommandInv'
    BY <1>1, <1>4
    DEF CommandInv, AnswersAreTrue, CacheIsWindow, OnceInWindow, Queued
  <1>5. ASSUME NEW id \in Ids, NEW name \in Names, OnCommand(id, name) PROVE CommandInv'
    BY <1>1, <1>5, OnCommandStep
  <1>6. CASE OnCorrupt
    <2>1. /\ Response(NoId, "corrupt") \in Messages
          /\ Response(NoId, "corrupt").id = NoId
      BY ResponseMessage DEF Statuses
    <2>2. /\ delivered' \subseteq delivered \cup {Response(NoId, "corrupt")}
          /\ Queued' \subseteq Queued \cup {Response(NoId, "corrupt")}
      BY <1>6, <2>1, SendEffect DEF OnCorrupt, Respond, CommandInv
    <2> QED BY <1>3, <1>6, <2>1, <2>2 DEF OnCorrupt
  <1>7. CASE PublishBool
    <2>1. sequence \in 0 .. MaxSequence
      BY DEF CommandInv, TypeOK
    <2>2. Telemetry(sequence) \in Messages /\ Telemetry(sequence).kind = "telemetry"
      BY <2>1, TelemetryMessage
    <2>3. /\ delivered' \subseteq delivered \cup {Telemetry(sequence)}
          /\ Queued' \subseteq Queued \cup {Telemetry(sequence)}
      BY <1>7, <2>2, SendEffect DEF PublishBool, CommandInv
    <2> QED BY <1>3, <1>7, <2>2, <2>3 DEF PublishBool
  <1>8. CASE ReplayOne
    <2>1. /\ delivered' \subseteq delivered \cup {Head(queue)} /\ Queued' \subseteq Queued
          /\ Head(queue) \in Queued /\ UNCHANGED <<cache, cacheIndex, log>>
      BY <1>8, ReplayEffect DEF CommandInv
    <2> QED BY <1>3, <2>1
  <1>9. CASE Connect \/ Disconnect \/ \E name \in Names : AddHandler(name)
    BY <1>4, <1>9 DEF Connect, Disconnect, AddHandler
  <1>10. CASE UNCHANGED vars
    BY <1>4, <1>10 DEF vars
  <1> QED BY <1>5, <1>6, <1>7, <1>8, <1>9, <1>10 DEF Next

\* The invariant of the commands holds in every reachable state.
LEMMA CommandInvariant == Spec => []CommandInv
  <1>1. Init /\ TypeOK => CommandInv
    <2> SUFFICES ASSUME Init, TypeOK PROVE CommandInv
      OBVIOUS
    <2>1. Len(log) = 0 /\ Len(queue) = 0 /\ delivered = {}
      BY EmptySeq DEF Init, Fifo!FifoInit
    <2>2. CacheIsWindow
      <3>1. cacheIndex \in 0 .. Window - 1
        BY DEF TypeOK
      <3>2. \A d \in 1 .. Window : Back(cacheIndex, d) \in 0 .. Window - 1
        BY <3>1, BackRange
      <3>3. \A d \in 1 .. Window : ~(d <= 0)
        BY Constants
      <3> QED BY <2>1, <3>2, <3>3 DEF CacheIsWindow, Init
    <2>3. OnceInWindow /\ AnswersAreTrue
      BY <2>1 DEF OnceInWindow, AnswersAreTrue, Queued
    <2> QED BY <2>2, <2>3 DEF CommandInv
  <1> QED BY <1>1, CommandStep, MessagingTypeCorrect, PTL DEF Spec

\* Within the window a duplicate is answered from the cache, never handled
\* again.
THEOREM OnceInWindowHolds == Spec => []OnceInWindow
  BY CommandInvariant, PTL DEF CommandInv

\* Whatever is queued, replayed, delivered twice or dropped, an answer for an
\* id is the outcome of a command with that id.
THEOREM AnswersAreTrueHolds == Spec => []AnswersAreTrue
  BY CommandInvariant, PTL DEF CommandInv

-----------------------------------------------------------------------------
\* The telemetry.

\* The number of a telemetry record.
LEMMA TelemetrySeq ==
  ASSUME NEW m \in Messages, m.kind = "telemetry"
  PROVE  m.seq \in Nat /\ m = Telemetry(m.seq)
  <1>1. PICK n \in 0 .. MaxSequence : m = Telemetry(n)
    BY MessageKinds
  <1> QED BY <1>1, TelemetryMessage

\* The order of the queue survives a message at its end whose number, if it
\* has one, is the next.
LEMMA OrderStays ==
  ASSUME TypeOK, QueuedIsOlder, TelemetryInOrder, NEW m \in Messages,
         sequence' \in Nat, sequence <= sequence',
         m.kind = "telemetry" => m.seq = sequence /\ sequence < sequence',
         \/ UNCHANGED queue
         \/ queue' = Append(queue, m)
         \/ queue # <<>> /\ queue' = Append(Tail(queue), m)
  PROVE  QueuedIsOlder' /\ TelemetryInOrder'
  <1>1. /\ queue \in Seq(Messages) /\ Len(queue) \in Nat
        /\ sequence \in Nat /\ \A i \in 1 .. Len(queue) : queue[i] \in Messages
    BY LenProperties, ElementOfSeq, Constants DEF TypeOK
  <1>2. \A i \in 1 .. Len(queue) : queue[i].kind = "telemetry" =>
          queue[i].seq \in Nat /\ queue[i].seq < sequence
    BY <1>1, TelemetrySeq DEF QueuedIsOlder
  <1>3. CASE UNCHANGED queue
    BY <1>1, <1>2, <1>3 DEF QueuedIsOlder, TelemetryInOrder
  <1>4. CASE queue' = Append(queue, m)
    <2> DEFINE n == Len(queue)
    <2>1. /\ Len(queue') = n + 1 /\ queue'[n + 1] = m
          /\ \A i \in 1 .. n : queue'[i] = queue[i]
      BY <1>1, <1>4, AppendQueued
    <2>2. \A i \in 1 .. Len(queue') : i \in 1 .. n \/ i = n + 1
      BY <1>1, <2>1
    <2>3. QueuedIsOlder'
      BY <1>1, <1>2, <2>1, <2>2 DEF QueuedIsOlder
    <2>4. TelemetryInOrder'
      <3> SUFFICES ASSUME NEW i \in 1 .. Len(queue'), NEW j \in 1 .. Len(queue'), i < j,
                          queue'[i].kind = "telemetry", queue'[j].kind = "telemetry"
                   PROVE  queue'[i].seq < queue'[j].seq
        BY DEF TelemetryInOrder
      <3>1. i \in 1 .. n
        BY <1>1, <2>1
      <3>2. CASE j \in 1 .. n
        BY <2>1, <3>1, <3>2 DEF TelemetryInOrder
      <3>3. CASE j = n + 1
        BY <1>2, <2>1, <3>1, <3>3
      <3> QED BY <2>2, <3>2, <3>3
    <2> QED BY <2>3, <2>4
  <1>5. CASE queue # <<>> /\ queue' = Append(Tail(queue), m)
    <2> DEFINE n == Len(queue)
    <2>1. /\ Len(queue') = n /\ queue'[n] = m
          /\ \A i \in 1 .. n - 1 : queue'[i] = queue[i + 1]
      BY <1>1, <1>5, DropQueued
    <2>2. \A i \in 1 .. n : (i \in 1 .. n - 1 /\ i + 1 \in 1 .. n) \/ i = n
      BY <1>1, NotTheLast
    <2>3. QueuedIsOlder'
      <3> SUFFICES ASSUME NEW i \in 1 .. n, queue'[i].kind = "telemetry"
                   PROVE  queue'[i].seq < sequence'
        BY <2>1 DEF QueuedIsOlder
      <3>1. CASE i \in 1 .. n - 1 /\ i + 1 \in 1 .. n
        <4>1. queue'[i] = queue[i + 1]
          BY <2>1, <3>1
        <4> QED BY <1>1, <1>2, <3>1, <4>1
      <3>2. CASE i = n
        BY <1>1, <2>1, <3>2
      <3> QED BY <2>2, <3>1, <3>2
    <2>4. TelemetryInOrder'
      <3> SUFFICES ASSUME NEW i \in 1 .. n, NEW j \in 1 .. n, i < j,
                          queue'[i].kind = "telemetry", queue'[j].kind = "telemetry"
                   PROVE  queue'[i].seq < queue'[j].seq
        BY <2>1 DEF TelemetryInOrder
      <3>1. i # n
        BY <1>1
      <3>2. i \in 1 .. n - 1 /\ i + 1 \in 1 .. n /\ queue'[i] = queue[i + 1]
        BY <2>1, <2>2, <3>1
      <3>3. CASE j \in 1 .. n - 1 /\ j + 1 \in 1 .. n
        <4>1. queue'[j] = queue[j + 1] /\ i + 1 < j + 1
          BY <2>1, <3>3
        <4> QED BY <3>2, <3>3, <4>1 DEF TelemetryInOrder
      <3>4. CASE j = n
        BY <1>2, <2>1, <3>2, <3>4
      <3> QED BY <2>2, <3>3, <3>4
    <2> QED BY <2>3, <2>4
  <1> QED BY <1>3, <1>4, <1>5

\* The records that neither reached the gateway nor wait in the queue.
Lost == {n \in 0 .. sequence - 1 : Telemetry(n) \notin delivered \cup Queued}

\* A set of numbers below s is finite.
LEMMA FiniteBelow ==
  ASSUME NEW s \in Nat, NEW L \in SUBSET (0 .. s - 1)
  PROVE  IsFiniteSet(L) /\ Cardinality(L) \in Nat
  <1>1. IsFiniteSet(0 .. s - 1)
    BY FS_Interval
  <1> QED BY <1>1, FS_Subset, FS_CardinalityType

\* The count covers the losses when no record is lost that was not, or when
\* one is and the queue counted a drop.
LEMMA LossStays ==
  ASSUME TypeOK, TypeOK', LossIsCounted, NEW x,
         \/ Lost' \subseteq Lost /\ dropped' = dropped
         \/ Lost' \subseteq Lost \cup {x} /\ dropped' = dropped + 1
  PROVE  LossIsCounted'
  <1>1. /\ IsFiniteSet(Lost) /\ Cardinality(Lost) \in Nat
        /\ IsFiniteSet(Lost') /\ Cardinality(Lost') \in Nat
    <2>1. sequence \in Nat /\ sequence' \in Nat
      BY Constants DEF TypeOK
    <2>2. Lost \in SUBSET (0 .. sequence - 1) /\ Lost' \in SUBSET (0 .. sequence' - 1)
      BY DEF Lost
    <2> QED BY <2>1, <2>2, FiniteBelow
  <1>2. Cardinality(Lost) <= dropped /\ dropped \in Nat
    BY DEF LossIsCounted, Lost, TypeOK
  <1>3. CASE Lost' \subseteq Lost /\ dropped' = dropped
    <2>1. Cardinality(Lost') <= Cardinality(Lost)
      BY <1>1, <1>3, FS_Subset
    <2>2. Cardinality(Lost') <= dropped'
      BY <1>1, <1>2, <1>3, <2>1
    <2> QED BY <2>2 DEF LossIsCounted, Lost
  <1>4. CASE Lost' \subseteq Lost \cup {x} /\ dropped' = dropped + 1
    <2>1. /\ IsFiniteSet(Lost \cup {x})
          /\ Cardinality(Lost \cup {x}) = IF x \in Lost THEN Cardinality(Lost)
                                                        ELSE Cardinality(Lost) + 1
      BY <1>1, FS_AddElement
    <2>2. Cardinality(Lost') <= Cardinality(Lost \cup {x})
      BY <1>4, <2>1, FS_Subset
    <2>3. Cardinality(Lost') <= dropped'
      BY <1>1, <1>2, <1>4, <2>1, <2>2
    <2> QED BY <2>3 DEF LossIsCounted, Lost
  <1> QED BY <1>3, <1>4

\* publish_bool() preserves the invariant of the telemetry: the record is
\* delivered or queued, and a record it pushes out is counted.
LEMMA PublishStep ==
  ASSUME TelemetryInv, PublishBool, TypeOK' PROVE TelemetryInv'
  <1> DEFINE m == Telemetry(sequence)
  <1>1. /\ sequence \in 0 .. MaxSequence /\ sequence \in Nat
        /\ sequence' = sequence + 1 /\ sequence < sequence' /\ sequence' \in Nat
    BY Constants DEF TelemetryInv, TypeOK, PublishBool
  <1>2. m \in Messages /\ m.kind = "telemetry" /\ m.seq = sequence
    BY <1>1, TelemetryMessage
  <1> HIDE DEF m
  <1>3. /\ delivered \subseteq delivered'
        /\ \/ UNCHANGED <<queue, dropped>> /\ m \in delivered'
           \/ queue' = Append(queue, m) /\ dropped' = dropped
           \/ queue # <<>> /\ queue' = Append(Tail(queue), m) /\ dropped' = dropped + 1
    BY <1>2, SendEffect DEF PublishBool, TelemetryInv, m
  <1>4. QueuedIsOlder' /\ TelemetryInOrder'
    BY <1>1, <1>2, <1>3, OrderStays DEF TelemetryInv
  <1>5. \A n \in 0 .. sequence' - 1 : n \in 0 .. sequence - 1 \/ n = sequence
    BY <1>1
  <1>6. queue \in Seq(Messages)
    BY DEF TelemetryInv, TypeOK
  <1>7. CASE m \in delivered' /\ UNCHANGED <<queue, dropped>>
    <2>1. Queued' = Queued
      BY <1>7 DEF Queued
    <2>2. Lost' \subseteq Lost
      BY <1>3, <1>5, <1>7, <2>1 DEF Lost, m
    <2> QED BY <1>4, <1>7, <2>2, LossStays DEF TelemetryInv
  <1>8. CASE queue' = Append(queue, m) /\ dropped' = dropped
    <2>1. Queued' = Queued \cup {m}
      BY <1>2, <1>6, <1>8, AppendQueued
    <2>2. Lost' \subseteq Lost
      BY <1>3, <1>5, <2>1 DEF Lost, m
    <2> QED BY <1>4, <1>8, <2>2, LossStays DEF TelemetryInv
  <1>9. CASE queue # <<>> /\ queue' = Append(Tail(queue), m) /\ dropped' = dropped + 1
    <2>1. Queued \cup {m} \subseteq Queued' \cup {Head(queue)}
      BY <1>2, <1>6, <1>9, DropQueued
    <2>2. \A n \in Lost' : n \in Lost \/ Telemetry(n) = Head(queue)
      BY <1>3, <1>5, <2>1 DEF Lost, m
    <2>3. \A n \in Lost' : n \in Lost \/ n = Head(queue).seq
      <3>1. \A n \in Lost' : Telemetry(n).seq = n
        BY DEF Telemetry
      <3> QED BY <2>2, <3>1
    <2>4. Lost' \subseteq Lost \cup {Head(queue).seq}
      BY <2>3
    <2> QED BY <1>4, <1>9, <2>4, LossStays DEF TelemetryInv
  <1> QED BY <1>3, <1>7, <1>8, <1>9

\* An answer preserves the invariant of the telemetry: it never pushes out a
\* record.
LEMMA AnswerStep ==
  ASSUME TelemetryInv, TypeOK', UNCHANGED sequence,
         NEW id \in Ids \cup {NoId}, NEW st \in Statuses,
         SendOrQueue(Response(id, st), FALSE)
  PROVE  TelemetryInv'
  <1> DEFINE m == Response(id, st)
  <1>1. sequence \in Nat
    BY Constants DEF TelemetryInv, TypeOK
  <1>2. m \in Messages /\ m.kind = "response"
    BY ResponseMessage
  <1> HIDE DEF m
  <1>3. /\ delivered \subseteq delivered' /\ dropped' = dropped
        /\ UNCHANGED queue \/ queue' = Append(queue, m)
    BY <1>2, SendEffect DEF TelemetryInv, m
  <1>4. QueuedIsOlder' /\ TelemetryInOrder'
    BY <1>1, <1>2, <1>3, OrderStays DEF TelemetryInv
  <1>5. Queued \subseteq Queued'
    <2>1. queue \in Seq(Messages)
      BY DEF TelemetryInv, TypeOK
    <2>2. CASE UNCHANGED queue
      BY <2>2 DEF Queued
    <2>3. CASE queue' = Append(queue, m)
      BY <1>2, <2>1, <2>3, AppendQueued
    <2> QED BY <1>3, <2>2, <2>3
  <1>6. Lost' \subseteq Lost
    BY <1>3, <1>5 DEF Lost
  <1> QED BY <1>3, <1>4, <1>6, LossStays DEF TelemetryInv

\* replay_one() preserves the invariant of the telemetry: what leaves the
\* queue has reached the gateway.
LEMMA ReplayStep ==
  ASSUME TelemetryInv, ReplayOne, TypeOK' PROVE TelemetryInv'
  <1>1. /\ queue \in Seq(Messages) /\ queue # <<>> /\ sequence \in Nat
        /\ UNCHANGED <<sequence, dropped>> /\ delivered \subseteq delivered'
        /\ UNCHANGED <<queue, Queued>> \/ (queue' = Tail(queue) /\ Head(queue) \in delivered')
    BY ReplayEffect, Constants DEF TelemetryInv, TypeOK
  <1>2. CASE UNCHANGED <<queue, Queued>>
    <2>1. Lost' \subseteq Lost
      BY <1>1, <1>2 DEF Lost
    <2>2. QueuedIsOlder' /\ TelemetryInOrder'
      BY <1>1, <1>2 DEF TelemetryInv, QueuedIsOlder, TelemetryInOrder
    <2> QED BY <1>1, <2>1, <2>2, LossStays DEF TelemetryInv
  <1>3. CASE queue' = Tail(queue) /\ Head(queue) \in delivered'
    <2>1. /\ Len(queue') = Len(queue) - 1
          /\ \A i \in 1 .. Len(queue') : queue'[i] = queue[i + 1]
          /\ Queued = Queued' \cup {Head(queue)}
          /\ Len(queue) \in Nat
      BY <1>1, <1>3, TailQueued, LenProperties
    <2>2. Lost' \subseteq Lost
      BY <1>1, <1>3, <2>1 DEF Lost
    <2>3. \A i \in 1 .. Len(queue') : i + 1 \in 1 .. Len(queue)
      BY <2>1
    <2>4. QueuedIsOlder'
      BY <1>1, <2>1, <2>3 DEF TelemetryInv, QueuedIsOlder
    <2>5. TelemetryInOrder'
      <3> SUFFICES ASSUME NEW i \in 1 .. Len(queue'), NEW j \in 1 .. Len(queue'), i < j,
                          queue'[i].kind = "telemetry", queue'[j].kind = "telemetry"
                   PROVE  queue'[i].seq < queue'[j].seq
        BY DEF TelemetryInOrder
      <3>1. i + 1 < j + 1
        BY <2>1
      <3> QED BY <2>1, <2>3, <3>1 DEF TelemetryInv, TelemetryInOrder
    <2> QED BY <1>1, <2>2, <2>4, <2>5, LossStays DEF TelemetryInv
  <1> QED BY <1>1, <1>2, <1>3

\* Every step preserves the invariant of the telemetry.
LEMMA TelemetryStep == ASSUME TelemetryInv, [Next]_vars PROVE TelemetryInv'
  <1>1. TypeOK'
    BY TypeStep DEF TelemetryInv
  <1>2. ASSUME NEW id \in Ids, NEW name \in Names, OnCommand(id, name) PROVE TelemetryInv'
    <2>1. PICK st \in Statuses :
            SendOrQueue(Response(id, st), FALSE) /\ UNCHANGED sequence
      BY <1>2, CommandEffect DEF TelemetryInv
    <2> QED BY <1>1, <2>1, AnswerStep
  <1>3. CASE OnCorrupt
    BY <1>1, <1>3, AnswerStep DEF OnCorrupt, Respond, Statuses
  <1>4. CASE PublishBool
    BY <1>1, <1>4, PublishStep
  <1>5. CASE ReplayOne
    BY <1>1, <1>5, ReplayStep
  <1>6. ASSUME UNCHANGED <<queue, dropped, sequence, delivered>> PROVE TelemetryInv'
    BY <1>1, <1>6
    DEF TelemetryInv, QueuedIsOlder, TelemetryInOrder, LossIsCounted, Queued
  <1>7. CASE Connect \/ Disconnect \/ \E name \in Names : AddHandler(name)
    BY <1>6, <1>7 DEF Connect, Disconnect, AddHandler
  <1>8. CASE UNCHANGED vars
    BY <1>6, <1>8 DEF vars
  <1> QED BY <1>2, <1>3, <1>4, <1>5, <1>7, <1>8 DEF Next

\* The invariant of the telemetry holds in every reachable state.
LEMMA TelemetryInvariant == Spec => []TelemetryInv
  <1>1. Init /\ TypeOK => TelemetryInv
    <2> SUFFICES ASSUME Init, TypeOK PROVE TelemetryInv
      OBVIOUS
    <2>1. Len(queue) = 0 /\ sequence = 0 /\ dropped = 0
      BY EmptySeq DEF Init, Fifo!FifoInit
    <2>2. Lost = {}
      BY <2>1 DEF Lost
    <2>3. Cardinality(Lost) = 0
      BY <2>2, FS_EmptySet
    <2>4. LossIsCounted
      BY <2>1, <2>3 DEF LossIsCounted, Lost
    <2> QED BY <2>1, <2>4 DEF TelemetryInv, QueuedIsOlder, TelemetryInOrder
  <1> QED BY <1>1, TelemetryStep, MessagingTypeCorrect, PTL DEF Spec

\* No telemetry record is lost without being counted.
THEOREM LossIsCountedHolds == Spec => []LossIsCounted
  BY TelemetryInvariant, PTL DEF TelemetryInv

\* The records of the queue are in the order in which they were taken.
THEOREM TelemetryInOrderHolds == Spec => []TelemetryInOrder
  BY TelemetryInvariant, PTL DEF TelemetryInv
==============================================================================
