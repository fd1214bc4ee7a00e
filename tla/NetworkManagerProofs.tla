------------------------ MODULE NetworkManagerProofs -------------------------
(***************************************************************************)
(* Proofs about NetworkManager, for any number of links, any delays and    *)
(* any number of attempts: the observer is told of every state, and a link *)
(* that is down is retried within the longest delay as long as the uptime  *)
(* stays below half the range of the clock.                                *)
(***************************************************************************)
EXTENDS NetworkManager, ArithmeticLemmas, TLAPS

\* The longest delay.
Cap == Max({Delays[d] : d \in 1 .. Len(Delays)})

\* Every delay the policy answers is one of the list.
LEMMA DelayWithinCap ==
  /\ Cap \in Nat
  /\ \A n \in Nat : Delay(n) \in 0 .. Cap
  <1>1. Delays \in Seq(Nat) /\ Delays # <<>>
    BY NetworkAssumption
  <1>2. Cap \in Nat /\ \A d \in 1 .. Len(Delays) : Delays[d] <= Cap
    BY <1>1, GreatestElement DEF Cap
  <1>3. Len(Delays) \in Nat \ {0} /\ \A d \in 1 .. Len(Delays) : Delays[d] \in Nat
    BY <1>1
  <1>4. ASSUME NEW n \in Nat PROVE Delay(n) \in 0 .. Cap
    <2> DEFINE d == IF n < Len(Delays) THEN n + 1 ELSE Len(Delays)
    <2>1. d \in 1 .. Len(Delays) /\ Delay(n) = Delays[d]
      BY <1>3 DEF Delay
    <2> HIDE DEF d
    <2>2. Delays[d] \in Nat /\ Delays[d] <= Cap
      BY <1>2, <1>3, <2>1
    <2> QED BY <1>2, <2>1, <2>2
  <1> QED BY <1>2, <1>4

\* The first link that is up is registered.
LEMMA FirstUp ==
  ASSUME NetworkTypeOK, NEW up \in SUBSET Registered, up # {}
  PROVE  Min(up) \in Links /\ Min(up) < linkCount
  <1>1. up \subseteq Nat /\ linkCount \in 0 .. LinkCapacity
    BY NetworkAssumption DEF NetworkTypeOK, Registered
  <1>2. Min(up) \in up
    BY <1>1, MinInSet
  <1>3. Min(up) \in 0 .. linkCount - 1
    BY <1>2, Zenon DEF Registered
  <1> QED BY <1>1, <1>3, NetworkAssumption DEF Links

\* What publish() does to the state and the observer.
LEMMA PublishEffect ==
  ASSUME NEW st, NEW i, Publish(st, i)
  PROVE  /\ state' = st
         /\ told' = told \/ told' = st
         /\ observed /\ i < linkCount /\ told \in {"nothing", state}
              => told' \in {"nothing", st}
         /\ ~(observed /\ i < linkCount) => told' = told
  BY DEF Publish

-----------------------------------------------------------------------------
\* No step leaves the types, and a clock that wraps stays in its range.
LEMMA NetworkTypeStep ==
  ASSUME NetworkTypeOK, [NetworkNext]_networkVars PROVE NetworkTypeOK'
  <1> USE NetworkAssumption
  <1>0. settled' \in BOOLEAN /\ observed' \in BOOLEAN
    BY Zenon DEF NetworkTypeOK, NetworkNext, AddLink, SetObserver, PollOnline,
                 PollOffline, NetworkTick, networkVars
  <1>1. CASE AddLink
    BY <1>0, <1>1 DEF AddLink, NetworkTypeOK
  <1>2. ASSUME NEW set \in BOOLEAN, SetObserver(set) PROVE NetworkTypeOK'
    BY <1>0, <1>2 DEF SetObserver, NetworkTypeOK
  <1>3. ASSUME NEW up \in SUBSET Registered, PollOnline(up) PROVE NetworkTypeOK'
    <2> DEFINE i == Min(up)
               st == IF i = 0 THEN "online_primary" ELSE "online_backup"
    <2>1. i \in Links
      BY <1>3, FirstUp DEF PollOnline
    <2>2. Publish(st, i)
      BY <1>3 DEF PollOnline
    <2>3. state' = st /\ (told' = told \/ told' = st)
      BY <2>2, PublishEffect
    <2>4. /\ active' = i /\ attempt' = [attempt EXCEPT ![i] = 0]
          /\ waiting' = [j \in Links |-> 0]
          /\ UNCHANGED <<linkTime, linkCount, linkRetryAt, observed>>
      BY <1>3 DEF PollOnline
    <2> HIDE DEF i
    <2>5. active' \in 0 .. LinkCapacity /\ attempt' \in [Links -> 0 .. MaxAttempts]
      BY <2>1, <2>4 DEF NetworkTypeOK, Links
    <2> QED BY <1>0, <2>3, <2>4, <2>5 DEF NetworkTypeOK
  <1>4. ASSUME NEW accepting \in SUBSET Registered, PollOffline(accepting)
        PROVE  NetworkTypeOK'
    <2> DEFINE started == Started(accepting)
               st == IF started # {} THEN "connecting" ELSE "offline"
    <2>1. state' = st /\ (told' = told \/ told' = st)
      BY <1>4, PublishEffect DEF PollOffline
    <2>2. attempt' \in [Links -> 0 .. MaxAttempts]
      BY <1>4 DEF PollOffline, NetworkTypeOK, NextAttempt
    <2>3. ASSUME NEW i \in Links
          PROVE  (linkTime + Delay(attempt[i])) % LinkTimeModulus \in 0 .. LinkTimeModulus - 1
      <3>1. attempt[i] \in Nat /\ linkTime \in Nat
        BY DEF NetworkTypeOK
      <3>2. Delay(attempt[i]) \in 0 .. Cap /\ Cap \in Nat
        BY <3>1, DelayWithinCap
      <3>3. linkTime + Delay(attempt[i]) \in Int
        BY <3>1, <3>2
      <3> QED BY <3>3, Division, Zenon
    <2>4. linkRetryAt' \in [Links -> 0 .. LinkTimeModulus - 1]
      BY <1>4, <2>3 DEF PollOffline, NetworkTypeOK
    <2>5. waiting' \in [Links -> Nat]
      BY <1>4 DEF PollOffline, NetworkTypeOK
    <2>6. active' = LinkCapacity /\ UNCHANGED <<linkTime, linkCount, observed>>
      BY <1>4 DEF PollOffline
    <2> QED BY <1>0, <2>1, <2>2, <2>4, <2>5, <2>6 DEF NetworkTypeOK
  <1>5. CASE NetworkTick
    BY <1>0, <1>5 DEF NetworkTick, NetworkTypeOK
  <1>6. CASE UNCHANGED networkVars
    BY <1>6 DEF networkVars, NetworkTypeOK
  <1> QED BY <1>1, <1>2, <1>3, <1>4, <1>5, <1>6 DEF NetworkNext

\* Every variable of the network manager has its type: the active link and the
\* number of links stay within the array of links.
THEOREM NetworkTypeCorrect == NetworkSpec => []NetworkTypeOK
  <1> USE NetworkAssumption
  <1>1. NetworkInit => NetworkTypeOK
    <2> SUFFICES ASSUME NetworkInit PROVE NetworkTypeOK
      OBVIOUS
    <2>1. observed \in BOOLEAN /\ settled \in BOOLEAN
      BY Zenon DEF NetworkInit
    <2> QED BY <2>1 DEF NetworkInit, NetworkTypeOK
  <1> QED BY <1>1, NetworkTypeStep, PTL DEF NetworkSpec

-----------------------------------------------------------------------------
\* The inductive invariant of the observer: a state it is not told of is
\* published only while there is no link or no observer, or before it was told
\* of any.
ObserverInv ==
  /\ ObserverIsCurrent
  /\ ~observed \/ linkCount = 0 => told = "nothing"
  /\ state = "provisioning_required" => told = "nothing"

\* Every step preserves it.
LEMMA ObserverStep ==
  ASSUME NetworkTypeOK, ObserverInv, [NetworkNext]_networkVars PROVE ObserverInv'
  <1> USE DEF ObserverInv, ObserverIsCurrent
  <1>1. CASE AddLink
    BY <1>1 DEF AddLink, NetworkTypeOK
  <1>2. ASSUME NEW set \in BOOLEAN, SetObserver(set) PROVE ObserverInv'
    BY <1>2 DEF SetObserver
  <1>3. ASSUME NEW up \in SUBSET Registered, PollOnline(up) PROVE ObserverInv'
    <2> DEFINE i == Min(up)
               st == IF i = 0 THEN "online_primary" ELSE "online_backup"
    <2>1. i < linkCount /\ linkCount # 0
      BY <1>3, FirstUp DEF PollOnline, Links
    <2>2. Publish(st, i) /\ UNCHANGED <<linkCount, observed>>
      BY <1>3 DEF PollOnline
    <2>3. st # "provisioning_required"
      OBVIOUS
    <2> HIDE DEF i, st
    <2>4. /\ state' = st
          /\ observed /\ i < linkCount => told' \in {"nothing", st}
          /\ ~(observed /\ i < linkCount) => told' = told
      BY <2>2, PublishEffect
    <2> QED BY <2>1, <2>2, <2>3, <2>4
  <1>4. ASSUME NEW accepting \in SUBSET Registered, PollOffline(accepting)
        PROVE  ObserverInv'
    <2> DEFINE st == IF Started(accepting) # {} THEN "connecting" ELSE "offline"
    <2>1. Publish(st, 0) /\ UNCHANGED <<linkCount, observed>>
      BY <1>4 DEF PollOffline
    <2>2. st # "provisioning_required" /\ (0 < linkCount <=> linkCount # 0)
      BY DEF NetworkTypeOK
    <2> HIDE DEF st
    <2>3. /\ state' = st
          /\ observed /\ 0 < linkCount => told' \in {"nothing", st}
          /\ ~(observed /\ 0 < linkCount) => told' = told
      BY <2>1, PublishEffect
    <2> QED BY <2>1, <2>2, <2>3
  <1>5. CASE NetworkTick
    BY <1>5 DEF NetworkTick
  <1>6. CASE UNCHANGED networkVars
    BY <1>6 DEF networkVars
  <1> QED BY <1>1, <1>2, <1>3, <1>4, <1>5, <1>6 DEF NetworkNext

\* What the observer was told last is the state, whatever links are added and
\* whenever it is set.
THEOREM ObserverIsCurrentHolds == NetworkSpec => []ObserverIsCurrent
  <1>1. NetworkInit => ObserverInv
    BY DEF NetworkInit, ObserverInv, ObserverIsCurrent
  <1>2. NetworkTypeOK /\ ObserverInv /\ [NetworkNext]_networkVars => ObserverInv'
    BY ObserverStep
  <1>3. ObserverInv => ObserverIsCurrent
    BY DEF ObserverInv
  <1> QED BY <1>1, <1>2, <1>3, NetworkTypeCorrect, PTL DEF NetworkSpec

-----------------------------------------------------------------------------
\* The uptime is bounded so that no stored time is ever half the range of the
\* clock in the past, nor wraps.
ShortUptime == MaxLinkTime < LinkTimeModulus \div 2 /\ MaxLinkTime + Cap < LinkTimeModulus

\* The inductive invariant of the retries: a link waited so far, and has to
\* wait, for no more than the longest delay together; and time passes offline
\* only when nothing is due.
RetryInv ==
  /\ \A i \in Links :
       /\ waiting[i] <= Cap
       /\ linkRetryAt[i] > linkTime => waiting[i] + (linkRetryAt[i] - linkTime) <= Cap
  /\ settled /\ state \in {"connecting", "offline"} =>
       \A i \in Registered : ~Exhausted(i) => linkRetryAt[i] > linkTime

\* A link whose time has come is due.
LEMMA PastIsDue ==
  ASSUME NetworkTypeOK, ShortUptime, NEW i \in Links, ~Due(i) PROVE linkRetryAt[i] > linkTime
  <1>1. /\ linkTime \in 0 .. MaxLinkTime /\ linkRetryAt[i] \in Nat
        /\ LinkTimeModulus \in Nat \ {0} /\ MaxLinkTime \in Nat
    BY NetworkAssumption DEF NetworkTypeOK
  <1>2. LinkTimeModulus \div 2 \in Nat /\ LinkTimeModulus \div 2 <= LinkTimeModulus
        /\ MaxLinkTime < LinkTimeModulus \div 2
    BY <1>1 DEF ShortUptime
  <1> DEFINE half == LinkTimeModulus \div 2
             r == linkRetryAt[i]
  <1>3. ~((linkTime - r) % LinkTimeModulus < half)
    BY DEF Due
  <1> HIDE DEF half, r
  <1>4. ASSUME r <= linkTime PROVE FALSE
    <2>1. r \in Nat /\ half \in Nat /\ half <= LinkTimeModulus /\ MaxLinkTime < half
      BY <1>1, <1>2 DEF r, half
    <2>2. linkTime - r \in 0 .. LinkTimeModulus - 1 /\ linkTime - r < half
      BY <1>1, <1>4, <2>1
    <2>3. (linkTime - r) % LinkTimeModulus = linkTime - r
      BY <1>1, <2>2, SmallRemainder
    <2> QED BY <1>3, <2>2, <2>3
  <1> QED BY <1>1, <1>4 DEF r

\* When no start() was called, no link was due.
LEMMA NothingStarted ==
  ASSUME NetworkTypeOK, NEW accepting, Started(accepting) = {},
         NEW i \in Registered, ~Exhausted(i)
  PROVE  ~Due(i)
  <1> DEFINE due == {j \in Registered : ~Exhausted(j) /\ Due(j)}
  <1>1. SUFFICES ASSUME due # {} PROVE FALSE
    OBVIOUS
  <1>2. due \subseteq Nat
    BY DEF Registered, NetworkTypeOK
  <1>3. Started(accepting) = {j \in due : \A k \in due \cap accepting : j <= k}
    BY DEF Started
  <1> HIDE DEF due
  <1>4. Min(due) \in due /\ \A y \in due : Min(due) <= y
    BY <1>1, <1>2, MinInSet
  <1>5. Min(due) \in Started(accepting)
    BY <1>3, <1>4
  <1> QED BY <1>5

\* A poll() that finds no link up preserves it.
LEMMA RetryOffline ==
  ASSUME NetworkTypeOK, RetryInv, ShortUptime, NEW accepting \in SUBSET Registered,
         PollOffline(accepting)
  PROVE  RetryInv'
  <1> USE NetworkAssumption
  <1> DEFINE started == Started(accepting)
  <1>0. Cap \in Nat
    BY DelayWithinCap
  <1>1. /\ linkTime' = linkTime /\ linkCount' = linkCount
        /\ \A i \in Links :
             /\ attempt'[i] = IF i \in started THEN NextAttempt(attempt[i]) ELSE attempt[i]
             /\ linkRetryAt'[i] = IF i \in started
                                  THEN (linkTime + Delay(attempt[i])) % LinkTimeModulus
                                  ELSE linkRetryAt[i]
             /\ waiting'[i] = IF i \in started THEN 0 ELSE waiting[i]
    BY DEF PollOffline
  <1>2. ASSUME NEW i \in Links
        PROVE  /\ waiting'[i] <= Cap
               /\ linkRetryAt'[i] > linkTime'
                    => waiting'[i] + (linkRetryAt'[i] - linkTime') <= Cap
    <2>1. CASE i \in started
      <3>1. linkTime \in 0 .. MaxLinkTime /\ attempt[i] \in Nat
        BY DEF NetworkTypeOK
      <3> DEFINE d == Delay(attempt[i])
      <3>2. d \in 0 .. Cap
        BY <3>1, DelayWithinCap
      <3> HIDE DEF d
      <3>3. linkTime + d \in 0 .. LinkTimeModulus - 1
        BY <1>0, <3>1, <3>2 DEF ShortUptime
      <3>4. (linkTime + d) % LinkTimeModulus = linkTime + d
        BY <3>3, SmallRemainder
      <3>5. linkRetryAt'[i] = linkTime + d /\ waiting'[i] = 0 /\ linkTime' = linkTime
        BY <1>1, <2>1, <3>4 DEF d
      <3> QED BY <1>0, <3>1, <3>2, <3>5
    <2>2. CASE i \notin started
      BY <1>1, <2>2 DEF RetryInv
    <2> QED BY <2>1, <2>2
  <1>3. ASSUME settled', NEW i \in Registered', ~Exhausted(i)' PROVE linkRetryAt'[i] > linkTime'
    <2>1. started = {}
      BY <1>3 DEF PollOffline
    <2>2. i \in Registered /\ i \in Links
      BY <1>1 DEF Registered, Links, NetworkTypeOK
    <2>3. attempt'[i] = attempt[i] /\ linkRetryAt'[i] = linkRetryAt[i]
      BY <1>1, <2>1, <2>2
    <2>4. ~Exhausted(i)
      BY <1>3, <2>3 DEF Exhausted
    <2>5. ~Due(i)
      BY <2>1, <2>2, <2>4, NothingStarted
    <2> QED BY <1>1, <2>2, <2>3, <2>5, PastIsDue
  <1> QED BY <1>2, <1>3 DEF RetryInv, Cap

\* A tick preserves it: what a link has waited more it has to wait less.
LEMMA RetryTick ==
  ASSUME NetworkTypeOK, RetryInv, NetworkTick PROVE RetryInv'
  <1> USE NetworkAssumption
  <1>1. /\ settled /\ ~settled' /\ linkTime' = linkTime + 1 /\ linkTime \in Nat
        /\ linkRetryAt' = linkRetryAt
        /\ \A i \in Links : waiting'[i] = IF Waits(i) THEN waiting[i] + 1 ELSE 0
    BY DEF NetworkTick, NetworkTypeOK
  <1>2. ASSUME NEW i \in Links
        PROVE  /\ waiting'[i] <= Cap
               /\ linkRetryAt'[i] > linkTime'
                    => waiting'[i] + (linkRetryAt'[i] - linkTime') <= Cap
    <2>1. waiting[i] \in Nat /\ linkRetryAt[i] \in Nat /\ Cap \in Nat
      BY DelayWithinCap DEF NetworkTypeOK
    <2>2. linkRetryAt[i] > linkTime => waiting[i] + (linkRetryAt[i] - linkTime) <= Cap
      BY DEF RetryInv
    <2>3. Waits(i) => linkRetryAt[i] > linkTime
      BY <1>1 DEF RetryInv, Waits, Registered, Links, NetworkTypeOK
    <2> DEFINE w == waiting[i]
               r == linkRetryAt[i]
    <2>4. /\ w \in Nat /\ r \in Nat
          /\ r > linkTime => w + (r - linkTime) <= Cap
          /\ waiting'[i] = IF Waits(i) THEN w + 1 ELSE 0
          /\ linkRetryAt'[i] = r
      BY <1>1, <2>1, <2>2
    <2> HIDE DEF w, r
    <2>5. CASE Waits(i)
      <3>1. r > linkTime
        BY <2>3, <2>5 DEF r
      <3> QED BY <1>1, <2>1, <2>4, <2>5, <3>1
    <2>6. CASE ~Waits(i)
      BY <1>1, <2>1, <2>4, <2>6
    <2> QED BY <2>5, <2>6
  <1> QED BY <1>1, <1>2 DEF RetryInv, Cap

\* Every step preserves it.
LEMMA RetryStep ==
  ASSUME NetworkTypeOK, RetryInv, ShortUptime, [NetworkNext]_networkVars PROVE RetryInv'
  <1> USE NetworkAssumption
  <1>1. CASE AddLink
    <2>1. ~settled' /\ UNCHANGED <<linkTime, linkRetryAt, waiting>>
      BY <1>1 DEF AddLink
    <2> QED BY <2>1 DEF RetryInv, Cap
  <1>2. ASSUME NEW set \in BOOLEAN, SetObserver(set) PROVE RetryInv'
    BY <1>2 DEF SetObserver, RetryInv, Cap, Registered, Exhausted
  <1>3. ASSUME NEW up \in SUBSET Registered, PollOnline(up) PROVE RetryInv'
    <2>1. state' \in {"online_primary", "online_backup"}
      BY <1>3, PublishEffect DEF PollOnline
    <2>2. /\ \A i \in Links : waiting'[i] = 0 /\ waiting[i] \in Nat /\ linkRetryAt[i] \in Nat
          /\ linkTime' = linkTime /\ linkRetryAt' = linkRetryAt /\ Cap \in Nat /\ linkTime \in Nat
      BY <1>3, DelayWithinCap DEF PollOnline, NetworkTypeOK
    <2>3. \A i \in Links :
            /\ waiting'[i] <= Cap
            /\ linkRetryAt'[i] > linkTime'
                 => waiting'[i] + (linkRetryAt'[i] - linkTime') <= Cap
      BY <2>2 DEF RetryInv
    <2> QED BY <2>1, <2>3 DEF RetryInv, Cap
  <1>4. CASE \E accepting \in SUBSET Registered : PollOffline(accepting)
    BY <1>4, RetryOffline
  <1>5. CASE NetworkTick
    BY <1>5, RetryTick
  <1>6. CASE UNCHANGED networkVars
    BY <1>6 DEF networkVars, RetryInv, Cap, Registered, Exhausted
  <1> QED BY <1>1, <1>2, <1>3, <1>4, <1>5, <1>6 DEF NetworkNext

\* While no link is up, every link with attempts left is started again within
\* the longest delay, as long as the uptime stays below half the range of the
\* clock, which a link that stays up longer than that exceeds.
THEOREM RetriedWithinCapHolds ==
  ASSUME ShortUptime PROVE NetworkSpec => []RetriedWithinCap
  <1>1. NetworkInit => RetryInv
    BY DelayWithinCap, NetworkAssumption DEF NetworkInit, RetryInv, Links
  <1>2. NetworkTypeOK /\ RetryInv /\ [NetworkNext]_networkVars => RetryInv'
    BY RetryStep
  <1>3. RetryInv => RetriedWithinCap
    BY DEF RetryInv, RetriedWithinCap, Cap
  <1> QED BY <1>1, <1>2, <1>3, NetworkTypeCorrect, PTL DEF NetworkSpec
==============================================================================
