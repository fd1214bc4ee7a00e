--------------------------- MODULE UntimedProofs -----------------------------
(***************************************************************************)
(* Proofs about the parts that know no time: the binary switch, the pin    *)
(* interrupt, the security policy, the diagnostics, the offline queue, the *)
(* byte stream, the event bus, the frame codec and the JSON document.      *)
(* They share no state, so each has an inductive invariant of its own.     *)
(***************************************************************************)
EXTENDS BinarySwitch, PinInterrupt, SecurityPolicy, Diagnostics, OfflineQueue,
        ByteStream, EventBus, FrameCodec, JsonDocument, ArithmeticLemmas, FiniteSetTheorems,
        SequenceTheorems, TLAPS

-----------------------------------------------------------------------------
\* BinarySwitch.

\* Pin p is driven at the state of the service, with its own polarity.
Driven(p) == level[p] = on /\ high[p] = Physical(p, on)

SwitchTypeOK ==
  /\ on \in States /\ loadOk \in BOOLEAN /\ defaulted \in BOOLEAN
  /\ step \in {"dead", "boot", "idle", "load", "indicator", "save"}
  /\ level \in [Pins -> States]
  /\ high \in [Pins -> {"high", "low", "floating"}]
  /\ medium \in States \cup {"empty"} /\ acked \in States \cup {"none"}

\* The inductive invariant: at each port call, the pins that are done are
\* driven, and what was acknowledged is in the store and, once restore() has
\* run, in the service.  A set() in progress acknowledges nothing.
SwitchInv ==
  /\ SwitchTypeOK
  /\ step = "indicator" /\ loadOk => Driven("load")
  /\ step = "save" \/ (step = "idle" /\ status = "ok") => \A p \in Pins : Driven(p)
  /\ step = "save" \/ (step \in {"load", "indicator"} /\ verb = "set") => acked = "none"
  /\ acked # "none" => medium = acked
  /\ acked # "none" /\ step \notin {"dead", "boot"} =>
       on = IF defaulted THEN "off" ELSE acked

\* The physical level of a pin.
LEMMA PhysicalLevel == ASSUME NEW p, NEW s PROVE Physical(p, s) \in {"high", "low"}
  BY DEF Physical

\* Driving one pin leaves the other as it is.
LEMMA DriveEffect ==
  ASSUME SwitchTypeOK, NEW p \in Pins, Drive(p, on), UNCHANGED on
  PROVE  /\ level' \in [Pins -> States]
         /\ high' \in [Pins -> {"high", "low", "floating"}]
         /\ Driven(p)'
         /\ \A q \in Pins : Driven(q) => Driven(q)'
  BY PhysicalLevel DEF SwitchTypeOK, Drive, Driven, Physical, PhysicalHigh

\* The calls that do not drive a pin preserve the invariant.
LEMMA SwitchCallStep ==
  ASSUME SwitchInv,
         \/ \E configured \in SUBSET Pins : Construct(configured)
         \/ \E loaded \in BOOLEAN : (loaded => medium # "empty") /\ Restore(loaded)
         \/ \E s \in States : Set(s)
         \/ LosePower
  PROVE  SwitchInv'
  <1>1. ASSUME NEW configured \in SUBSET Pins, Construct(configured) PROVE SwitchInv'
    <2>1. high' \in [Pins -> {"high", "low", "floating"}]
      BY <1>1, PhysicalLevel DEF Construct, Outputs
    <2>2. loadOk' \in BOOLEAN
      BY <1>1, Zenon DEF Construct
    <2> QED BY <1>1, <2>1, <2>2 DEF Construct, SwitchInv, SwitchTypeOK, States
  <1>2. ASSUME NEW loaded \in BOOLEAN, loaded => medium # "empty", Restore(loaded)
        PROVE  SwitchInv'
    <2>1. on' \in States /\ defaulted' \in BOOLEAN /\ (defaulted' <=> ~loaded)
      BY <1>2 DEF Restore, SwitchInv, SwitchTypeOK, States
    <2> QED BY <1>2, <2>1 DEF Restore, SwitchInv, SwitchTypeOK
  <1>3. ASSUME NEW s \in States, Set(s) PROVE SwitchInv'
    BY <1>3 DEF Set, SwitchInv, SwitchTypeOK
  <1>4. CASE LosePower
    <2>1. high' \in [Pins -> {"high", "low", "floating"}]
      BY <1>4 DEF LosePower, Unpowered
    <2> QED BY <1>4, <2>1 DEF LosePower, SwitchInv, SwitchTypeOK
  <1> QED BY <1>1, <1>2, <1>3, <1>4

\* The port calls preserve the invariant.
LEMMA SwitchPortStep ==
  ASSUME SwitchInv, ApplyLoad \/ ApplyIndicator \/ Save PROVE SwitchInv'
  <1>1. "load" \in Pins /\ "indicator" \in Pins /\ \A p \in Pins : p \in {"load", "indicator"}
    BY DEF Pins
  <1>2. CASE ApplyLoad
    <2>1. CASE Drive("load", on) /\ loadOk' = TRUE
      <3>1. loadOk' \in BOOLEAN
        BY <2>1, Zenon
      <3> QED BY <1>1, <1>2, <2>1, <3>1, DriveEffect
          DEF ApplyLoad, SwitchInv, SwitchTypeOK
    <2>2. CASE loadOk' = FALSE /\ UNCHANGED <<level, high>>
      <3>1. loadOk' \in BOOLEAN
        BY <2>2, Zenon
      <3> QED BY <1>2, <2>2, <3>1 DEF ApplyLoad, SwitchInv, SwitchTypeOK
    <2> QED BY <1>2, <2>1, <2>2 DEF ApplyLoad
  <1>3. CASE ApplyIndicator
    <2>1. CASE Drive("indicator", on) /\ loadOk
      <3>1. \A p \in Pins : Driven(p)'
        BY <1>1, <1>3, <2>1, DriveEffect DEF ApplyIndicator, SwitchInv
      <3>2. SwitchTypeOK'
        BY <1>1, <1>3, <2>1, DriveEffect DEF ApplyIndicator, SwitchInv, SwitchTypeOK
      <3>3. step' \in {"save", "idle"} /\ (step' = "save" => verb = "set")
        BY <1>3, <2>1 DEF ApplyIndicator
      <3> QED BY <1>3, <3>1, <3>2, <3>3 DEF ApplyIndicator, SwitchInv
    <2>2. CASE step' = "idle" /\ status' = "io_error"
      <3>1. SwitchTypeOK'
        BY <1>1, <1>3, <2>2, DriveEffect DEF ApplyIndicator, SwitchInv, SwitchTypeOK
      <3> QED BY <1>3, <2>2, <3>1 DEF ApplyIndicator, SwitchInv
    <2> QED BY <1>3, <2>1, <2>2 DEF ApplyIndicator
  <1>4. CASE Save
    <2>1. \A p \in Pins : Driven(p)'
      BY <1>4 DEF Save, SwitchInv, Driven, Physical, PhysicalHigh
    <2>2. defaulted' \in BOOLEAN
      BY <1>4, Zenon DEF Save, SwitchInv, SwitchTypeOK
    <2> QED BY <1>4, <2>1, <2>2 DEF Save, SwitchInv, SwitchTypeOK, States
  <1> QED BY <1>2, <1>3, <1>4

\* After any failure of a pin or of the store and any loss of power, a call
\* that returned ok means what it says.
THEOREM OkIsDurableHolds == SwitchSpec => []OkIsDurable
  <1>1. SwitchInit => SwitchInv
    <2>1. SwitchInit => loadOk \in BOOLEAN /\ defaulted \in BOOLEAN
      BY Zenon DEF SwitchInit
    <2> QED BY <2>1 DEF SwitchInit, SwitchInv, SwitchTypeOK, States, Unpowered
  <1>2. SwitchInv /\ [SwitchNext]_switchVars => SwitchInv'
    <2> SUFFICES ASSUME SwitchInv, [SwitchNext]_switchVars PROVE SwitchInv'
      OBVIOUS
    <2>1. CASE UNCHANGED switchVars
      BY <2>1 DEF switchVars, SwitchInv, SwitchTypeOK, Driven, Physical, PhysicalHigh
    <2>2. Opposite(on) \in States
      BY DEF Opposite, States
    <2> QED BY <2>1, <2>2, SwitchCallStep, SwitchPortStep DEF SwitchNext, Toggle
  <1>3. SwitchInv => OkIsDurable
    BY DEF SwitchInv, OkIsDurable, Driven
  <1> QED BY <1>1, <1>2, <1>3, PTL DEF SwitchSpec

-----------------------------------------------------------------------------
\* PinInterrupt, for a driver whose gpio_intr_disable() does not fail.

Attaching == {"install", "edge", "add", "mask"}
Detaching == {"unhook", "remove"}

\* The inductive invariant: which call may be in progress with or without a
\* handler, that the handler of an attached owner is its own, and that the pin
\* is masked at every other point.
PinInv ==
  /\ call \in {"none"} \cup Attaching \cup Detaching
  /\ attached \in BOOLEAN /\ unmasked \in BOOLEAN /\ dying \in BOOLEAN
  /\ live \in BOOLEAN /\ wanted \in BOOLEAN
  /\ call \in Attaching => ~attached /\ ~dying /\ live /\ owner # NoContext
  /\ call \in Detaching => attached
  /\ attached => live /\ owner # NoContext /\ handler = owner
  /\ call = "mask" => handler = owner
  /\ dying => call \in Detaching
  /\ unmasked => \/ call = "mask"
                 \/ attached /\ call \in {"none", "unhook"} /\ wanted

\* How a call ends.
LEMMA ReturnEffect ==
  ASSUME NEW isAttached \in BOOLEAN, Return(isAttached)
  PROVE  /\ call' = "none" /\ ~dying' /\ dying' \in BOOLEAN
         /\ attached' \in BOOLEAN /\ live' \in BOOLEAN
         /\ attached' <=> (isAttached /\ ~dying)
         /\ live' <=> attached'
         /\ owner' = IF dying THEN NoContext ELSE owner
  <1>1. call' = "none" /\ ~dying' /\ dying' \in BOOLEAN
    BY Zenon DEF Return
  <1>2. attached' \in BOOLEAN /\ live' \in BOOLEAN
    BY Zenon DEF Return
  <1>3. (attached' <=> (isAttached /\ ~dying)) /\ (live' <=> attached')
    BY Zenon DEF Return
  <1> QED BY <1>1, <1>2, <1>3 DEF Return

\* Every step of the owner and of the driver preserves the invariant.
LEMMA PinStep == ASSUME ~MaskFails, PinInv, [PinNext]_pinVars PROVE PinInv'
  <1> USE DEF PinInv, Attaching, Detaching
  <1>1. ASSUME NEW context \in Contexts, New(context) PROVE PinInv'
    BY <1>1, InterruptAssumption DEF New
  <1>2. CASE Attach
    BY <1>2, Zenon DEF Attach
  <1>3. CASE Prepare
    <2>1. CASE Return(FALSE)
      BY <1>3, <2>1, ReturnEffect DEF Prepare
    <2>2. CASE UNCHANGED <<attached, owner, dying, live>>
      BY <1>3, <2>2 DEF Prepare, Return
    <2> QED BY <1>3, <2>1, <2>2 DEF Prepare
  <1>4. CASE AddHandler
    <2>1. CASE Return(FALSE) /\ UNCHANGED <<handler, unmasked>>
      BY <1>4, <2>1, ReturnEffect DEF AddHandler
    <2>2. CASE /\ handler' = owner /\ unmasked' = TRUE /\ call' = "mask"
               /\ UNCHANGED <<attached, owner, dying, live>>
      <3>1. unmasked' \in BOOLEAN
        BY <2>2, Zenon
      <3> QED BY <1>4, <2>2, <3>1 DEF AddHandler
    <2> QED BY <1>4, <2>1, <2>2 DEF AddHandler
  <1>5. CASE MaskAttached
    <2>1. ~unmasked' /\ unmasked' \in BOOLEAN /\ Return(TRUE)
      BY <1>5, Zenon DEF MaskAttached
    <2> QED BY <1>5, <2>1, ReturnEffect DEF MaskAttached
  <1>6. ASSUME NEW destroy \in BOOLEAN, Detach(destroy) PROVE PinInv'
    BY <1>6 DEF Detach
  <1>7. CASE Unhook
    BY <1>7 DEF Unhook
  <1>8. CASE RemoveHandler
    <2>1. CASE handler' = NoContext /\ Return(FALSE)
      BY <1>8, <2>1, ReturnEffect DEF RemoveHandler
    <2>2. CASE Return(TRUE) /\ UNCHANGED handler
      BY <1>8, <2>2, ReturnEffect DEF RemoveHandler
    <2> QED BY <1>8, <2>1, <2>2 DEF RemoveHandler
  <1>9. CASE Destroy
    BY <1>9 DEF Destroy
  <1>10. CASE Enable
    BY <1>10 DEF Enable
  <1>11. CASE Disable
    BY <1>11 DEF Disable
  <1>12. CASE UNCHANGED pinVars
    BY <1>12 DEF pinVars
  <1> QED BY <1>1, <1>2, <1>3, <1>4, <1>5, <1>6, <1>7, <1>8, <1>9, <1>10, <1>11, <1>12
      DEF PinNext

\* An interrupt reaches only an owner that exists and waits for it.
THEOREM InterruptHasAnOwnerHolds ==
  ASSUME ~MaskFails PROVE PinSpec => []InterruptHasAnOwner
  <1>1. PinInit => PinInv
    BY Zenon DEF PinInit, PinInv, Attaching, Detaching
  <1>2. PinInv => InterruptHasAnOwner
    BY DEF PinInv, InterruptHasAnOwner, Attaching, Detaching
  <1> QED BY <1>1, <1>2, PinStep, PTL DEF PinSpec

-----------------------------------------------------------------------------
\* SecurityPolicy.

Grants == [command : Commands, role : Roles]

\* The inductive invariant: the table has one slot for each command that was
\* accepted, with its present role, and no other.
GrantsInv ==
  /\ grants \in Seq(Grants)
  /\ required \in [Commands -> Roles \cup {NoRole}]
  /\ \A i, j \in 1 .. Len(grants) : grants[i].command = grants[j].command => i = j
  /\ \A i \in 1 .. Len(grants) : required[grants[i].command] = grants[i].role
  /\ \A c \in Commands : required[c] # NoRole =>
       \E i \in 1 .. Len(grants) : grants[i].command = c

\* The inductive invariant of the credentials and of the verdict.
CredentialInv ==
  /\ credential \in {"staged", "active"} => staged
  /\ verdict = "ok" => verified = "ok"

\* A sequence whose commands are distinct has at most one slot for a command,
\* and the search finds it.
LEMMA SlotIsFound ==
  ASSUME NEW c, Len(grants) \in Nat,
         \A i, j \in 1 .. Len(grants) : grants[i].command = grants[j].command => i = j
  PROVE  /\ \A i \in 1 .. Len(grants) : grants[i].command = c => SlotOf(c) = i
         /\ (\A i \in 1 .. Len(grants) : grants[i].command # c) => SlotOf(c) = 0
  <1> DEFINE I == {i \in 1 .. Len(grants) : grants[i].command = c}
  <1>1. SlotOf(c) = IF I # {} THEN Min(I) ELSE 0
    BY DEF SlotOf, SelectInSeq
  <1>2. ASSUME NEW i \in 1 .. Len(grants), grants[i].command = c PROVE SlotOf(c) = i
    <2>1. I = {i}
      BY <1>2
    <2>2. Min({i}) = i
      BY DEF Min
    <2> QED BY <1>1, <2>1, <2>2
  <1>3. ASSUME \A i \in 1 .. Len(grants) : grants[i].command # c PROVE SlotOf(c) = 0
    <2>1. I = {}
      BY <1>3
    <2> QED BY <1>1, <2>1
  <1> QED BY <1>2, <1>3

\* register_command() preserves the invariant of the table.
LEMMA RegisterStep ==
  ASSUME GrantsInv, NEW c \in Commands, NEW r \in Roles, RegisterCommand(c, r)
  PROVE  GrantsInv'
  <1> DEFINE n == Len(grants)
             e == [command |-> c, role |-> r]
  <1>1. /\ n \in Nat /\ grants \in Seq(Grants) /\ e \in Grants
        /\ r # NoRole
        /\ \A i \in 1 .. n : grants[i] \in Grants
        /\ \A i, j \in 1 .. n : grants[i].command = grants[j].command => i = j
    <2>1. grants \in Seq(Grants)
      BY DEF GrantsInv
    <2>2. n \in Nat /\ \A i \in 1 .. n : grants[i] \in Grants
      BY <2>1, LenProperties, ElementOfSeq
    <2>3. e \in Grants
      BY DEF Grants
    <2>4. r # NoRole
      BY DEF Roles, NoRole
    <2> QED BY <2>1, <2>2, <2>3, <2>4 DEF GrantsInv
  <1>2. required' = [required EXCEPT ![c] = r]
    BY DEF RegisterCommand
  <1>3. /\ required' \in [Commands -> Roles \cup {NoRole}] /\ required'[c] = r
        /\ \A x \in Commands : x # c => required'[x] = required[x]
    BY <1>2 DEF GrantsInv
  <1>4. CASE \E k \in 1 .. n : grants[k].command = c
    <2>1. PICK k \in 1 .. n : grants[k].command = c
      BY <1>4
    <2>2. SlotOf(c) = k /\ k # 0
      <3>1. SlotOf(c) = k
        BY <1>1, <2>1, SlotIsFound
      <3>2. k # 0
        OBVIOUS
      <3> QED BY <3>1, <3>2
    <2>3. grants' = [grants EXCEPT ![k] = [grants[k] EXCEPT !.role = r]]
      BY <2>2 DEF RegisterCommand
    <2>4. [grants[k] EXCEPT !.role = r] = e
      <3>1. grants[k] \in Grants
        BY <1>1
      <3> QED BY <2>1, <3>1 DEF Grants
    <2>5. /\ grants' \in Seq(Grants) /\ Len(grants') = n
          /\ \A i \in 1 .. n : grants'[i] = IF i = k THEN e ELSE grants[i]
      BY <1>1, <2>3, <2>4, ExceptSeq
    <2>6. \A i \in 1 .. n : grants'[i].command = grants[i].command
      BY <2>1, <2>5
    <2>7. \A i \in 1 .. n : required'[grants'[i].command] = grants'[i].role
      <3> SUFFICES ASSUME NEW i \in 1 .. n
                   PROVE  required'[grants'[i].command] = grants'[i].role
        OBVIOUS
      <3>1. CASE i = k
        BY <1>3, <2>5, <3>1
      <3>2. CASE i # k
        <4>1. grants[i].command # c /\ grants[i].command \in Commands /\ grants'[i] = grants[i]
          BY <1>1, <2>1, <2>5, <3>2 DEF Grants
        <4> QED BY <1>3, <4>1 DEF GrantsInv
      <3> QED BY <3>1, <3>2
    <2>8. \A x \in Commands : required'[x] # NoRole => \E i \in 1 .. n : grants'[i].command = x
      BY <1>3, <2>1, <2>6 DEF GrantsInv
    <2> QED BY <1>1, <1>3, <2>5, <2>6, <2>7, <2>8 DEF GrantsInv
  <1>5. CASE \A k \in 1 .. n : grants[k].command # c
    <2>1. grants' = Append(grants, e)
      BY <1>1, <1>5, SlotIsFound DEF RegisterCommand
    <2>2. /\ grants' \in Seq(Grants) /\ Len(grants') = n + 1 /\ grants'[n + 1] = e
          /\ \A i \in 1 .. n : grants'[i] = grants[i]
      BY <1>1, <2>1, AppendProperties
    <2>3. \A i \in 1 .. n + 1 : i \in 1 .. n \/ i = n + 1
      BY <1>1
    <2>4. \A i \in 1 .. n : grants[i].command # c /\ grants[i].command \in Commands
      BY <1>1, <1>5 DEF Grants
    <2>5. \A i, j \in 1 .. n + 1 : grants'[i].command = grants'[j].command => i = j
      BY <1>1, <2>2, <2>3, <2>4
    <2>6. \A i \in 1 .. n + 1 : required'[grants'[i].command] = grants'[i].role
      BY <1>3, <2>2, <2>3, <2>4 DEF GrantsInv
    <2>7. \A x \in Commands : required'[x] # NoRole =>
            \E i \in 1 .. n + 1 : grants'[i].command = x
      <3> SUFFICES ASSUME NEW x \in Commands, required'[x] # NoRole
                   PROVE  \E i \in 1 .. n + 1 : grants'[i].command = x
        OBVIOUS
      <3>1. CASE x = c
        <4>1. n + 1 \in 1 .. n + 1 /\ grants'[n + 1].command = c
          BY <1>1, <2>2
        <4> QED BY <3>1, <4>1
      <3>2. CASE x # c
        <4>1. PICK i \in 1 .. n : grants[i].command = x
          BY <1>3, <3>2 DEF GrantsInv
        <4>2. i \in 1 .. n + 1 /\ grants'[i].command = x
          BY <1>1, <2>2, <4>1
        <4> QED BY <4>2
      <3> QED BY <3>1, <3>2
    <2> QED BY <1>3, <2>2, <2>5, <2>6, <2>7 DEF GrantsInv
  <1> QED BY <1>4, <1>5

\* Every other step leaves the table alone.
LEMMA GrantsStep == ASSUME GrantsInv, [PolicyNext]_policyVars PROVE GrantsInv'
  <1>1. CASE UNCHANGED <<grants, required>>
    BY <1>1 DEF GrantsInv
  <1> QED BY <1>1, RegisterStep
      DEF PolicyNext, StageCredentials, ActivateCredentials, BeginRotation,
          RevokeCredentials, Lifecycle, VerifyImage, policyVars

\* Every step preserves the invariant of the credentials and of the verdict.
LEMMA CredentialStep ==
  ASSUME CredentialInv, [PolicyNext]_policyVars PROVE CredentialInv'
  <1>1. ASSUME NEW c \in Commands, NEW r \in Roles, RegisterCommand(c, r)
        PROVE  CredentialInv'
    BY <1>1 DEF CredentialInv, RegisterCommand
  <1>2. CASE StageCredentials
    BY <1>2, Zenon DEF CredentialInv, StageCredentials, Lifecycle
  <1>3. CASE ActivateCredentials
    BY <1>3 DEF CredentialInv, ActivateCredentials, Lifecycle
  <1>4. CASE BeginRotation \/ RevokeCredentials
    BY <1>4 DEF CredentialInv, BeginRotation, RevokeCredentials, Lifecycle
  <1>5. ASSUME NEW s \in {"ok", "corrupt", "unsupported"}, VerifyImage(s)
        PROVE  CredentialInv'
    BY <1>5 DEF CredentialInv, VerifyImage
  <1>6. CASE UNCHANGED policyVars
    BY <1>6 DEF CredentialInv, policyVars
  <1> QED BY <1>1, <1>2, <1>3, <1>4, <1>5, <1>6 DEF PolicyNext

\* The invariants imply the property: the search finds the one slot of a
\* command, which holds the role that is required.
LEMMA GrantsAnswer == ASSUME GrantsInv, CredentialInv PROVE PolicyIsCurrent
  <1> SUFFICES ASSUME NEW c \in Commands, NEW r \in Roles
               PROVE  Authorize(c, r) = IF required[c] = NoRole THEN "not_found"
                                        ELSE IF r >= required[c] THEN "ok" ELSE "denied"
    BY DEF PolicyIsCurrent, CredentialInv
  <1>1. /\ Len(grants) \in Nat
        /\ \A i \in 1 .. Len(grants) : grants[i] \in Grants
        /\ \A i, j \in 1 .. Len(grants) : grants[i].command = grants[j].command => i = j
    BY LenProperties, ElementOfSeq DEF GrantsInv
  <1>2. Authorize(c, r) = IF SlotOf(c) = 0 THEN "not_found"
                          ELSE IF r >= grants[SlotOf(c)].role THEN "ok" ELSE "denied"
    BY DEF Authorize, SlotOf
  <1>3. CASE required[c] = NoRole
    <2>1. \A i \in 1 .. Len(grants) : grants[i].command # c
      BY <1>1, <1>3 DEF GrantsInv, Grants, Roles, NoRole
    <2>2. SlotOf(c) = 0
      BY <1>1, <2>1, SlotIsFound
    <2> QED BY <1>2, <1>3, <2>2
  <1>4. CASE required[c] # NoRole
    <2>1. PICK i \in 1 .. Len(grants) : grants[i].command = c
      BY <1>4 DEF GrantsInv
    <2>2. SlotOf(c) = i /\ i # 0 /\ required[c] = grants[i].role
      <3>1. SlotOf(c) = i
        BY <1>1, <2>1, SlotIsFound
      <3>2. i # 0
        OBVIOUS
      <3>3. required[c] = grants[i].role
        BY <2>1 DEF GrantsInv
      <3> QED BY <3>1, <3>2, <3>3
    <2> QED BY <1>2, <1>4, <2>2
  <1> QED BY <1>3, <1>4

\* What is allowed is what was registered last and accepted, credentials are
\* active only when they were staged, and only a verified image is accepted.
THEOREM PolicyIsCurrentHolds == PolicySpec => []PolicyIsCurrent
  <1>1. PolicyInit => GrantsInv /\ CredentialInv
    <2> SUFFICES ASSUME PolicyInit PROVE GrantsInv /\ CredentialInv
      OBVIOUS
    <2>1. grants \in Seq(Grants) /\ Len(grants) = 0
      BY EmptySeq DEF PolicyInit
    <2> QED BY <2>1 DEF PolicyInit, GrantsInv, CredentialInv
  <1> QED BY <1>1, GrantsStep, CredentialStep, GrantsAnswer, PTL DEF PolicySpec

-----------------------------------------------------------------------------
\* Diagnostics.

Saturated(n) == IF n > CounterMax THEN CounterMax ELSE n

\* The inductive invariant of the counters, and that of the history: place i of
\* it holds the fault as far from the end as it is in the history of all.
CounterInv ==
  /\ counters \in [Counters -> Nat] /\ total \in [Counters -> Nat]
  /\ \A i \in Counters : counters[i] = Saturated(total[i])

HistoryInv ==
  /\ faults \in Seq(Faults) /\ recorded \in Seq(Faults)
  /\ Len(faults) = IF Len(recorded) < FaultCapacity THEN Len(recorded) ELSE FaultCapacity
  /\ \A i \in 1 .. Len(faults) :
       faults[i] = recorded[Len(recorded) - Len(faults) + i]

\* Reversing a sequence.
LEMMA ReverseElements ==
  ASSUME NEW S, NEW s \in Seq(S)
  PROVE  /\ Reverse(s) \in Seq(S) /\ Len(Reverse(s)) = Len(s)
         /\ \A i \in 1 .. Len(s) : Reverse(s)[i] = s[(Len(s) - i) + 1]
  <1>1. Len(s) \in Nat /\ \A i \in 1 .. Len(s) : s[i] \in S
    BY LenProperties, ElementOfSeq
  <1>2. \A i \in 1 .. Len(s) : (Len(s) - i) + 1 \in 1 .. Len(s)
    BY <1>1
  <1>3. Reverse(s) \in [1 .. Len(s) -> S]
    BY <1>1, <1>2 DEF Reverse
  <1> QED BY <1>1, <1>3 DEF Reverse

\* What a suffix is, element by element.
LEMMA SuffixByElements ==
  ASSUME NEW S, NEW s \in Seq(S), NEW t \in Seq(S), Len(s) <= Len(t),
         \A i \in 1 .. Len(s) : s[i] = t[Len(t) - Len(s) + i]
  PROVE  IsSuffix(s, t)
  <1> DEFINE m == Len(s)
             n == Len(t)
  <1>1. m \in Nat /\ n \in Nat /\ m <= n
    BY LenProperties
  <1>2. /\ Reverse(s) \in Seq(S) /\ Len(Reverse(s)) = m
        /\ \A i \in 1 .. m : Reverse(s)[i] = s[(m - i) + 1]
        /\ Reverse(t) \in Seq(S) /\ Len(Reverse(t)) = n
        /\ \A i \in 1 .. n : Reverse(t)[i] = t[(n - i) + 1]
    BY ReverseElements
  <1>3. ASSUME NEW i \in 1 .. m PROVE Reverse(s)[i] = Reverse(t)[i] /\ i \in 1 .. n
    <2>1. (m - i) + 1 \in 1 .. m /\ n - m + ((m - i) + 1) = (n - i) + 1 /\ i \in 1 .. n
      BY <1>1
    <2>2. s[(m - i) + 1] = t[n - m + ((m - i) + 1)]
      BY <2>1
    <2> QED BY <1>2, <2>1, <2>2
  <1>4. /\ SubSeq(Reverse(s), 1, m) \in Seq(S) /\ Len(SubSeq(Reverse(s), 1, m)) = m
        /\ \A i \in 1 .. m : SubSeq(Reverse(s), 1, m)[i] = Reverse(s)[i]
    <2>1. \A i \in 1 .. m : Reverse(s)[i] \in S
      BY <1>2, ElementOfSeq
    <2> QED BY <1>1, <2>1, SubSeqProperties
  <1>5. /\ SubSeq(Reverse(t), 1, m) \in Seq(S) /\ Len(SubSeq(Reverse(t), 1, m)) = m
        /\ \A i \in 1 .. m : SubSeq(Reverse(t), 1, m)[i] = Reverse(t)[i]
    <2>1. \A i \in 1 .. m : Reverse(t)[i] \in S
      BY <1>2, <1>3, ElementOfSeq
    <2> QED BY <1>1, <2>1, SubSeqProperties
  <1>6. SubSeq(Reverse(s), 1, m) = SubSeq(Reverse(t), 1, m)
    BY <1>3, <1>4, <1>5, SeqEqual
  <1> QED BY <1>1, <1>2, <1>6 DEF IsSuffix, IsPrefix

\* increment() keeps every counter at its saturated sum.
LEMMA IncrementStep ==
  ASSUME CounterInv, NEW id \in Counters, NEW amount \in Amounts, Increment(id, amount)
  PROVE  CounterInv'
  <1>1. CounterMax \in Nat /\ amount \in Nat /\ amount <= CounterMax
    BY DiagnosticsAssumption
  <1> DEFINE t == total[id]
             u == IF t > CounterMax THEN t ELSE t + amount
  <1>2. t \in Nat /\ u \in Nat /\ counters[id] = Saturated(t)
    BY <1>1 DEF CounterInv
  <1>3. Sum(Saturated(t), amount) = Saturated(u)
    BY <1>1, <1>2 DEF Sum, Saturated
  <1>4. Saturated(u) \in Nat
    BY <1>1, <1>2 DEF Saturated
  <1>5. /\ counters' = [counters EXCEPT ![id] = Saturated(u)]
        /\ total' = [total EXCEPT ![id] = u]
    BY <1>2, <1>3 DEF Increment
  <1> HIDE DEF u, t
  <1> QED BY <1>2, <1>4, <1>5 DEF CounterInv

\* record_fault() keeps the newest faults.
LEMMA RecordStep ==
  ASSUME HistoryInv, NEW f \in Faults, RecordFault(f) PROVE HistoryInv'
  <1> DEFINE m == Len(faults)
             n == Len(recorded)
  <1>1. /\ FaultCapacity \in Nat \ {0} /\ m \in Nat /\ n \in Nat
        /\ faults \in Seq(Faults) /\ recorded \in Seq(Faults)
        /\ m = IF n < FaultCapacity THEN n ELSE FaultCapacity
    BY DiagnosticsAssumption, LenProperties DEF HistoryInv
  <1>2. /\ recorded' \in Seq(Faults) /\ Len(recorded') = n + 1 /\ recorded'[n + 1] = f
        /\ \A i \in 1 .. n : recorded'[i] = recorded[i]
    BY <1>1, AppendProperties DEF RecordFault
  <1>3. CASE m = FaultCapacity
    <2>1. faults # <<>>
      BY <1>1, <1>3, EmptySeq
    <2>2. /\ Tail(faults) \in Seq(Faults) /\ Len(Tail(faults)) = m - 1
          /\ \A i \in 1 .. m - 1 : Tail(faults)[i] = faults[i + 1]
      BY <1>1, <2>1, HeadTailProperties
    <2>3. faults' = Append(Tail(faults), f)
      BY <1>3 DEF RecordFault
    <2>4. /\ faults' \in Seq(Faults) /\ Len(faults') = m /\ faults'[m] = f
          /\ \A i \in 1 .. m - 1 : faults'[i] = faults[i + 1]
      BY <1>1, <2>2, <2>3, AppendProperties
    <2>5. ASSUME NEW i \in 1 .. m PROVE faults'[i] = recorded'[n + 1 - m + i]
      <3>1. CASE i = m
        <4>1. n + 1 - m + i = n + 1
          BY <1>1, <3>1
        <4> QED BY <1>2, <2>4, <3>1, <4>1
      <3>2. CASE i # m
        <4>1. /\ i \in 1 .. m - 1 /\ i + 1 \in 1 .. m
              /\ n + 1 - m + i = n - m + (i + 1) /\ n + 1 - m + i \in 1 .. n
          BY <1>1, <3>2
        <4>2. faults'[i] = faults[i + 1] /\ faults[i + 1] = recorded[n - m + (i + 1)]
          BY <2>4, <4>1 DEF HistoryInv
        <4>3. recorded'[n + 1 - m + i] = recorded[n - m + (i + 1)]
          BY <1>2, <4>1
        <4> QED BY <4>2, <4>3
      <3> QED BY <3>1, <3>2
    <2>6. m = IF n + 1 < FaultCapacity THEN n + 1 ELSE FaultCapacity
      BY <1>1, <1>3
    <2>7. \A i \in 1 .. Len(faults') :
            faults'[i] = recorded'[Len(recorded') - Len(faults') + i]
      BY <1>2, <2>4, <2>5
    <2>8. Len(faults') = IF Len(recorded') < FaultCapacity THEN Len(recorded')
                                                          ELSE FaultCapacity
      BY <1>2, <2>4, <2>6
    <2> QED BY <1>2, <2>4, <2>7, <2>8 DEF HistoryInv
  <1>4. CASE m # FaultCapacity
    <2>1. m = n /\ n < FaultCapacity
      BY <1>1, <1>4
    <2>2. faults' = Append(faults, f)
      BY <1>4 DEF RecordFault
    <2>3. /\ faults' \in Seq(Faults) /\ Len(faults') = n + 1 /\ faults'[n + 1] = f
          /\ \A i \in 1 .. n : faults'[i] = faults[i]
      BY <1>1, <2>1, <2>2, AppendProperties
    <2>4. ASSUME NEW i \in 1 .. n + 1
          PROVE  faults'[i] = recorded'[(n + 1) - (n + 1) + i]
      <3>1. (n + 1) - (n + 1) + i = i
        BY <1>1
      <3>2. CASE i = n + 1
        BY <1>2, <2>3, <3>1, <3>2
      <3>3. CASE i \in 1 .. n
        <4>1. n - n + i = i
          BY <1>1, <3>3
        <4>2. faults[i] = recorded[i]
          BY <2>1, <3>3, <4>1 DEF HistoryInv
        <4> QED BY <1>2, <2>3, <3>1, <3>3, <4>2
      <3> QED BY <1>1, <3>2, <3>3
    <2>5. n + 1 = IF n + 1 < FaultCapacity THEN n + 1 ELSE FaultCapacity
      BY <1>1, <2>1
    <2> QED BY <1>2, <2>3, <2>4, <2>5 DEF HistoryInv
  <1> QED BY <1>3, <1>4

\* The invariants imply the property.
LEMMA HistoryIsSuffix == ASSUME CounterInv, HistoryInv PROVE DiagnosticsAreTrue
  <1>1. /\ FaultCapacity \in Nat \ {0} /\ Len(faults) \in Nat /\ Len(recorded) \in Nat
        /\ faults \in Seq(Faults) /\ recorded \in Seq(Faults)
    BY DiagnosticsAssumption, LenProperties DEF HistoryInv
  <1>2. Len(faults) <= Len(recorded)
    BY <1>1 DEF HistoryInv
  <1>3. IsSuffix(faults, recorded)
    BY <1>1, <1>2, SuffixByElements DEF HistoryInv
  <1>4. ASSUME Len(faults) # FaultCapacity PROVE faults = recorded
    <2>1. Len(faults) = Len(recorded)
      BY <1>1, <1>4 DEF HistoryInv
    <2>2. \A i \in 1 .. Len(faults) : Len(recorded) - Len(faults) + i = i
      BY <1>1, <2>1
    <2>3. \A i \in 1 .. Len(faults) : faults[i] = recorded[i]
      BY <2>2 DEF HistoryInv
    <2> QED BY <1>1, <2>1, <2>3, SeqEqual
  <1> QED BY <1>3, <1>4 DEF CounterInv, Saturated, DiagnosticsAreTrue

\* A counter tells the true sum until it is full and then stays full, and the
\* history is the newest faults in order.
THEOREM DiagnosticsAreTrueHolds == DiagnosticsSpec => []DiagnosticsAreTrue
  <1>1. DiagnosticsInit => CounterInv /\ HistoryInv
    <2> SUFFICES ASSUME DiagnosticsInit PROVE CounterInv /\ HistoryInv
      OBVIOUS
    <2>1. faults \in Seq(Faults) /\ Len(faults) = 0 /\ recorded = faults
      BY EmptySeq DEF DiagnosticsInit
    <2>2. HistoryInv
      BY <2>1, DiagnosticsAssumption DEF HistoryInv
    <2> QED BY <2>2, DiagnosticsAssumption DEF DiagnosticsInit, CounterInv, Saturated
  <1>2. CounterInv /\ [DiagnosticsNext]_diagnosticsVars => CounterInv'
    BY IncrementStep
    DEF DiagnosticsNext, SetGauge, RecordFault, diagnosticsVars, CounterInv
  <1>3. HistoryInv /\ [DiagnosticsNext]_diagnosticsVars => HistoryInv'
    BY RecordStep DEF DiagnosticsNext, SetGauge, Increment, diagnosticsVars, HistoryInv
  <1> QED BY <1>1, <1>2, <1>3, HistoryIsSuffix, PTL DEF DiagnosticsSpec

-----------------------------------------------------------------------------
\* OfflineQueue: the ring buffer implements a bounded first-in first-out queue,
\* for any capacity and any messages.

\* The position of the i-th oldest message of a ring read from r.
Place(r, i) == (r + i - 1) % Capacity

\* The inductive invariant: the write index follows from the other two.
RingInv == TypeOK /\ writeIndex = Place(readIndex, count + 1)

\* Positions, without the remainder: at most one wrap is needed.
LEMMA AtValue ==
  ASSUME NEW r \in Indices, NEW i \in 1 .. Capacity + 1
  PROVE  /\ Place(r, i) \in Indices
         /\ Place(r, i) = IF r + i - 1 < Capacity THEN r + i - 1
                                               ELSE r + i - 1 - Capacity
  <1>1. Capacity \in Nat \ {0} /\ r \in Nat /\ i \in Nat
    BY QueueAssumption DEF Indices
  <1>2. CASE r + i - 1 < Capacity
    <2>1. (r + i - 1) % Capacity = r + i - 1
      BY <1>1, <1>2
    <2> QED BY <1>1, <1>2, <2>1 DEF Place, Indices
  <1>3. CASE ~(r + i - 1 < Capacity)
    <2>1. r + i - 1 \in Capacity .. (2 * Capacity - 1)
      BY <1>1, <1>3 DEF Indices
    <2>2. (r + i - 1) % Capacity = r + i - 1 - Capacity
      BY <1>1, <2>1
    <2> QED BY <1>1, <1>3, <2>1, <2>2 DEF Place, Indices
  <1> QED BY <1>2, <1>3

\* Advancing the read index shifts every position by one.
LEMMA AtSucc ==
  ASSUME NEW r \in Indices, NEW i \in 1 .. Capacity
  PROVE  Succ(r) \in Indices /\ Place(Succ(r), i) = Place(r, i + 1)
  <1>1. Capacity \in Nat \ {0} /\ r \in Nat /\ i \in Nat
    BY QueueAssumption DEF Indices
  <1>2. Succ(r) = Place(r, 2)
    BY <1>1 DEF Succ, Place
  <1>3. 2 \in 1 .. Capacity + 1 /\ i + 1 \in 1 .. Capacity + 1 /\ i \in 1 .. Capacity + 1
    BY <1>1
  <1>4. Succ(r) \in Indices
    BY <1>2, <1>3, AtValue
  <1>5. Succ(r) = IF r + 1 < Capacity THEN r + 1 ELSE r + 1 - Capacity
    BY <1>1, <1>2, <1>3, AtValue
  <1>6. Place(Succ(r), i) = IF Succ(r) + i - 1 < Capacity THEN Succ(r) + i - 1
                                                      ELSE Succ(r) + i - 1 - Capacity
    BY <1>3, <1>4, AtValue
  <1>7. Place(r, i + 1) = IF r + i < Capacity THEN r + i ELSE r + i - Capacity
    BY <1>1, <1>3, AtValue
  <1> QED BY <1>1, <1>4, <1>5, <1>6, <1>7 DEF Indices

\* Two different places of the queue are two different entries.
LEMMA AtInjective ==
  ASSUME NEW r \in Indices, NEW i \in 1 .. Capacity, NEW j \in 1 .. Capacity, i # j
  PROVE  Place(r, i) # Place(r, j)
  <1>1. Capacity \in Nat \ {0} /\ r \in 0 .. Capacity - 1
    BY QueueAssumption DEF Indices
  <1>2. i \in 1 .. Capacity + 1 /\ j \in 1 .. Capacity + 1
    BY <1>1
  <1> QED BY <1>1, <1>2, AtValue

\* A full turn comes back to the same entry.
LEMMA AtFull == ASSUME NEW r \in Indices PROVE Place(r, Capacity + 1) = r /\ Place(r, 1) = r
  <1>1. Capacity \in Nat \ {0} /\ r \in 0 .. Capacity - 1
    BY QueueAssumption DEF Indices
  <1>2. 1 \in 1 .. Capacity + 1 /\ Capacity + 1 \in 1 .. Capacity + 1
    BY <1>1
  <1> QED BY <1>1, <1>2, AtValue

\* The contents of the ring are a sequence of count messages.
LEMMA ContentsSeq ==
  ASSUME TypeOK
  PROVE  /\ Contents \in Seq(Messages \cup {Blank})
         /\ Len(Contents) = count
         /\ \A i \in 1 .. count : Contents[i] = entries[Place(readIndex, i)]
  <1>1. count \in Nat /\ Capacity \in Nat \ {0} /\ 1 .. count \subseteq 1 .. Capacity + 1
    BY QueueAssumption DEF TypeOK
  <1>2. \A i \in 1 .. count : entries[Place(readIndex, i)] \in Messages \cup {Blank}
    BY <1>1, AtValue DEF TypeOK
  <1>3. Contents = [i \in 1 .. count |-> entries[Place(readIndex, i)]]
    BY DEF Contents, Place
  <1>4. Contents \in [1 .. count -> Messages \cup {Blank}]
    BY <1>2, <1>3
  <1> QED BY <1>1, <1>3, <1>4

\* The ring keeps its invariant.
LEMMA RingStep == RingInv /\ [Next]_vars => RingInv'
  <1> SUFFICES ASSUME RingInv, [Next]_vars PROVE RingInv'
    OBVIOUS
  <1>1. Capacity \in Nat \ {0} /\ count \in 0 .. Capacity /\ MaxDropped \in Nat
    BY QueueAssumption DEF RingInv, TypeOK
  <1>2. readIndex \in Indices /\ writeIndex \in Indices
    BY DEF RingInv, TypeOK
  <1>3. \A i \in Indices : Succ(i) = Place(i, 2) /\ Succ(i) \in Indices
    <2>1. 1 \in 1 .. Capacity
      BY <1>1
    <2>2. \A i \in Indices : Succ(i) = Place(i, 2)
      BY <1>1 DEF Succ, Place, Indices
    <2> QED BY <2>1, <2>2, AtSucc
  <1>4. ASSUME NEW m \in Messages, Push(m), UNCHANGED dropped PROVE RingInv'
    <2>1. count' = count + 1 /\ count' \in 0 .. Capacity /\ readIndex' = readIndex
      BY <1>1, <1>4 DEF Push, Full
    <2>2. TypeOK'
      BY <1>2, <1>3, <1>4, <2>1 DEF RingInv, TypeOK, Push
    <2>3. Succ(Place(readIndex, count + 1)) = Place(readIndex, count + 2)
      <3>1. count + 1 \in 1 .. Capacity + 1 /\ count + 2 \in 1 .. Capacity + 1
            /\ 2 \in 1 .. Capacity + 1
        BY <1>1, <2>1
      <3>2. Place(readIndex, count + 1) \in Indices
        BY <1>2, <3>1, AtValue
      <3> DEFINE w == Place(readIndex, count + 1)
      <3>3. w = IF readIndex + count < Capacity THEN readIndex + count
                                               ELSE readIndex + count - Capacity
        BY <1>1, <1>2, <3>1, AtValue DEF Indices
      <3>4. Place(readIndex, count + 2) =
              IF readIndex + count + 1 < Capacity THEN readIndex + count + 1
                                                  ELSE readIndex + count + 1 - Capacity
        BY <1>1, <1>2, <3>1, AtValue DEF Indices
      <3>5. Place(w, 2) = IF w + 1 < Capacity THEN w + 1 ELSE w + 1 - Capacity
        <4> HIDE DEF w
        <4> QED BY <1>1, <3>1, <3>2, AtValue DEF Indices, w
      <3>6. Succ(w) = Place(w, 2)
        BY <1>3, <3>2
      <3> HIDE DEF w
      <3>7. Succ(w) = Place(readIndex, count + 2)
        BY <1>1, <1>2, <2>1, <3>3, <3>4, <3>5, <3>6 DEF Indices
      <3> QED BY <3>7 DEF w
    <2> QED BY <1>1, <1>4, <2>1, <2>2, <2>3 DEF RingInv, Push
  <1>5. ASSUME NEW m \in Messages, DropThenPush(m), dropped' = dropped + 1,
               dropped < MaxDropped
        PROVE  RingInv'
    <2>1. count = Capacity /\ count' = count
      BY <1>5 DEF DropThenPush, Full
    <2>2. writeIndex = readIndex
      BY <1>2, <2>1, AtFull DEF RingInv
    <2>3. TypeOK'
      BY <1>1, <1>2, <1>3, <1>5, <2>1 DEF RingInv, TypeOK, DropThenPush
    <2>4. writeIndex' = readIndex' /\ readIndex' \in Indices
      BY <1>2, <1>3, <1>5, <2>2 DEF DropThenPush
    <2>5. writeIndex' = Place(readIndex', count' + 1)
      BY <2>1, <2>4, AtFull
    <2> QED BY <2>3, <2>5 DEF RingInv
  <1>6. CASE CommitFront
    <2>1. CASE count = 0
      BY <1>6, <2>1 DEF CommitFront, DropOldest, RingInv, TypeOK
    <2>2. CASE count # 0
      <3>1. count' = count - 1 /\ count' \in 0 .. Capacity /\ count \in 1 .. Capacity
            /\ readIndex' = Succ(readIndex) /\ UNCHANGED <<entries, writeIndex, dropped>>
        BY <1>1, <1>6, <2>2 DEF CommitFront, DropOldest
      <3>2. TypeOK'
        BY <1>2, <1>3, <3>1 DEF RingInv, TypeOK
      <3>3. Place(readIndex', count) = Place(readIndex, count + 1)
        BY <1>2, <3>1, AtSucc
      <3>4. count' + 1 = count
        BY <1>1, <3>1
      <3> QED BY <3>1, <3>2, <3>3, <3>4 DEF RingInv
    <2> QED BY <2>1, <2>2
  <1>7. CASE UNCHANGED vars
    BY <1>7 DEF vars, RingInv, TypeOK
  <1> QED BY <1>4, <1>5, <1>6, <1>7 DEF Next, Enqueue

\* try_push appends to the contents.
LEMMA PushAppends ==
  ASSUME RingInv, RingInv', NEW m \in Messages, Push(m)
  PROVE  Contents' = Append(Contents, m) /\ Len(Contents) < Capacity
  <1>1. Capacity \in Nat \ {0} /\ count \in 0 .. Capacity - 1 /\ readIndex \in Indices
    BY QueueAssumption DEF RingInv, TypeOK, Push, Full
  <1>2. count' = count + 1 /\ readIndex' = readIndex
    BY DEF Push
  <1>3. \A i \in 1 .. count : entries'[Place(readIndex, i)] = entries[Place(readIndex, i)]
    <2>1. ASSUME NEW i \in 1 .. count
          PROVE  Place(readIndex, i) \in Indices /\ Place(readIndex, i) # writeIndex
      <3>1. i \in 1 .. Capacity /\ count + 1 \in 1 .. Capacity /\ i # count + 1
            /\ i \in 1 .. Capacity + 1
        BY <1>1, <2>1
      <3> QED BY <1>1, <3>1, AtInjective, AtValue DEF RingInv
    <2> QED BY <2>1 DEF Push, RingInv, TypeOK
  <1>4. entries'[Place(readIndex, count + 1)] = m
    BY DEF Push, RingInv, TypeOK
  <1> DEFINE S == Messages \cup {Blank}
  <1>5. Contents \in Seq(S) /\ Len(Contents) = count
        /\ \A i \in 1 .. count : Contents[i] = entries[Place(readIndex, i)]
    BY ContentsSeq DEF RingInv
  <1>6. Contents' = [i \in 1 .. count + 1 |-> entries'[Place(readIndex, i)]]
    BY <1>2 DEF Contents, Place
  <1>7. Append(Contents, m) \in Seq(S) /\ Len(Append(Contents, m)) = count + 1
        /\ \A i \in 1 .. count : Append(Contents, m)[i] = Contents[i]
        /\ Append(Contents, m)[count + 1] = m
    BY <1>1, <1>5, AppendProperties
  <1>8. Append(Contents, m) = [i \in 1 .. count + 1 |-> Append(Contents, m)[i]]
    BY <1>1, <1>7, LenProperties
  <1>9. \A i \in 1 .. count + 1 : Append(Contents, m)[i] = entries'[Place(readIndex, i)]
    <2>1. \A i \in 1 .. count + 1 : i \in 1 .. count \/ i = count + 1
      BY <1>1
    <2> QED BY <1>3, <1>4, <1>5, <1>7, <2>1
  <1> QED BY <1>1, <1>5, <1>6, <1>8, <1>9

\* drop_oldest removes the first message.
LEMMA DropTail ==
  ASSUME RingInv, DropOldest, count # 0
  PROVE  Contents # <<>> /\ Contents' = Tail(Contents)
  <1>1. Capacity \in Nat \ {0} /\ count \in 1 .. Capacity /\ readIndex \in Indices
    BY QueueAssumption DEF RingInv, TypeOK
  <1>2. count' = count - 1 /\ readIndex' = Succ(readIndex) /\ entries' = entries
    BY DEF DropOldest
  <1> DEFINE S == Messages \cup {Blank}
  <1>3. Contents \in Seq(S) /\ Len(Contents) = count
        /\ \A i \in 1 .. count : Contents[i] = entries[Place(readIndex, i)]
    BY ContentsSeq DEF RingInv
  <1>4. Contents # <<>>
    BY <1>1, <1>3
  <1>5. Tail(Contents) \in Seq(S) /\ Len(Tail(Contents)) = count - 1
        /\ \A i \in 1 .. count - 1 : Tail(Contents)[i] = Contents[i + 1]
    BY <1>3, <1>4, HeadTailProperties
  <1>6. Contents' = [i \in 1 .. count - 1 |-> entries[Place(Succ(readIndex), i)]]
    BY <1>2 DEF Contents, Place
  <1>7. Tail(Contents) = [i \in 1 .. count - 1 |-> Tail(Contents)[i]]
    BY <1>1, <1>5, LenProperties
  <1>8. \A i \in 1 .. count - 1 : Tail(Contents)[i] = entries[Place(Succ(readIndex), i)]
    <2>1. ASSUME NEW i \in 1 .. count - 1
          PROVE  i \in 1 .. Capacity /\ i + 1 \in 1 .. count
      BY <1>1, <2>1
    <2> QED BY <1>1, <1>3, <1>5, <2>1, AtSucc
  <1> QED BY <1>4, <1>6, <1>7, <1>8

\* drop_oldest and try_push on a full ring: the first goes, the new one is last.
LEMMA DropPushShifts ==
  ASSUME RingInv, NEW m \in Messages, DropThenPush(m)
  PROVE  Len(Contents) = Capacity /\ Contents' = Append(Tail(Contents), m)
  <1>1. Capacity \in Nat \ {0} /\ count = Capacity /\ readIndex \in Indices
    BY QueueAssumption DEF RingInv, TypeOK, DropThenPush, Full
  <1>2. writeIndex = readIndex
    BY <1>1, AtFull DEF RingInv
  <1>3. count' = count /\ readIndex' = Succ(readIndex)
    BY DEF DropThenPush
  <1>4. \A i \in 1 .. Capacity - 1 :
          entries'[Place(Succ(readIndex), i)] = entries[Place(readIndex, i + 1)]
    <2>1. ASSUME NEW i \in 1 .. Capacity - 1
          PROVE  /\ Place(Succ(readIndex), i) = Place(readIndex, i + 1)
                 /\ Place(readIndex, i + 1) \in Indices
                 /\ Place(readIndex, i + 1) # writeIndex
      <3>1. i \in 1 .. Capacity /\ i + 1 \in 1 .. Capacity /\ 1 \in 1 .. Capacity
            /\ i + 1 \in 1 .. Capacity + 1 /\ i + 1 # 1
        BY <1>1, <2>1
      <3>2. Place(readIndex, 1) = writeIndex
        BY <1>1, <1>2, AtFull
      <3> QED BY <1>1, <3>1, <3>2, AtSucc, AtInjective, AtValue
    <2> QED BY <2>1 DEF DropThenPush, RingInv, TypeOK
  <1>5. entries'[Place(Succ(readIndex), Capacity)] = m
    <2>1. Capacity \in 1 .. Capacity
      BY <1>1
    <2>2. Place(Succ(readIndex), Capacity) = readIndex
      BY <1>1, <2>1, AtSucc, AtFull
    <2> QED BY <1>1, <1>2, <2>2 DEF DropThenPush, RingInv, TypeOK
  <1> DEFINE S == Messages \cup {Blank}
             t == Tail(Contents)
  <1>6. Contents \in Seq(S) /\ Len(Contents) = Capacity
        /\ \A i \in 1 .. Capacity : Contents[i] = entries[Place(readIndex, i)]
    BY <1>1, ContentsSeq DEF RingInv
  <1>7. t \in Seq(S) /\ Len(t) = Capacity - 1
        /\ \A i \in 1 .. Capacity - 1 : t[i] = Contents[i + 1]
    <2>1. Contents # <<>>
      BY <1>1, <1>6
    <2> QED BY <1>6, <2>1, HeadTailProperties
  <1>8. Append(t, m) \in Seq(S) /\ Len(Append(t, m)) = Capacity
        /\ \A i \in 1 .. Capacity - 1 : Append(t, m)[i] = t[i]
        /\ Append(t, m)[Capacity] = m
    <2> HIDE DEF t
    <2>1. Len(t) + 1 = Capacity
      BY <1>1, <1>7
    <2> QED BY <1>7, <2>1, AppendProperties
  <1>9. Append(t, m) = [i \in 1 .. Capacity |-> Append(t, m)[i]]
    BY <1>8, LenProperties
  <1>10. \A i \in 1 .. Capacity : Append(t, m)[i] = entries'[Place(Succ(readIndex), i)]
    <2>1. \A i \in 1 .. Capacity - 1 : Append(t, m)[i] = entries[Place(readIndex, i + 1)]
      <3>1. \A i \in 1 .. Capacity - 1 : i + 1 \in 1 .. Capacity
        BY <1>1
      <3> QED BY <1>6, <1>7, <1>8, <3>1
    <2>2. \A i \in 1 .. Capacity : i \in 1 .. Capacity - 1 \/ i = Capacity
      BY <1>1
    <2> QED BY <1>4, <1>5, <1>8, <2>1, <2>2
  <1>11. Contents' = [i \in 1 .. Capacity |-> entries'[Place(Succ(readIndex), i)]]
    BY <1>1, <1>3 DEF Contents, Place
  <1> QED BY <1>6, <1>9, <1>10, <1>11

\* The indices and the count of the ring stay in range.
THEOREM QueueTypeCorrect == Spec => []TypeOK
  <1>1. Init => RingInv
    <2>1. 0 \in Indices /\ 0 \in 0 .. Capacity /\ 0 \in 0 .. MaxDropped
      BY QueueAssumption DEF Indices
    <2>2. Place(0, 0 + 1) = 0
      BY <2>1, AtFull
    <2> QED BY <2>1, <2>2 DEF Init, RingInv, TypeOK
  <1>2. RingInv => TypeOK
    BY DEF RingInv
  <1> QED BY <1>1, <1>2, RingStep, PTL DEF Spec

\* The ring buffer implements the bounded first-in first-out queue: messages
\* leave in the order they came, and only the oldest of a full queue is ever
\* dropped, and counted, at any capacity and however often the indices wrap.
THEOREM QueueImplementation == Spec => ImplementsFifo
  <1>1. Init => RingInv /\ Fifo!FifoInit
    <2>1. 0 \in Indices /\ 0 \in 0 .. Capacity /\ 0 \in 0 .. MaxDropped
      BY QueueAssumption DEF Indices
    <2>2. Place(0, 0 + 1) = 0
      BY <2>1, AtFull
    <2>3. Init => RingInv
      BY <2>1, <2>2 DEF Init, RingInv, TypeOK
    <2>4. Init => Contents = <<>>
      BY DEF Init, Contents
    <2> QED BY <2>3, <2>4 DEF Init, Fifo!FifoInit
  <1>2. ASSUME RingInv, RingInv', [Next]_vars
        PROVE  [Fifo!FifoNext]_(Fifo!fifoVars)
    <2>1. ASSUME NEW m \in Messages, Push(m), UNCHANGED dropped
          PROVE  Fifo!Enqueue(m, TRUE)
      BY <1>2, <2>1, PushAppends DEF Fifo!Enqueue
    <2>2. ASSUME NEW m \in Messages, DropThenPush(m), dropped' = dropped + 1
          PROVE  Fifo!Enqueue(m, TRUE)
      <3>1. Len(Contents) = Capacity /\ Contents' = Append(Tail(Contents), m)
        BY <1>2, <2>2, DropPushShifts
      <3>2. Len(Contents) >= Capacity
        BY <3>1, QueueAssumption
      <3> QED BY <2>2, <3>1, <3>2 DEF Fifo!Enqueue
    <2>3. ASSUME CommitFront PROVE Fifo!CommitFront
      <3>1. CASE count # 0
        BY <1>2, <2>3, <3>1, DropTail DEF CommitFront, Fifo!CommitFront
      <3>2. CASE count = 0
        <4>1. Contents = <<>> /\ Contents' = <<>>
          BY <2>3, <3>2 DEF CommitFront, DropOldest, Contents
        <4> QED BY <2>3, <4>1 DEF CommitFront, Fifo!CommitFront
      <3> QED BY <3>1, <3>2
    <2>4. CASE UNCHANGED vars
      BY <2>4 DEF vars, Fifo!fifoVars, Contents
    <2> QED BY <1>2, <2>1, <2>2, <2>3, <2>4 DEF Next, Enqueue, Fifo!FifoNext
  <1> QED BY <1>1, <1>2, RingStep, PTL DEF Spec, ImplementsFifo, Fifo!FifoSpec

-----------------------------------------------------------------------------
\* ByteStream.

\* The weights, one by one.
LEMMA Weights == Weight[1] = 1 /\ Weight[2] = 256 /\ Weight[3] = 65536 /\ Weight[4] = 16777216
  BY SMT DEF Weight

\* A number of one byte is that byte, and a number of two or of four bytes is
\* the sum of its bytes by weight.
LEMMA OneDigit ==
  ASSUME NEW v \in Nat, v \div Weight[1] < 256
  PROVE  v = ((v \div Weight[1]) % 256) * Weight[1]
  <1>1. v < 256
    BY Weights
  <1>2. v = ((v \div 1) % 256) * 1
    BY <1>1, SMT
  <1> QED BY <1>2, Weights, SMT

\* Of two bytes.
LEMMA TwoDigits ==
  ASSUME NEW v \in Nat, v \div Weight[2] < 256
  PROVE  v = ((v \div Weight[1]) % 256) * Weight[1] + ((v \div Weight[2]) % 256) * Weight[2]
  <1>1. v \div 256 < 256
    BY Weights
  <1>2. v = ((v \div 1) % 256) * 1 + ((v \div 256) % 256) * 256
    BY <1>1, SMT
  <1> QED BY <1>2, Weights, SMT

\* Of four bytes.
LEMMA FourDigits ==
  ASSUME NEW v \in Nat, v \div Weight[4] < 256
  PROVE  v = ((v \div Weight[1]) % 256) * Weight[1] + ((v \div Weight[2]) % 256) * Weight[2]
             + ((v \div Weight[3]) % 256) * Weight[3] + ((v \div Weight[4]) % 256) * Weight[4]
  <1>1. v \div 16777216 < 256
    BY Weights
  <1>2. v = ((v \div 1) % 256) * 1 + ((v \div 256) % 256) * 256
            + ((v \div 65536) % 256) * 65536 + ((v \div 16777216) % 256) * 16777216
    BY <1>1, SMT
  <1> QED BY <1>2, Weights, SMT

\* FromBytes() gives back the number that LittleEndian() took apart.
LEMMA RoundTrip ==
  ASSUME NEW w \in {1, 2, 4}, NEW v \in Nat, v \div Weight[w] < 256,
         NEW bs \in Seq(Int), Len(bs) = w,
         \A b \in 1 .. w : bs[b] = LittleEndian(v, w)[b]
  PROVE  FromBytes(bs) = v
  <1>1. \A b \in 1 .. w : bs[b] = (v \div Weight[b]) % 256
    BY SMT DEF LittleEndian
  <1>2. \A b \in 1 .. w : bs[b] \in Int
    BY SMT
  <1>w. Weight[1] \in Int /\ Weight[2] \in Int /\ Weight[3] \in Int /\ Weight[4] \in Int
    BY Weights, SMT
  <1> DEFINE d(i) == (v \div Weight[i]) % 256
  <1>d. \A b \in 1 .. w : bs[b] = d(b)
    BY <1>1
  <1>3. CASE w = 1
    <2>1. bs[1] = d(1)
      BY <1>3, <1>d
    <2>2. FromBytes(bs) = bs[1] * Weight[1]
      BY <1>2, <1>3, <1>w, SMT DEF FromBytes
    <2>3. v = d(1) * Weight[1]
      <3>1. v \div Weight[1] < 256
        BY <1>3
      <3> QED BY <3>1, OneDigit
    <2> HIDE DEF d
    <2> QED BY <2>1, <2>2, <2>3
  <1>4. CASE w = 2
    <2>1. bs[1] = d(1) /\ bs[2] = d(2)
      BY <1>4, <1>d
    <2>2. FromBytes(bs) = bs[1] * Weight[1] + bs[2] * Weight[2]
      BY <1>2, <1>4, <1>w, SMT DEF FromBytes
    <2>3. v = d(1) * Weight[1] + d(2) * Weight[2]
      <3>1. v \div Weight[2] < 256
        BY <1>4
      <3> QED BY <3>1, TwoDigits
    <2> HIDE DEF d
    <2> QED BY <2>1, <2>2, <2>3
  <1>5. CASE w = 4
    <2>1. bs[1] = d(1) /\ bs[2] = d(2) /\ bs[3] = d(3) /\ bs[4] = d(4)
      BY <1>5, <1>d
    <2>2. FromBytes(bs) = bs[1] * Weight[1] + bs[2] * Weight[2] + bs[3] * Weight[3]
                          + bs[4] * Weight[4]
      BY <1>2, <1>5, <1>w, SMT DEF FromBytes
    <2>3. v = d(1) * Weight[1] + d(2) * Weight[2] + d(3) * Weight[3] + d(4) * Weight[4]
      <3>1. v \div Weight[4] < 256
        BY <1>5
      <3> QED BY <3>1, FourDigits
    <2> HIDE DEF d
    <2> QED BY <2>1, <2>2, <2>3
  <1> QED BY <1>3, <1>4, <1>5

\* The bytes of a number.
LEMMA BytesOfNumber ==
  ASSUME NEW w \in {1, 2, 4}, NEW v \in Nat
  PROVE  /\ LittleEndian(v, w) \in Seq(Int)
         /\ Len(LittleEndian(v, w)) = w
  <1>1. \A i \in 1 .. 4 : Weight[i] \in Nat \ {0}
    BY Weights, SMT
  <1>2. \A i \in 1 .. w : i \in 1 .. 4
    BY SMT
  <1>3. \A i \in 1 .. w : (v \div Weight[i]) % 256 \in Int
    BY <1>1, <1>2, SMT
  <1>4. w \in Nat
    OBVIOUS
  <1> QED BY <1>3, <1>4, SMT DEF LittleEndian

\* What the bytes of a reader give.
LEMMA FromBytesInt == ASSUME NEW bs \in Seq(Int) PROVE FromBytes(bs) \in Int
  <1>1. Weight[1] \in Int /\ Weight[2] \in Int /\ Weight[3] \in Int /\ Weight[4] \in Int
    BY Weights, SMT
  <1>2. \A i \in 1 .. 4 : i <= Len(bs) => bs[i] \in Int
    BY SMT
  <1>3. \A a, b \in Int : a * b \in Int
    OBVIOUS
  <1> DEFINE part(i) == IF i <= Len(bs) THEN bs[i] * Weight[i] ELSE 0
  <1>4. part(1) \in Int /\ part(2) \in Int /\ part(3) \in Int /\ part(4) \in Int
    <2>1. 1 \in 1 .. 4 /\ 2 \in 1 .. 4 /\ 3 \in 1 .. 4 /\ 4 \in 1 .. 4 /\ 0 \in Int
      OBVIOUS
    <2> QED BY <1>1, <1>2, <1>3, <2>1, Zenon
  <1>5. FromBytes(bs) = part(1) + part(2) + part(3) + part(4)
    BY Zenon DEF FromBytes
  <1> HIDE DEF part
  <1> QED BY <1>4, <1>5

StreamTypeOK ==
  /\ bytes \in Seq(Int) /\ overflow \in BOOLEAN
  /\ layout \in Seq([width : {1, 2, 4}, value : Nat])
  /\ size \in Int /\ position \in Nat /\ numbers \in Seq(Int)

\* The writes lie in the buffer one after the other, the i-th one up to at[i],
\* and the reader is at the end of those it has read.
Marks(at) ==
  /\ at[0] = 0 /\ at[Len(layout)] = Len(bytes) /\ at[Len(numbers)] = position
  /\ \A i \in 1 .. Len(layout) :
       /\ at[i] = at[i - 1] + layout[i].width /\ at[i] <= Len(bytes)
       /\ \A b \in 1 .. layout[i].width :
            bytes[at[i - 1] + b] = LittleEndian(layout[i].value, layout[i].width)[b]

\* The inductive invariant.  The property itself says nothing of the bytes that
\* were not read yet; Marks says where every write went.
StreamInv ==
  /\ StreamTypeOK
  /\ Len(numbers) <= Len(layout) /\ size <= Len(bytes)
  /\ size < 0 => position = 0 /\ numbers = <<>>
  /\ \A i \in 1 .. Len(layout) : layout[i].value \div Weight[layout[i].width] < 256
  /\ ~overflow => /\ \E at \in [0 .. Len(layout) -> Nat] : Marks(at)
                  /\ \A i \in 1 .. Len(numbers) : numbers[i] = layout[i].value

\* Nothing is written yet.
LEMMA StreamStart == StreamInit => StreamInv
  <1> SUFFICES ASSUME StreamInit PROVE StreamInv
    OBVIOUS
  <1>1. StreamTypeOK /\ Len(layout) = 0 /\ Len(bytes) = 0 /\ Len(numbers) = 0
    <2>1. \A S : <<>> \in Seq(S) /\ Len(<<>>) = 0
      OBVIOUS
    <2>2. -1 \in Int /\ 0 \in Nat
      OBVIOUS
    <2> QED BY <2>1, <2>2, Zenon DEF StreamInit, StreamTypeOK
  <1>2. [i \in 0 .. 0 |-> 0] \in [0 .. Len(layout) -> Nat] /\ Marks([i \in 0 .. 0 |-> 0])
    BY <1>1 DEF StreamInit, Marks
  <1> QED BY <1>1, <1>2 DEF StreamInit, StreamInv

\* A write goes behind the others or sets overflow_.
LEMMA WriteStep ==
  ASSUME StreamInv, NEW w \in DOMAIN Numbers, NEW v \in Numbers[w], Write(w, v)
  PROVE  StreamInv'
  <1> DEFINE n == Len(layout)
             entry == [width |-> w, value |-> v]
             bs == LittleEndian(v, w)
  <1>1. w \in {1, 2, 4} /\ v \in Nat /\ v \div Weight[w] < 256
    BY StreamAssumption, Zenon
  <1>2. bs \in Seq(Int) /\ Len(bs) = w
    BY <1>1, BytesOfNumber
  <1>3. entry \in [width : {1, 2, 4}, value : Nat] /\ entry.width = w /\ entry.value = v
    BY <1>1
  <1> HIDE DEF bs, entry
  <1>4. /\ layout' = Append(layout, entry) /\ UNCHANGED <<size, position, numbers>> /\ size < 0
        /\ \/ overflow' = TRUE /\ UNCHANGED bytes
           \/ bytes' = bytes \o bs /\ UNCHANGED overflow
    BY DEF Write, WriteBytes, bs, entry
  <1>5. /\ layout' \in Seq([width : {1, 2, 4}, value : Nat]) /\ Len(layout') = n + 1 /\ n \in Nat
        /\ layout'[n + 1] = entry /\ \A i \in 1 .. n : layout'[i] = layout[i]
    BY <1>3, <1>4 DEF StreamInv, StreamTypeOK
  <1>6. /\ bytes' \in Seq(Int) /\ Len(bytes') >= Len(bytes) /\ overflow' \in BOOLEAN
        /\ ~overflow' => ~overflow /\ bytes' = bytes \o bs
    <2>1. bytes \in Seq(Int) /\ overflow \in BOOLEAN /\ Len(bytes) \in Nat
      BY DEF StreamInv, StreamTypeOK
    <2>2. bytes \o bs \in Seq(Int) /\ Len(bytes \o bs) = Len(bytes) + Len(bs)
      BY <1>2, <2>1, ConcatProperties
    <2>3. Len(bytes) <= Len(bytes) /\ Len(bytes) + w >= Len(bytes)
      BY <1>1, <2>1
    <2>4. CASE overflow' = TRUE /\ UNCHANGED bytes
      BY <2>1, <2>3, <2>4
    <2>5. CASE bytes' = bytes \o bs /\ UNCHANGED overflow
      BY <1>2, <2>1, <2>2, <2>3, <2>5
    <2> QED BY <1>4, <2>4, <2>5
  <1>7. StreamTypeOK'
    BY <1>4, <1>5, <1>6 DEF StreamInv, StreamTypeOK
  <1>8. /\ numbers = <<>> /\ position = 0 /\ size' = size
        /\ numbers' = <<>> /\ position' = 0 /\ Len(numbers') = 0
    BY <1>4 DEF StreamInv
  <1>9. (/\ Len(numbers) <= Len(layout) /\ size <= Len(bytes)
         /\ size < 0 => position = 0 /\ numbers = <<>>)'
    BY <1>4, <1>5, <1>6, <1>8 DEF StreamInv, StreamTypeOK
  <1>10. \A i \in 1 .. Len(layout') : layout'[i].value \div Weight[layout'[i].width] < 256
    <2> TAKE i \in 1 .. Len(layout')
    <2>1. CASE i = n + 1
      BY <1>1, <1>3, <1>5, <2>1, Zenon
    <2>2. CASE i \in 1 .. n
      BY <1>5, <2>2, Zenon DEF StreamInv
    <2> QED BY <1>5, <2>1, <2>2
  <1>11. ASSUME ~overflow' PROVE \E at \in [0 .. Len(layout') -> Nat] : Marks(at)'
    <2>1. PICK at \in [0 .. n -> Nat] : Marks(at)
      BY <1>6, <1>11 DEF StreamInv
    <2>2. /\ Len(bytes') = Len(bytes) + w /\ Len(bytes) \in Nat
          /\ \A k \in 1 .. Len(bytes) : bytes'[k] = bytes[k]
          /\ \A b \in 1 .. w : bytes'[Len(bytes) + b] = bs[b]
      <3>1. bytes \in Seq(Int) /\ Len(bytes) \in Nat /\ bytes' = bytes \o bs
        BY <1>6, <1>11 DEF StreamInv, StreamTypeOK
      <3>2. /\ Len(bytes \o bs) = Len(bytes) + w
            /\ \A k \in 1 .. Len(bytes) + w :
                 (bytes \o bs)[k] = IF k <= Len(bytes) THEN bytes[k] ELSE bs[k - Len(bytes)]
        BY <1>2, <3>1, ConcatProperties
      <3>3. /\ \A k \in 1 .. Len(bytes) : k \in 1 .. Len(bytes) + w /\ k <= Len(bytes)
            /\ \A b \in 1 .. w : /\ Len(bytes) + b \in 1 .. Len(bytes) + w
                                /\ ~(Len(bytes) + b <= Len(bytes))
                                /\ (Len(bytes) + b) - Len(bytes) = b
        BY <1>1, <3>1
      <3> QED BY <3>1, <3>2, <3>3, Zenon
    <2>3. PICK to \in [0 .. n + 1 -> Nat] :
            to[n + 1] = Len(bytes) + w /\ \A i \in 0 .. n : to[i] = at[i]
      <3> DEFINE f == [i \in 0 .. n + 1 |-> IF i = n + 1 THEN Len(bytes) + w ELSE at[i]]
      <3>1. f \in [0 .. n + 1 -> Nat] /\ f[n + 1] = Len(bytes) + w /\ \A i \in 0 .. n : f[i] = at[i]
        BY <1>1, <1>5, <2>1, <2>2
      <3> QED BY <3>1, Zenon
    <2>4. to[0] = 0 /\ to[Len(layout')] = Len(bytes') /\ to[Len(numbers')] = position'
      BY <1>5, <1>8, <2>1, <2>2, <2>3 DEF Marks
    <2>5. ASSUME NEW i \in 1 .. n
          PROVE  /\ to[i] = to[i - 1] + layout'[i].width /\ to[i] <= Len(bytes')
                 /\ \A b \in 1 .. layout'[i].width :
                      bytes'[to[i - 1] + b] = LittleEndian(layout'[i].value, layout'[i].width)[b]
      <3>1. /\ to[i] = at[i] /\ to[i - 1] = at[i - 1] /\ layout'[i] = layout[i]
            /\ at[i - 1] \in Nat /\ at[i] \in Nat
        BY <1>5, <2>1, <2>3
      <3>2. /\ at[i] = at[i - 1] + layout[i].width /\ at[i] <= Len(bytes)
            /\ \A b \in 1 .. layout[i].width :
                 bytes[at[i - 1] + b] = LittleEndian(layout[i].value, layout[i].width)[b]
        BY <2>1 DEF Marks
      <3>3. layout[i].width \in {1, 2, 4}
        <4>1. layout[i] \in [width : {1, 2, 4}, value : Nat]
          BY ElementOfSeq DEF StreamInv, StreamTypeOK
        <4> QED BY <4>1
      <3>4. \A b \in 1 .. layout[i].width : at[i - 1] + b \in 1 .. Len(bytes)
        BY <2>2, <3>1, <3>2, <3>3
      <3>5. to[i] <= Len(bytes')
        BY <1>1, <2>2, <3>1, <3>2
      <3> QED BY <2>2, <3>1, <3>2, <3>4, <3>5, Zenon
    <2>6. /\ to[n + 1] = to[(n + 1) - 1] + layout'[n + 1].width /\ to[n + 1] <= Len(bytes')
          /\ \A b \in 1 .. layout'[n + 1].width :
               bytes'[to[(n + 1) - 1] + b]
                 = LittleEndian(layout'[n + 1].value, layout'[n + 1].width)[b]
      <3>1. to[(n + 1) - 1] = Len(bytes)
        BY <1>5, <2>1, <2>3 DEF Marks
      <3>2. to[n + 1] <= Len(bytes')
        BY <1>1, <2>2, <2>3
      <3> QED BY <1>3, <1>5, <2>2, <2>3, <3>1, <3>2, Zenon DEF bs
    <2>7. \A i \in 1 .. Len(layout') : i \in 1 .. n \/ i = n + 1
      BY <1>5
    <2>8. Marks(to)'
      BY <2>4, <2>5, <2>6, <2>7, Zenon DEF Marks
    <2> QED BY <1>5, <2>3, <2>8
  <1>12. \A i \in 1 .. Len(numbers') : numbers'[i] = layout'[i].value
    BY <1>8
  <1> QED BY <1>7, <1>9, <1>10, <1>11, <1>12 DEF StreamInv

\* A read gives the number that was written at its place.
LEMMA ReadStep == ASSUME StreamInv, ReadNumber PROVE StreamInv'
  <1> DEFINE k == Len(numbers) + 1
             w == layout[k].width
             bs == SubSeq(bytes, position + 1, position + w)
  <1>1. k \in 1 .. Len(layout) /\ Len(numbers) \in Nat /\ k - 1 = Len(numbers)
    BY DEF StreamInv, StreamTypeOK, ReadNumber
  <1>2. w \in {1, 2, 4} /\ layout[k].value \in Nat /\ layout[k].value \div Weight[w] < 256
    <2>1. layout[k] \in [width : {1, 2, 4}, value : Nat]
      BY <1>1, ElementOfSeq DEF StreamInv, StreamTypeOK
    <2>2. layout[k].value \div Weight[w] < 256
      BY <1>1, Zenon DEF StreamInv
    <2> QED BY <2>1, <2>2
  <1>3. /\ numbers' = Append(numbers, FromBytes(bs)) /\ position' = position + w
        /\ UNCHANGED <<bytes, overflow, layout, size>> /\ position + w <= size /\ size >= 0
    BY DEF ReadNumber
  <1> HIDE DEF k
  <1>4. bs \in Seq(Int) /\ Len(bs) = w /\ \A b \in 1 .. w : bs[b] = bytes[position + b]
    <2>1. /\ bytes \in Seq(Int) /\ position + 1 \in 1 .. Len(bytes) + 1
          /\ position + w \in (position + 1) - 1 .. Len(bytes)
          /\ (position + w) - (position + 1) + 1 = w /\ position \in Nat
      <3> HIDE DEF w
      <3>1. /\ position \in Nat /\ bytes \in Seq(Int) /\ Len(bytes) \in Nat
            /\ size <= Len(bytes) /\ size \in Int
        BY DEF StreamInv, StreamTypeOK
      <3>2. w \in {1, 2, 4} /\ position + w <= size
        BY <1>2, <1>3
      <3>3. w \in Nat \ {0} /\ position + w <= Len(bytes)
        BY <3>1, <3>2
      <3> QED BY <3>1, <3>3
    <2> HIDE DEF w
    <2> QED BY <2>1, <1>2, SubSeqProperties
  <1>5. FromBytes(bs) \in Int
    BY <1>4, FromBytesInt
  <1> HIDE DEF bs, w
  <1>6. StreamTypeOK'
    BY <1>2, <1>3, <1>5 DEF StreamInv, StreamTypeOK
  <1>7. /\ Len(numbers') = k /\ numbers'[k] = FromBytes(bs)
        /\ \A i \in 1 .. Len(numbers) : numbers'[i] = numbers[i]
    BY <1>3, <1>5 DEF StreamInv, StreamTypeOK, k
  <1>8. ASSUME ~overflow
        PROVE  /\ \E at \in [0 .. Len(layout) -> Nat] : Marks(at)'
               /\ \A i \in 1 .. Len(numbers') : numbers'[i] = layout[i].value
    <2>1. PICK at \in [0 .. Len(layout) -> Nat] : Marks(at)
      BY <1>8 DEF StreamInv
    <2>2. /\ at[k] = at[k - 1] + w /\ at[k - 1] = position
          /\ \A b \in 1 .. w : bytes[position + b] = LittleEndian(layout[k].value, w)[b]
      BY <1>1, <2>1 DEF Marks, w
    <2>3. FromBytes(bs) = layout[k].value
      <3>1. \A b \in 1 .. w : bs[b] = LittleEndian(layout[k].value, w)[b]
        BY <1>4, <2>2
      <3> QED BY <1>2, <1>4, <3>1, RoundTrip
    <2>4. at[Len(numbers')] = position'
      BY <1>3, <1>7, <2>2
    <2>5. Marks(at)'
      BY <1>3, <2>1, <2>4 DEF Marks
    <2>6. \A i \in 1 .. Len(numbers') : i \in 1 .. Len(numbers) \/ i = k
      BY <1>1, <1>7
    <2> QED BY <1>7, <1>8, <2>1, <2>3, <2>5, <2>6 DEF StreamInv
  <1> QED BY <1>1, <1>3, <1>6, <1>7, <1>8 DEF StreamInv, StreamTypeOK

\* The other steps.
LEMMA StreamStep == ASSUME StreamInv, [StreamNext]_streamVars PROVE StreamInv'
  <1>1. ASSUME NEW n \in 0 .. Len(bytes), Transfer(n) PROVE StreamInv'
    <2>1. /\ size' = n /\ UNCHANGED <<bytes, overflow, layout, position, numbers>>
          /\ n \in Int /\ n <= Len(bytes) /\ ~(n < 0)
      BY <1>1 DEF Transfer, StreamInv, StreamTypeOK
    <2>2. \A at : Marks(at) => Marks(at)'
      BY <2>1, Zenon DEF Marks
    <2>3. StreamTypeOK'
      BY <2>1, Zenon DEF StreamInv, StreamTypeOK
    <2> QED BY <2>1, <2>2, <2>3, Zenon DEF StreamInv
  <1>2. CASE Reuse
    <2>1. StreamInit' => StreamInv'
      BY StreamStart, PTL
    <2> QED BY <1>2, <2>1 DEF Reuse, StreamInit
  <1>3. CASE UNCHANGED streamVars
    BY <1>3 DEF streamVars, StreamInv, StreamTypeOK, Marks
  <1> QED BY <1>1, <1>2, <1>3, WriteStep, ReadStep DEF StreamNext

\* What the invariant says of the numbers.
LEMMA StreamAnswer == ASSUME StreamInv PROVE NumbersReadBack
  <1> SUFFICES ASSUME ~overflow
               PROVE  /\ \A i \in DOMAIN numbers : numbers[i] = layout[i].value
                      /\ size = Len(bytes) =>
                           IF Len(numbers) < Len(layout)
                           THEN position + layout[Len(numbers) + 1].width <= size
                           ELSE position = size
    BY DEF NumbersReadBack
  <1>1. \A i \in DOMAIN numbers : numbers[i] = layout[i].value
    <2>1. DOMAIN numbers = 1 .. Len(numbers)
      BY DEF StreamInv, StreamTypeOK
    <2> QED BY <2>1, Zenon DEF StreamInv
  <1>2. PICK at \in [0 .. Len(layout) -> Nat] : Marks(at)
    BY DEF StreamInv
  <1>3. ASSUME size = Len(bytes), Len(numbers) < Len(layout)
        PROVE  position + layout[Len(numbers) + 1].width <= size
    <2>1. Len(numbers) + 1 \in 1 .. Len(layout) /\ (Len(numbers) + 1) - 1 = Len(numbers)
      BY <1>3 DEF StreamInv, StreamTypeOK
    <2> QED BY <1>2, <1>3, <2>1 DEF Marks
  <1>4. ASSUME size = Len(bytes), ~(Len(numbers) < Len(layout)) PROVE position = size
    <2>1. Len(numbers) = Len(layout)
      BY <1>4 DEF StreamInv, StreamTypeOK
    <2> QED BY <1>2, <1>4, <2>1 DEF Marks
  <1> QED BY <1>1, <1>3, <1>4

\* ByteReader gives the numbers that ByteWriter took, for every capacity, every
\* sequence of writes and every loss at the end, unless overflowed() was set.
THEOREM NumbersReadBackHolds == StreamSpec => []NumbersReadBack
  <1>1. StreamInit => StreamInv
    BY StreamStart
  <1> QED BY <1>1, StreamStep, StreamAnswer, PTL DEF StreamSpec

-----------------------------------------------------------------------------
\* EventBus.

Events == [topic : Topics \cup {"none"}, number : Nat]
Queues == [events : [Slots -> Events], read : Slots, write : Slots, size : 0 .. QueueCapacity]

\* What is true of a sink with queue q that accepted a and gave g, when p events
\* were published: the ring holds what was accepted and not given, in order, and
\* the events have increasing numbers, up to p.
SinkOK(q, a, g, p) ==
  /\ q \in Queues /\ a \in Seq(Events) /\ g \in Seq(Events)
  /\ q.write = (q.read + q.size) % QueueCapacity
  /\ Len(a) = Len(g) + q.size
  /\ \A i \in 1 .. Len(g) : g[i] = a[i]
  /\ \A i \in 0 .. q.size - 1 : q.events[(q.read + i) % QueueCapacity] = a[Len(g) + i + 1]
  /\ \A i, j \in 1 .. Len(a) : i < j => a[i].number < a[j].number
  /\ \A i \in 1 .. Len(a) : a[i].number <= p

\* The inductive invariant: besides, no sink has two slots of a topic, so that
\* publish() offers it an event once.
BusInv ==
  /\ published \in Nat
  /\ subscribers \in [Topics -> Seq(Sinks)]
  /\ \A t \in Topics : \A i, j \in 1 .. Len(subscribers[t]) :
       subscribers[t][i] = subscribers[t][j] => i = j
  /\ queue \in [Sinks -> Queues]
  /\ accepted \in [Sinks -> Seq(Events)] /\ taken \in [Sinks -> Seq(Events)]
  /\ \A s \in Sinks : SinkOK(queue[s], accepted[s], taken[s], published)

\* The bounds of a queue.
LEMMA QueueBounds ==
  ASSUME NEW q \in Queues
  PROVE  /\ QueueCapacity \in Nat \ {0} /\ Slots = 0 .. QueueCapacity - 1
         /\ q.read \in 0 .. QueueCapacity - 1 /\ q.write \in 0 .. QueueCapacity - 1
         /\ q.size \in 0 .. QueueCapacity /\ q.events \in [Slots -> Events]
  BY BusAssumption DEF Queues, Slots

\* One event more.
LEMMA PushOnce ==
  ASSUME NEW q, NEW a, NEW g, NEW p \in Nat, SinkOK(q, a, g, p), q.size < QueueCapacity,
         NEW e \in Events, e.number = p + 1
  PROVE  SinkOK(Pushed(q, e, 1), a \o [i \in 1 .. 1 |-> e], g, p + 1)
  <1> DEFINE n == QueueCapacity
             r == q.read
             w == q.write
             k == q.size
             z == Pushed(q, e, 1)
             o == [i \in 1 .. 1 |-> e]
             b == a \o o
  <1>1. /\ n \in Nat \ {0} /\ Slots = 0 .. n - 1 /\ r \in 0 .. n - 1 /\ w \in 0 .. n - 1
        /\ k \in 0 .. n /\ q.events \in [Slots -> Events] /\ k < n
    BY QueueBounds, Zenon DEF SinkOK
  <1>2. /\ a \in Seq(Events) /\ g \in Seq(Events) /\ Len(a) = Len(g) + k /\ w = (r + k) % n
        /\ \A i \in 0 .. k - 1 : q.events[(r + i) % n] = a[Len(g) + i + 1]
    BY Zenon DEF SinkOK
  <1>3. Len(a) \in Nat /\ Len(g) \in Nat
    BY <1>2, LenProperties
  <1>4. o \in Seq(Events) /\ Len(o) = 1 /\ o[1] = e
    OBVIOUS
  <1>5. /\ z.read = r /\ z.size = k + 1 /\ z.write = (w + 1) % n
        /\ z.events = [i \in Slots |-> IF \E j \in 0 .. 1 - 1 : i = (w + j) % n
                                       THEN e ELSE q.events[i]]
        /\ z = [events |-> z.events, read |-> z.read, write |-> z.write, size |-> z.size]
    BY Zenon DEF Pushed
  <1> HIDE DEF n, r, w, k, z, o
  <1>6. k \in 0 .. n - 1 /\ k + 1 \in 0 .. n
    BY <1>1
  <1>7. /\ b \in Seq(Events) /\ Len(b) = Len(a) + 1 /\ b[Len(a) + 1] = e
        /\ \A i \in 1 .. Len(a) : b[i] = a[i]
    <2>1. /\ b \in Seq(Events) /\ Len(b) = Len(a) + Len(o)
          /\ \A i \in 1 .. Len(a) + Len(o) : b[i] = IF i <= Len(a) THEN a[i] ELSE o[i - Len(a)]
      BY <1>2, <1>4, ConcatProperties, Zenon
    <2>2. Len(a) + 1 \in 1 .. Len(a) + 1 /\ ~(Len(a) + 1 <= Len(a)) /\ (Len(a) + 1) - Len(a) = 1
      BY <1>3
    <2>3. \A i \in 1 .. Len(a) : i \in 1 .. Len(a) + 1 /\ i <= Len(a)
      BY <1>3
    <2> HIDE DEF b
    <2> QED BY <1>4, <2>1, <2>2, <2>3, Zenon
  <1> HIDE DEF b
  <1>8. ASSUME NEW i \in Slots PROVE z.events[i] = IF i = w THEN e ELSE q.events[i]
    <2>1. \A j \in 0 .. 1 - 1 : j = 0
      OBVIOUS
    <2>2. 0 \in 0 .. 1 - 1 /\ (w + 0) % n = w
      BY <1>1
    <2>3. (\E j \in 0 .. 1 - 1 : i = (w + j) % n) <=> i = w
      BY <2>1, <2>2, Zenon
    <2> QED BY <1>5, <2>3, Zenon
  <1>9. z.write \in 0 .. n - 1 /\ z.write = (z.read + z.size) % n
    <2>1. (w + 1) % n \in 0 .. n - 1
      BY <1>1
    <2>2. (w + 1) % n = (r + (k + 1)) % n
      BY <1>1, <1>2, <1>6, RingEnd, Zenon
    <2> QED BY <1>5, <2>1, <2>2, Zenon
  <1>10. z \in Queues
    <2>1. \A i \in Slots : z.events[i] \in Events
      BY <1>1, <1>8
    <2>2. z.events \in [Slots -> Events]
      BY <1>5, <2>1, Zenon
    <2>3. z.size \in 0 .. QueueCapacity /\ z.read \in Slots /\ z.write \in Slots
      BY <1>1, <1>5, <1>6, <1>9, Zenon DEF n
    <2> QED BY <1>5, <2>2, <2>3, Zenon DEF Queues
  <1>11. ASSUME NEW i \in 0 .. z.size - 1
         PROVE  z.events[(z.read + i) % n] = b[Len(g) + i + 1]
    <2>1. i \in 0 .. k /\ i \in 0 .. n /\ (i = k \/ i \in 0 .. k - 1)
      BY <1>1, <1>5
    <2>2. (r + i) % n \in Slots
      BY <1>1, <2>1, RingPlace, Zenon
    <2>3. CASE i = k
      <3>1. Len(g) + i + 1 = Len(a) + 1
        BY <1>2, <2>3
      <3>2. z.events[w] = e
        BY <1>2, <1>8, <2>2, <2>3, Zenon
      <3> QED BY <1>2, <1>5, <1>7, <2>3, <3>1, <3>2, Zenon
    <2>4. CASE i \in 0 .. k - 1
      <3>1. (r + i) % n # w
        BY <1>1, <1>2, <1>6, <2>4, RingEnd, Zenon
      <3>2. Len(g) + i + 1 \in 1 .. Len(a)
        BY <1>2, <1>3, <1>6, <2>4
      <3> QED BY <1>2, <1>5, <1>7, <1>8, <2>2, <2>4, <3>1, <3>2, Zenon
    <2> QED BY <2>1, <2>3, <2>4
  <1>12. \A i \in 1 .. Len(a) : a[i].number \in Nat /\ a[i].number <= p
    <2>1. \A i \in 1 .. Len(a) : a[i] \in Events
      BY <1>2, ElementOfSeq, Zenon
    <2> QED BY <2>1 DEF SinkOK, Events
  <1>13. \A i \in 1 .. Len(b) : i \in 1 .. Len(a) \/ i = Len(a) + 1
    BY <1>3, <1>7
  <1>14. ASSUME NEW i \in 1 .. Len(b) PROVE b[i].number <= p + 1
    BY <1>7, <1>12, <1>13
  <1>15. ASSUME NEW i \in 1 .. Len(b), NEW j \in 1 .. Len(b), i < j PROVE b[i].number < b[j].number
    <2>1. i \in 1 .. Len(a)
      BY <1>3, <1>7, <1>15
    <2>2. CASE j \in 1 .. Len(a)
      BY <1>7, <1>15, <2>1, <2>2, Zenon DEF SinkOK
    <2>3. CASE j = Len(a) + 1
      <3>1. a[i].number < p + 1
        BY <1>12, <2>1
      <3> QED BY <1>7, <2>1, <2>3, <3>1, Zenon
    <2> QED BY <1>13, <2>2, <2>3
  <1>16. Len(b) = Len(g) + z.size
    BY <1>2, <1>3, <1>5, <1>6, <1>7
  <1>17. \A i \in 1 .. Len(g) : g[i] = b[i]
    <2>1. \A i \in 1 .. Len(g) : i \in 1 .. Len(a)
      BY <1>2, <1>3, <1>6
    <2> QED BY <1>7, <2>1, Zenon DEF SinkOK
  <1>18. SinkOK(z, b, g, p + 1)
    BY <1>2, <1>7, <1>9, <1>10, <1>11, <1>14, <1>15, <1>16, <1>17, Zenon DEF SinkOK, n
  <1> QED BY <1>18, Zenon DEF z, b, o

\* A full queue, or one that is not subscribed.
LEMMA PushNone ==
  ASSUME NEW q, NEW a, NEW g, NEW p \in Nat, SinkOK(q, a, g, p), NEW e
  PROVE  SinkOK(Pushed(q, e, 0), a \o [i \in 1 .. 0 |-> e], g, p + 1)
  <1>1. q \in Queues /\ a \in Seq(Events)
    BY DEF SinkOK
  <1>2. /\ QueueCapacity \in Nat \ {0} /\ q.write \in 0 .. QueueCapacity - 1
        /\ q.size \in Nat /\ q.events \in [Slots -> Events]
    BY <1>1, QueueBounds
  <1>3. Pushed(q, e, 0) = q
    <2>1. q = [events |-> q.events, read |-> q.read, write |-> q.write, size |-> q.size]
      BY <1>1 DEF Queues
    <2>2. (q.write + 0) % QueueCapacity = q.write /\ q.size + 0 = q.size
      BY <1>2
    <2>3. \A j \in 0 .. 0 - 1 : FALSE
      OBVIOUS
    <2>4. [i \in Slots |-> IF \E j \in 0 .. 0 - 1 : i = (q.write + j) % QueueCapacity
                           THEN e ELSE q.events[i]] = q.events
      BY <1>2, <2>3
    <2> QED BY <2>1, <2>2, <2>4, Zenon DEF Pushed
  <1>4. a \o [i \in 1 .. 0 |-> e] = a
    <2>1. [i \in 1 .. 0 |-> e] = <<>>
      OBVIOUS
    <2> QED BY <1>1, <2>1, ConcatEmptySeq
  <1>5. \A i \in 1 .. Len(a) : a[i].number <= p + 1
    <2>1. \A i \in 1 .. Len(a) : a[i] \in Events
      BY <1>1, ElementOfSeq, Zenon
    <2>2. \A i \in 1 .. Len(a) : a[i].number \in Nat /\ a[i].number <= p
      BY <2>1 DEF SinkOK, Events
    <2> QED BY <2>2
  <1> QED BY <1>3, <1>4, <1>5, Zenon DEF SinkOK

\* The oldest event is given.
LEMMA PopOnce ==
  ASSUME NEW q, NEW a, NEW g, NEW p \in Nat, SinkOK(q, a, g, p), q.size > 0
  PROVE  SinkOK(Popped(q), a, Append(g, q.events[q.read]), p)
  <1> DEFINE n == QueueCapacity
             r == q.read
             w == q.write
             k == q.size
             x == q.events[r]
             z == Popped(q)
             h == Append(g, x)
  <1>1. /\ n \in Nat \ {0} /\ Slots = 0 .. n - 1 /\ r \in 0 .. n - 1 /\ w \in 0 .. n - 1
        /\ k \in 0 .. n /\ q.events \in [Slots -> Events] /\ q \in Queues /\ k > 0
    BY QueueBounds, Zenon DEF SinkOK
  <1>2. /\ a \in Seq(Events) /\ g \in Seq(Events) /\ Len(a) = Len(g) + k /\ w = (r + k) % n
        /\ \A i \in 0 .. k - 1 : q.events[(r + i) % n] = a[Len(g) + i + 1]
    BY Zenon DEF SinkOK
  <1>3. Len(a) \in Nat /\ Len(g) \in Nat /\ x \in Events
    BY <1>1, <1>2, LenProperties
  <1>4. /\ z.read = (r + 1) % n /\ z.size = k - 1 /\ z.write = w /\ z.events = q.events
        /\ z = [events |-> q.events, read |-> (r + 1) % n, write |-> w, size |-> k - 1]
    BY Zenon DEF Popped
  <1> HIDE DEF n, r, w, k, z, x
  <1>5. /\ h \in Seq(Events) /\ Len(h) = Len(g) + 1 /\ h[Len(g) + 1] = x
        /\ \A i \in 1 .. Len(g) : h[i] = g[i]
    BY <1>2, <1>3
  <1> HIDE DEF h
  <1>6. k - 1 \in 0 .. n - 1 /\ k - 1 \in 0 .. n /\ (k - 1) + 1 = k /\ (r + 1) % n \in 0 .. n - 1
    BY <1>1
  <1>7. \A i \in 0 .. n - 1 : (z.read + i) % n = (r + (i + 1)) % n
    BY <1>1, <1>4, RingShift, Zenon
  <1>8. z \in Queues
    BY <1>1, <1>4, <1>6, Zenon DEF Queues, n
  <1>9. z.write = (z.read + z.size) % n
    BY <1>2, <1>4, <1>6, <1>7, Zenon
  <1>10. x = a[Len(g) + 1]
    <2>1. 0 \in 0 .. k - 1 /\ (r + 0) % n = r /\ Len(g) + 0 + 1 = Len(g) + 1
      BY <1>1, <1>3
    <2> QED BY <1>2, <2>1, Zenon DEF x
  <1>11. ASSUME NEW i \in 0 .. z.size - 1
         PROVE  z.events[(z.read + i) % n] = a[Len(h) + i + 1]
    <2>1. i \in 0 .. n - 1 /\ i + 1 \in 0 .. k - 1 /\ Len(g) + (i + 1) + 1 = Len(h) + i + 1
      BY <1>1, <1>3, <1>4, <1>5
    <2>2. q.events[(r + (i + 1)) % n] = a[Len(g) + (i + 1) + 1]
      BY <1>2, <2>1, Zenon
    <2> QED BY <1>4, <1>7, <2>1, <2>2, Zenon
  <1>12. \A i \in 1 .. Len(h) : h[i] = a[i]
    <2> TAKE i \in 1 .. Len(h)
    <2>1. i \in 1 .. Len(g) \/ i = Len(g) + 1
      BY <1>3, <1>5
    <2> QED BY <1>5, <1>10, <2>1, Zenon DEF SinkOK
  <1>13. Len(a) = Len(h) + z.size
    BY <1>1, <1>2, <1>3, <1>4, <1>5
  <1>14. SinkOK(z, a, h, p)
    BY <1>5, <1>8, <1>9, <1>11, <1>12, <1>13, Zenon DEF SinkOK, n
  <1> QED BY <1>14, Zenon DEF z, h, x, r

\* What publish() does to the sinks, when the queues are qs and the sinks were
\* given g.
LEMMA PublishStep ==
  ASSUME BusInv, NEW t \in Topics, NEW qs, NEW g,
         \A s \in Sinks : SinkOK(qs[s], accepted[s], g[s], published),
         Publish(t, qs)
  PROVE  /\ published' \in Nat
         /\ queue' \in [Sinks -> Queues] /\ accepted' \in [Sinks -> Seq(Events)]
         /\ \A s \in Sinks : SinkOK(queue'[s], accepted'[s], g[s], published')
  <1> DEFINE e == [topic |-> t, number |-> published + 1]
             slots(s) == {i \in DOMAIN subscribers[t] : subscribers[t][i] = s}
             copies(s) == Min({Cardinality(slots(s)), QueueCapacity - qs[s].size})
  <1>1. /\ queue' = [s \in Sinks |-> Pushed(qs[s], e, copies(s))]
        /\ accepted' = [s \in Sinks |-> accepted[s] \o [i \in 1 .. copies(s) |-> e]]
        /\ published' = published + 1
    BY Zenon DEF Publish
  <1>2. published \in Nat /\ published + 1 \in Nat
    BY DEF BusInv
  <1>3. e \in Events /\ e.number = published + 1
    BY <1>2 DEF Events
  <1> HIDE DEF e
  <1>4. ASSUME NEW s \in Sinks PROVE Cardinality(slots(s)) \in {0, 1}
    <2>1. subscribers[t] \in Seq(Sinks)
      BY DEF BusInv
    <2>2. DOMAIN subscribers[t] = 1 .. Len(subscribers[t])
      BY <2>1, LenProperties, Zenon
    <2>3. \A i, j \in slots(s) : i = j
      BY <2>2, Zenon DEF BusInv
    <2> HIDE DEF slots
    <2>4. CASE slots(s) = {}
      BY <2>4, FS_EmptySet, Zenon
    <2>5. CASE slots(s) # {}
      <3>1. PICK i \in slots(s) : TRUE
        BY <2>5
      <3>2. slots(s) = {i}
        BY <2>3, <3>1
      <3> QED BY <3>2, FS_Singleton, Zenon
    <2> QED BY <2>4, <2>5
  <1> HIDE DEF slots
  <1>5. ASSUME NEW s \in Sinks
        PROVE  SinkOK(Pushed(qs[s], e, copies(s)), accepted[s] \o [i \in 1 .. copies(s) |-> e],
                      g[s], published + 1)
    <2> DEFINE m == Cardinality(slots(s))
               room == QueueCapacity - qs[s].size
    <2>1. SinkOK(qs[s], accepted[s], g[s], published)
      OBVIOUS
    <2>2. QueueCapacity \in Nat \ {0} /\ qs[s].size \in 0 .. QueueCapacity
      BY <2>1, QueueBounds, Zenon DEF SinkOK
    <2>3. m \in {0, 1} /\ m \in Nat /\ room \in Nat
      BY <1>4, <2>2
    <2>4. room # 0 => qs[s].size < QueueCapacity
      BY <2>2
    <2> HIDE DEF m, room
    <2>5. Min({m, room}) \in {m, room} /\ Min({m, room}) <= m /\ Min({m, room}) <= room
      BY <2>3, MinInSet
    <2>6. Min({m, room}) = 0 \/ (Min({m, room}) = 1 /\ room # 0)
      BY <2>3, <2>5
    <2>7. copies(s) = Min({m, room})
      BY Zenon DEF m, room
    <2> HIDE DEF copies
    <2>8. CASE copies(s) = 0
      BY <1>2, <2>1, <2>8, PushNone, Zenon
    <2>9. CASE copies(s) = 1 /\ room # 0
      BY <1>2, <1>3, <2>1, <2>4, <2>9, PushOnce, Zenon
    <2> QED BY <2>6, <2>7, <2>8, <2>9, Zenon
  <1> HIDE DEF copies
  <1>6. \A s \in Sinks : SinkOK(queue'[s], accepted'[s], g[s], published')
    BY <1>1, <1>5, Zenon
  <1>7. \A s \in Sinks : queue'[s] \in Queues /\ accepted'[s] \in Seq(Events)
    BY <1>6, Zenon DEF SinkOK
  <1>8. queue' \in [Sinks -> Queues] /\ accepted' \in [Sinks -> Seq(Events)]
    BY <1>1, <1>7, Zenon
  <1> QED BY <1>1, <1>2, <1>6, <1>8, Zenon

\* A sink that is subscribed is not subscribed again.
LEMMA SubscribeStep ==
  ASSUME BusInv, NEW t \in Topics, NEW s \in Sinks, Subscribe(t, s)
  PROVE  BusInv'
  <1> DEFINE old == subscribers[t]
             n == Len(old)
  <1>1. subscribers' = [subscribers EXCEPT ![t] = Append(old, s)] /\ s \notin Range(old)
    BY DEF Subscribe
  <1>2. UNCHANGED <<queue, published, accepted, taken>>
    BY DEF Subscribe
  <1>3. subscribers \in [Topics -> Seq(Sinks)] /\ old \in Seq(Sinks) /\ n \in Nat
    BY DEF BusInv
  <1>4. \A i \in 1 .. n : old[i] # s
    BY <1>1, <1>3 DEF Range
  <1>5. \A i, j \in 1 .. n : old[i] = old[j] => i = j
    BY DEF BusInv
  <1> HIDE DEF old
  <1>6. /\ Append(old, s) \in Seq(Sinks) /\ Len(Append(old, s)) = n + 1
        /\ Append(old, s)[n + 1] = s /\ \A i \in 1 .. n : Append(old, s)[i] = old[i]
    BY <1>3
  <1> DEFINE new == Append(old, s)
  <1> HIDE DEF new
  <1>7. \A i, j \in 1 .. Len(new) : new[i] = new[j] => i = j
    <2>1. \A i \in 1 .. Len(new) : i \in 1 .. n \/ i = n + 1
      BY <1>3, <1>6 DEF new
    <2> QED BY <1>4, <1>5, <1>6, <2>1, Zenon DEF new
  <1>8. subscribers' \in [Topics -> Seq(Sinks)]
    BY <1>1, <1>3, <1>6
  <1>9. \A u \in Topics : subscribers'[u] = IF u = t THEN new ELSE subscribers[u]
    BY <1>1, <1>3 DEF new
  <1>10. \A u \in Topics : \A i, j \in 1 .. Len(subscribers'[u]) :
           subscribers'[u][i] = subscribers'[u][j] => i = j
    BY <1>7, <1>9, Zenon DEF BusInv
  <1> QED BY <1>2, <1>8, <1>10, Zenon DEF BusInv

\* A sink takes its oldest event, and the machine publishes while it does.
LEMMA ConsumeStep ==
  ASSUME BusInv, NEW s \in Sinks, Consume(s)
  PROVE  BusInv'
  <1> DEFINE e == queue[s].events[queue[s].read]
             popped == [queue EXCEPT ![s] = Popped(@)]
             given == [taken EXCEPT ![s] = Append(@, e)]
  <1>1. /\ queue[s].size > 0 /\ taken' = given /\ UNCHANGED subscribers
        /\ \/ Process(e, popped)
           \/ queue' = popped /\ UNCHANGED <<published, accepted>>
    BY DEF Consume
  <1>2. /\ queue \in [Sinks -> Queues] /\ taken \in [Sinks -> Seq(Events)] /\ published \in Nat
        /\ accepted \in [Sinks -> Seq(Events)]
        /\ \A u \in Sinks : SinkOK(queue[u], accepted[u], taken[u], published)
    BY DEF BusInv
  <1>3. /\ \A u \in Sinks : popped[u] = IF u = s THEN Popped(queue[s]) ELSE queue[u]
        /\ \A u \in Sinks : given[u] = IF u = s THEN Append(taken[s], e) ELSE taken[u]
    BY <1>2
  <1>4. DOMAIN popped = Sinks /\ DOMAIN given = Sinks
    BY <1>2
  <1>5. \A u \in Sinks : SinkOK(popped[u], accepted[u], given[u], published)
    <2>1. SinkOK(Popped(queue[s]), accepted[s], Append(taken[s], e), published)
      BY <1>1, <1>2, PopOnce, Zenon
    <2> HIDE DEF popped, given, e
    <2> QED BY <1>2, <1>3, <2>1, Zenon
  <1>6. popped \in [Sinks -> Queues] /\ given \in [Sinks -> Seq(Events)]
    <2>1. \A u \in Sinks : popped[u] \in Queues /\ given[u] \in Seq(Events)
      BY <1>5, Zenon DEF SinkOK
    <2>2. popped = [u \in Sinks |-> popped[u]] /\ given = [u \in Sinks |-> given[u]]
      BY <1>2
    <2> HIDE DEF popped, given
    <2> QED BY <2>1, <2>2, Zenon
  <1> HIDE DEF popped, given, e
  <1>7. CASE queue' = popped /\ UNCHANGED <<published, accepted>>
    BY <1>1, <1>2, <1>5, <1>6, <1>7, Zenon DEF BusInv
  <1>8. ASSUME NEW t \in Topics, Publish(t, popped) PROVE BusInv'
    <2>1. /\ published' \in Nat
          /\ queue' \in [Sinks -> Queues] /\ accepted' \in [Sinks -> Seq(Events)]
          /\ \A u \in Sinks : SinkOK(queue'[u], accepted'[u], given[u], published')
      BY <1>5, <1>8, PublishStep, Zenon
    <2> QED BY <1>1, <1>6, <2>1, Zenon DEF BusInv
  <1>9. CASE Process(e, popped)
    <2> DEFINE rows == {i \in DOMAIN Table : Table[i].from = machine /\ Table[i].event = e.topic}
               row == Table[Min(rows)]
    <2>1. \/ queue' = popped /\ UNCHANGED <<published, accepted>>
          \/ rows # {} /\ row.publishes # "none" /\ Publish(row.publishes, popped)
      BY <1>9, Zenon DEF Process
    <2>2. ASSUME rows # {} PROVE row.publishes \in Topics \cup {"none"}
      <3>1. rows \subseteq Nat /\ rows \subseteq DOMAIN Table
        BY BusAssumption
      <3>2. Min(rows) \in DOMAIN Table
        <4> HIDE DEF rows
        <4> QED BY <2>2, <3>1, MinInSet
      <3>3. row \in Range(Table)
        BY <3>2 DEF Range
      <3> QED BY <3>3, BusAssumption, Zenon
    <2> HIDE DEF rows, row
    <2> QED BY <1>7, <1>8, <2>1, <2>2, Zenon
  <1> QED BY <1>1, <1>7, <1>9

\* What the invariant says of a sink.
LEMMA BusAnswer == ASSUME BusInv PROVE OrderedOnce
  <1> SUFFICES ASSUME NEW s \in Sinks
               PROVE  /\ \A i, j \in DOMAIN accepted[s] :
                           i < j => accepted[s][i].number < accepted[s][j].number
                      /\ IsPrefix(taken[s], accepted[s])
                      /\ Len(accepted[s]) = Len(taken[s]) + queue[s].size
    BY Zenon DEF OrderedOnce
  <1> DEFINE a == accepted[s]
             g == taken[s]
             k == queue[s].size
  <1>1. SinkOK(queue[s], a, g, published)
    BY DEF BusInv
  <1>2. /\ a \in Seq(Events) /\ g \in Seq(Events) /\ Len(a) = Len(g) + k /\ queue[s] \in Queues
        /\ \A i \in 1 .. Len(g) : g[i] = a[i]
        /\ \A i, j \in 1 .. Len(a) : i < j => a[i].number < a[j].number
    BY <1>1, Zenon DEF SinkOK
  <1>3. k \in Nat
    BY <1>2, QueueBounds
  <1> HIDE DEF a, g, k
  <1>4. /\ DOMAIN a = 1 .. Len(a) /\ DOMAIN g = 1 .. Len(g) /\ Len(a) \in Nat /\ Len(g) \in Nat
        /\ g \in [1 .. Len(g) -> Events] /\ a \in [1 .. Len(a) -> Events]
    BY <1>2, LenProperties, Zenon
  <1>5. Len(g) <= Len(a)
    BY <1>2, <1>3, <1>4
  <1>6. IsPrefix(g, a)
    <2>1. SubSeq(g, 1, Len(g)) = SubSeq(a, 1, Len(g))
      BY <1>2, <1>4, <1>5
    <2> QED BY <1>5, <2>1 DEF IsPrefix
  <1> QED BY <1>2, <1>4, <1>6, Zenon DEF a, g, k

\* Every sink takes the events its queue accepted, in the order of publication
\* and each once, for any number of topics, sinks, slots and events, and any
\* table of the machine.
THEOREM OrderedOnceHolds == BusSpec => []OrderedOnce
  <1>1. BusInit => BusInv
    <2> SUFFICES ASSUME BusInit PROVE BusInv
      OBVIOUS
    <2> DEFINE q == [events |-> [i \in Slots |-> Nothing], read |-> 0, write |-> 0, size |-> 0]
    <2>1. /\ queue = [s \in Sinks |-> q] /\ published = 0 /\ subscribers = [t \in Topics |-> <<>>]
          /\ accepted = [s \in Sinks |-> <<>>] /\ taken = [s \in Sinks |-> <<>>]
      BY Zenon DEF BusInit
    <2>2. Nothing \in Events /\ QueueCapacity \in Nat \ {0}
      BY BusAssumption DEF Events, Nothing
    <2>3. 0 \in Slots /\ 0 \in 0 .. QueueCapacity /\ (0 + 0) % QueueCapacity = 0
      BY <2>2 DEF Slots
    <2>4. q \in Queues
      BY <2>2, <2>3 DEF Queues
    <2>5. q.read = 0 /\ q.write = 0 /\ q.size = 0
      OBVIOUS
    <2> HIDE DEF q
    <2>6. /\ \A S : <<>> \in Seq(S) /\ Len(<<>>) = 0 /\ 0 = 0 + 0 /\ 0 \in Nat
          /\ \A i \in 1 .. 0 : FALSE
          /\ \A i \in 0 .. 0 - 1 : FALSE
      OBVIOUS
    <2>7. SinkOK(q, <<>>, <<>>, 0)
      BY <2>3, <2>4, <2>5, <2>6 DEF SinkOK
    <2> QED BY <2>1, <2>4, <2>6, <2>7, Zenon DEF BusInv
  <1>2. ASSUME BusInv, [BusNext]_busVars PROVE BusInv'
    <2>1. ASSUME NEW t \in Topics, ClientPublish(t) PROVE BusInv'
      <3>1. Publish(t, queue) /\ UNCHANGED <<subscribers, taken>>
        BY <2>1 DEF ClientPublish
      <3>2. \A s \in Sinks : SinkOK(queue[s], accepted[s], taken[s], published)
        BY <1>2 DEF BusInv
      <3>3. /\ published' \in Nat
            /\ queue' \in [Sinks -> Queues] /\ accepted' \in [Sinks -> Seq(Events)]
            /\ \A s \in Sinks : SinkOK(queue'[s], accepted'[s], taken[s], published')
        BY <1>2, <3>1, <3>2, PublishStep, Zenon
      <3> QED BY <1>2, <3>1, <3>3, Zenon DEF BusInv
    <2>2. CASE UNCHANGED busVars
      BY <1>2, <2>2, Zenon DEF busVars, BusInv
    <2> QED BY <1>2, <2>1, <2>2, SubscribeStep, ConsumeStep, Zenon DEF BusNext
  <1> QED BY <1>1, <1>2, BusAnswer, PTL DEF BusSpec

-----------------------------------------------------------------------------
\* FrameCodec.

\* Bytes and words, as the sets of the places of their one-bits.
Byte == SUBSET (0 .. 7)
Word == SUBSET (0 .. 15)

\* Exclusive or with a word can be undone.
LEMMA XorInjective ==
  ASSUME NEW x, NEW y, NEW z, Xor(x, z) = Xor(y, z) \/ Xor(z, x) = Xor(z, y) PROVE x = y
  BY Zenon DEF Xor

\* It keeps words words,
LEMMA XorWords == ASSUME NEW x \in Word, NEW y \in Word PROVE Xor(x, y) \in Word
  BY DEF Word, Xor

\* and bytes bytes.
LEMMA XorBytes == ASSUME NEW x \in Byte, NEW y \in Byte PROVE Xor(x, y) \in Byte
  BY DEF Byte, Xor

\* A byte is a word whose high half is empty.
LEMMA BytesAreWords == Byte \subseteq Word
  BY DEF Byte, Word

\* A shift to the right leaves the highest bit empty.
LEMMA HalfOfWord ==
  ASSUME NEW x \in Word PROVE Half(x) \in Word /\ 15 \notin Half(x)
  BY DEF Half, Word

\* Only the lowest bit is lost.
LEMMA HalfInjective ==
  ASSUME NEW x \in Word, NEW y \in Word, Half(x) = Half(y), 0 \in x <=> 0 \in y
  PROVE  x = y
  <1>1. ASSUME NEW a \in Word, NEW b \in Word, Half(a) \subseteq Half(b), 0 \in a => 0 \in b,
               NEW i \in a
        PROVE  i \in b
    <2>1. CASE i = 0
      BY <1>1, <2>1
    <2>2. CASE i # 0
      <3>1. i - 1 \in Half(b)
        BY <1>1, <2>2 DEF Half
      <3>2. PICK j \in b : j - 1 = i - 1
        BY <3>1 DEF Half
      <3>3. i \in Int /\ j \in Int
        BY DEF Word
      <3> QED BY <3>2, <3>3
    <2> QED BY <2>1, <2>2
  <1> QED BY <1>1, Zenon

\* The polynomial has the highest bit, so a shift loses nothing.
LEMMA ShiftInjective ==
  ASSUME NEW x \in Word, NEW y \in Word
  PROVE  Shift(x) \in Word /\ (Shift(x) = Shift(y) => x = y)
  <1> DEFINE poly == {0, 13, 15}
  <1>1. poly \in Word /\ 15 \in poly
    BY DEF Word
  <1> HIDE DEF poly
  <1>2. Shift(x) = (IF 0 \in x THEN Xor(Half(x), poly) ELSE Half(x))
        /\ Shift(y) = (IF 0 \in y THEN Xor(Half(y), poly) ELSE Half(y))
    BY DEF Shift, poly
  <1>3. Shift(x) \in Word
    BY <1>1, <1>2, HalfOfWord, XorWords
  <1>4. (15 \in Shift(x) <=> 0 \in x) /\ (15 \in Shift(y) <=> 0 \in y)
    BY <1>1, <1>2, HalfOfWord DEF Xor
  <1>5. ASSUME Shift(x) = Shift(y) PROVE x = y
    <2>1. 0 \in x <=> 0 \in y
      BY <1>4, <1>5
    <2>2. Half(x) = Half(y)
      BY <1>2, <1>5, <2>1, XorInjective
    <2> QED BY <2>1, <2>2, HalfInjective
  <1> QED BY <1>3, <1>5

\* One byte of the checksum loses nothing either.
LEMMA CrcByteInjective ==
  ASSUME NEW x \in Word, NEW y \in Word, NEW b \in Byte, NEW c \in Byte
  PROVE  /\ CrcByte(x, b) \in Word
         /\ CrcByte(x, b) = CrcByte(y, b) => x = y
         /\ CrcByte(x, b) = CrcByte(x, c) => b = c
  <1> DEFINE Shifted(u) == Shift(Shift(Shift(Shift(Shift(Shift(Shift(Shift(u))))))))
  <1>1. ASSUME NEW u \in Word, NEW v \in Word
        PROVE  Shifted(u) \in Word /\ (Shifted(u) = Shifted(v) => u = v)
    <2>1. \A s, t \in Word : Shift(s) \in Word /\ (Shift(s) = Shift(t) => s = t)
      BY ShiftInjective
    <2> QED BY <2>1
  <1>2. Xor(x, b) \in Word /\ Xor(y, b) \in Word /\ Xor(x, c) \in Word
    BY XorWords, BytesAreWords
  <1> HIDE DEF Shifted
  <1>3. CrcByte(x, b) = Shifted(Xor(x, b)) /\ CrcByte(y, b) = Shifted(Xor(y, b))
        /\ CrcByte(x, c) = Shifted(Xor(x, c))
    BY DEF CrcByte, Shifted
  <1> QED BY <1>1, <1>2, <1>3, XorInjective

\* The checksums of the prefixes of a sequence of bytes exist.
IsRun(g, bs, n) ==
  /\ g \in [0 .. n -> Word]
  /\ g[0] = 0 .. 15
  /\ \A i \in 1 .. n : g[i] = CrcByte(g[i - 1], bs[i])

LEMMA RunExists ==
  ASSUME NEW bs \in Seq(Byte)
  PROVE  \E g : IsRun(g, bs, Len(bs))
  <1> DEFINE P == {n \in Nat : n <= Len(bs) => \E g : IsRun(g, bs, n)}
  <1>1. 0 \in P
    <2> DEFINE g == [i \in 0 .. 0 |-> 0 .. 15]
    <2>1. IsRun(g, bs, 0)
      BY DEF IsRun, Word
    <2> QED BY <2>1
  <1>2. ASSUME NEW n \in P PROVE n + 1 \in P
    <2> SUFFICES ASSUME n + 1 <= Len(bs) PROVE \E g : IsRun(g, bs, n + 1)
      OBVIOUS
    <2>1. n \in Nat /\ n <= Len(bs)
      OBVIOUS
    <2>2. PICK g : IsRun(g, bs, n)
      BY <2>1
    <2> DEFINE h == [i \in 0 .. n + 1 |-> IF i = n + 1 THEN CrcByte(g[n], bs[n + 1]) ELSE g[i]]
    <2>3. CrcByte(g[n], bs[n + 1]) \in Word
      <3>1. g[n] \in Word /\ bs[n + 1] \in Byte
        BY <2>1, <2>2 DEF IsRun
      <3> QED BY <3>1, CrcByteInjective
    <2>4. IsRun(h, bs, n + 1)
      BY <2>1, <2>2, <2>3 DEF IsRun
    <2> QED BY <2>4
  <1>3. P = Nat
    <2>1. P \subseteq Nat
      OBVIOUS
    <2> HIDE DEF P
    <2> QED BY <1>1, <1>2, <2>1, EveryNatural
  <1>4. Len(bs) \in Nat
    OBVIOUS
  <1>5. Len(bs) \in P
    BY <1>3, <1>4, Zenon
  <1> QED BY <1>4, <1>5

\* The checksum is the last one of a run.
LEMMA CrcIsRun ==
  ASSUME NEW bs \in Seq(Byte)
  PROVE  \E g : IsRun(g, bs, Len(bs)) /\ Crc16(bs) = g[Len(bs)]
  <1> DEFINE F(g) == [i \in 0 .. Len(bs) |->
                        IF i = 0 THEN 0 .. 15 ELSE CrcByte(g[i - 1], bs[i])]
             crc == CHOOSE g : g = F(g)
  <1>1. PICK g : IsRun(g, bs, Len(bs))
    BY RunExists
  <1>2. g = F(g)
    BY <1>1 DEF IsRun
  <1>3. crc = F(crc)
    BY <1>2
  <1>4. Crc16(bs) = crc[Len(bs)]
    BY DEF Crc16
  <1> HIDE DEF crc
  <1>5. Len(bs) \in Nat /\ DOMAIN crc = 0 .. Len(bs) /\ crc[0] = 0 .. 15
    BY <1>3
  <1>6. ASSUME NEW i \in 1 .. Len(bs) PROVE crc[i] = CrcByte(crc[i - 1], bs[i])
    <2>1. F(crc)[i] = CrcByte(crc[i - 1], bs[i])
      BY <1>5
    <2> HIDE DEF F
    <2> QED BY <1>3, <2>1
  <1> DEFINE P == {n \in Nat : n <= Len(bs) => crc[n] = g[n]}
  <1>7. 0 \in P
    BY <1>1, <1>5 DEF IsRun
  <1>8. ASSUME NEW n \in P PROVE n + 1 \in P
    <2> SUFFICES ASSUME n + 1 <= Len(bs) PROVE crc[n + 1] = g[n + 1]
      OBVIOUS
    <2>1. n + 1 \in 1 .. Len(bs) /\ (n + 1) - 1 = n /\ crc[n] = g[n]
      BY <1>5
    <2> QED BY <1>1, <1>6, <2>1 DEF IsRun
  <1>9. P = Nat
    <2>1. P \subseteq Nat
      OBVIOUS
    <2> HIDE DEF P
    <2> QED BY <1>7, <1>8, <2>1, EveryNatural
  <1>10. Len(bs) \in P
    BY <1>5, <1>9, Zenon
  <1>11. crc[Len(bs)] = g[Len(bs)]
    BY <1>5, <1>10
  <1> QED BY <1>1, <1>4, <1>11

\* A checksum is a word.
LEMMA CrcIsWord == ASSUME NEW bs \in Seq(Byte) PROVE Crc16(bs) \in Word
  <1>1. PICK g : IsRun(g, bs, Len(bs)) /\ Crc16(bs) = g[Len(bs)]
    BY CrcIsRun
  <1>2. Len(bs) \in 0 .. Len(bs)
    OBVIOUS
  <1> QED BY <1>1, <1>2 DEF IsRun

\* Sequences that differ in one byte have different checksums: the registers
\* agree up to that byte, differ behind it, and no later byte can make them
\* agree again.
LEMMA OneByteMatters ==
  ASSUME NEW s \in Seq(Byte), NEW t \in Seq(Byte), Len(s) = Len(t),
         NEW k \in 1 .. Len(s), s[k] # t[k],
         \A i \in 1 .. Len(s) : i # k => s[i] = t[i]
  PROVE  Crc16(s) # Crc16(t)
  <1>1. PICK g : IsRun(g, s, Len(s)) /\ Crc16(s) = g[Len(s)]
    BY CrcIsRun
  <1>2. PICK h : IsRun(h, t, Len(s)) /\ Crc16(t) = h[Len(s)]
    BY CrcIsRun
  <1>3. Len(s) \in Nat /\ k \in Nat /\ \A i \in 1 .. Len(s) : s[i] \in Byte /\ t[i] \in Byte
    OBVIOUS
  <1>4. \A i \in 0 .. Len(s) : g[i] \in Word /\ h[i] \in Word
    BY <1>1, <1>2 DEF IsRun
  <1> DEFINE P == {n \in Nat : n <= Len(s) => (g[n] = h[n] <=> n < k)}
  <1>5. 0 \in P
    <2>1. g[0] = h[0]
      BY <1>1, <1>2 DEF IsRun
    <2>2. 0 < k
      OBVIOUS
    <2> QED BY <2>1, <2>2
  <1>6. ASSUME NEW n \in P PROVE n + 1 \in P
    <2> SUFFICES ASSUME n + 1 <= Len(s) PROVE g[n + 1] = h[n + 1] <=> n + 1 < k
      OBVIOUS
    <2>1. n \in Nat /\ n + 1 \in 1 .. Len(s) /\ (n + 1) - 1 = n /\ n \in 0 .. Len(s)
          /\ (g[n] = h[n] <=> n < k)
      BY <1>3
    <2>2. /\ g[n + 1] = CrcByte(g[n], s[n + 1])
          /\ h[n + 1] = CrcByte(h[n], t[n + 1])
      BY <1>1, <1>2, <2>1 DEF IsRun
    <2>3. s[n + 1] \in Byte /\ t[n + 1] \in Byte /\ g[n] \in Word /\ h[n] \in Word
      BY <1>3, <1>4, <2>1
    <2>4. n + 1 = k \/ s[n + 1] = t[n + 1]
      BY <2>1
    <2>5. CASE n + 1 = k
      <3>1. n < k /\ ~(n + 1 < k)
        BY <2>1, <2>5
      <3>2. g[n] = h[n] /\ s[n + 1] # t[n + 1]
        BY <2>1, <2>5, <3>1
      <3>3. CrcByte(g[n], s[n + 1]) # CrcByte(h[n], t[n + 1])
        BY <2>3, <3>2, CrcByteInjective
      <3> QED BY <2>2, <3>1, <3>3
    <2>6. CASE n + 1 < k
      BY <2>1, <2>2, <2>4, <2>6
    <2>7. CASE n + 1 > k
      <3>1. ~(n < k) /\ ~(n + 1 < k) /\ n + 1 # k
        BY <1>3, <2>1, <2>7
      <3>2. g[n] # h[n] /\ s[n + 1] = t[n + 1]
        BY <2>1, <2>4, <3>1
      <3>3. CrcByte(g[n], s[n + 1]) # CrcByte(h[n], t[n + 1])
        BY <2>3, <3>2, CrcByteInjective
      <3> QED BY <2>2, <3>1, <3>3
    <2> QED BY <1>3, <2>1, <2>5, <2>6, <2>7
  <1>7. P = Nat
    <2>1. P \subseteq Nat
      OBVIOUS
    <2> HIDE DEF P
    <2> QED BY <1>5, <1>6, <2>1, EveryNatural
  <1>8. Len(s) \in P
    BY <1>3, <1>7, Zenon
  <1> QED BY <1>1, <1>2, <1>3, <1>8

\* The bits of a number are those of a byte.
LEMMA BitsAreBytes == ASSUME NEW n PROVE Bits(n) \in Byte
  BY DEF Bits, Byte

\* Numbers of one byte with the same bits are the same.
LEMMA BitsInjective ==
  ASSUME NEW m \in 0 .. 255, NEW n \in 0 .. 255, Bits(m) = Bits(n)
  PROVE  m = n
  <1> DEFINE Bit(x, w) == (x \div w) % 2
  <1>0. m \in Nat /\ n \in Nat
    OBVIOUS
  <1>1. \A x \in Nat, w \in Nat \ {0} : Bit(x, w) \in {0, 1}
    <2> SUFFICES ASSUME NEW x \in Nat, NEW w \in Nat \ {0} PROVE Bit(x, w) \in {0, 1}
      OBVIOUS
    <2>1. x \div w \in Nat
      OBVIOUS
    <2> QED BY <2>1
  <1>2. ASSUME NEW i \in 0 .. 7 PROVE Bit(m, BitWeight[i + 1]) = Bit(n, BitWeight[i + 1])
    <2>1. BitWeight[i + 1] \in Nat \ {0}
      BY DEF BitWeight
    <2>2. Bit(m, BitWeight[i + 1]) = 1 <=> Bit(n, BitWeight[i + 1]) = 1
      BY DEF Bits
    <2> QED BY <1>0, <1>1, <2>1, <2>2
  <1>3. /\ Bit(m, 1) = Bit(n, 1) /\ Bit(m, 2) = Bit(n, 2) /\ Bit(m, 4) = Bit(n, 4)
        /\ Bit(m, 8) = Bit(n, 8) /\ Bit(m, 16) = Bit(n, 16) /\ Bit(m, 32) = Bit(n, 32)
        /\ Bit(m, 64) = Bit(n, 64) /\ Bit(m, 128) = Bit(n, 128)
    <2> HIDE DEF Bit
    <2> QED BY <1>2 DEF BitWeight
  <1> DEFINE D(x, w) == x \div w
  <1>4. ASSUME NEW x \in Nat
        PROVE  /\ D(x, 1) = 2 * D(x, 2) + Bit(x, 1)
               /\ D(x, 2) = 2 * D(x, 4) + Bit(x, 2)
               /\ D(x, 4) = 2 * D(x, 8) + Bit(x, 4)
               /\ D(x, 8) = 2 * D(x, 16) + Bit(x, 8)
               /\ D(x, 16) = 2 * D(x, 32) + Bit(x, 16)
               /\ D(x, 32) = 2 * D(x, 64) + Bit(x, 32)
               /\ D(x, 64) = 2 * D(x, 128) + Bit(x, 64)
               /\ D(x, 128) = 2 * D(x, 256) + Bit(x, 128)
    <2>1. D(x, 1) = 2 * D(x, 2) + Bit(x, 1)
      BY SMT
    <2>2. D(x, 2) = 2 * D(x, 4) + Bit(x, 2)
      BY SMT
    <2>3. D(x, 4) = 2 * D(x, 8) + Bit(x, 4)
      BY SMT
    <2>4. D(x, 8) = 2 * D(x, 16) + Bit(x, 8)
      BY SMT
    <2>5. D(x, 16) = 2 * D(x, 32) + Bit(x, 16)
      BY SMT
    <2>6. D(x, 32) = 2 * D(x, 64) + Bit(x, 32)
      BY SMT
    <2>7. D(x, 64) = 2 * D(x, 128) + Bit(x, 64)
      BY SMT
    <2>8. D(x, 128) = 2 * D(x, 256) + Bit(x, 128)
      BY SMT
    <2> HIDE DEF D, Bit
    <2> QED BY <2>1, <2>2, <2>3, <2>4, <2>5, <2>6, <2>7, <2>8
  <1>5. D(m, 256) = D(n, 256) /\ D(m, 1) = m /\ D(n, 1) = n
    OBVIOUS
  <1> HIDE DEF D, Bit
  <1>6. D(m, 128) = D(n, 128)
    BY <1>0, <1>3, <1>4, <1>5
  <1>7. D(m, 64) = D(n, 64)
    BY <1>0, <1>3, <1>4, <1>6
  <1>8. D(m, 32) = D(n, 32)
    BY <1>0, <1>3, <1>4, <1>7
  <1>9. D(m, 16) = D(n, 16)
    BY <1>0, <1>3, <1>4, <1>8
  <1>10. D(m, 8) = D(n, 8)
    BY <1>0, <1>3, <1>4, <1>9
  <1>11. D(m, 4) = D(n, 4)
    BY <1>0, <1>3, <1>4, <1>10
  <1>12. D(m, 2) = D(n, 2)
    BY <1>0, <1>3, <1>4, <1>11
  <1>13. D(m, 1) = D(n, 1)
    BY <1>0, <1>3, <1>4, <1>12
  <1> QED BY <1>5, <1>13

\* The word of a low and a high byte.
Joined(lo, hi) == lo \cup {i + 8 : i \in hi}

\* A word is put together from its bytes.
LEMMA JoinedBytes ==
  ASSUME NEW x \in Word
  PROVE  /\ x \cap 0 .. 7 \in Byte
         /\ {i - 8 : i \in x \ 0 .. 7} \in Byte
         /\ Joined(x \cap 0 .. 7, {i - 8 : i \in x \ 0 .. 7}) = x
  <1> DEFINE hi == {i - 8 : i \in x \ 0 .. 7}
  <1>1. x \cap 0 .. 7 \in Byte
    BY DEF Byte
  <1>2. hi \in Byte
    BY DEF Byte, Word
  <1>3. ASSUME NEW i \in x PROVE i \in Joined(x \cap 0 .. 7, hi)
    <2>1. i \in 0 .. 15
      BY DEF Word
    <2>2. CASE i \in 0 .. 7
      BY <2>2 DEF Joined
    <2>3. CASE i \notin 0 .. 7
      <3>1. i - 8 \in hi /\ i = (i - 8) + 8
        BY <2>1, <2>3
      <3> HIDE DEF hi
      <3> QED BY <3>1 DEF Joined
    <2> QED BY <2>2, <2>3
  <1>4. ASSUME NEW i \in Joined(x \cap 0 .. 7, hi) PROVE i \in x
    <2>1. CASE i \in x \cap 0 .. 7
      BY <2>1
    <2>2. CASE i \in {j + 8 : j \in hi}
      <3>1. PICK j \in hi : i = j + 8
        BY <2>2
      <3>2. PICK l \in x : j = l - 8
        BY <3>1
      <3>3. l \in Int
        <4>1. x \subseteq Int
          BY DEF Word
        <4> QED BY <3>2, <4>1
      <3> QED BY <3>1, <3>2, <3>3
    <2> QED BY <1>4, <2>1, <2>2 DEF Joined
  <1> HIDE DEF hi
  <1>5. Joined(x \cap 0 .. 7, hi) = x
    BY <1>3, <1>4, Zenon
  <1> QED BY <1>1, <1>2, <1>5 DEF hi

\* It is put together from no others.
LEMMA JoinedInjective ==
  ASSUME NEW a \in Byte, NEW b \in Byte, NEW c \in Byte, NEW d \in Byte,
         Joined(a, b) = Joined(c, d)
  PROVE  a = c /\ b = d
  <1>1. ASSUME NEW p \in Byte, NEW q \in Byte, NEW i \in 0 .. 7
        PROVE  (i \in p <=> i \in Joined(p, q)) /\ (i \in q <=> i + 8 \in Joined(p, q))
    <2>1. i \in Joined(p, q) => i \in p
      BY DEF Joined, Byte
    <2>2. i + 8 \in Joined(p, q) => i \in q
      <3> SUFFICES ASSUME i + 8 \in Joined(p, q) PROVE i \in q
        OBVIOUS
      <3>1. i + 8 \notin p
        BY DEF Byte
      <3>2. PICK j \in q : i + 8 = j + 8
        BY <3>1 DEF Joined
      <3>3. j \in Int
        BY DEF Byte
      <3> QED BY <3>2, <3>3
    <2>3. (i \in p => i \in Joined(p, q)) /\ (i \in q => i + 8 \in Joined(p, q))
      BY DEF Joined
    <2> QED BY <2>1, <2>2, <2>3
  <1>2. \A i \in 0 .. 7 : (i \in a <=> i \in c) /\ (i \in b <=> i \in d)
    BY <1>1
  <1> QED BY <1>2 DEF Byte

\* The frames that a codec for at most 255 bytes of payload takes.
Frames == [opcode : Byte, payload : {p \in Seq(Byte) : Len(p) <= MaximumPayload}]

\* What is on the line for a frame of n bytes of payload: the body, and the
\* checksum behind it.
Carries(e, frame, n) ==
  /\ n \in Nat /\ n = Len(frame.payload) /\ e \in Seq(Byte) /\ Len(e) = n + 7
  /\ e[1] = SyncWord[1] /\ e[2] = SyncWord[2] /\ e[3] = Bits(n) /\ e[4] = frame.opcode
  /\ \A i \in 1 .. n : e[4 + i] = frame.payload[i]
  /\ SubSeq(e, 1, n + 5) \in Seq(Byte) /\ Len(SubSeq(e, 1, n + 5)) = n + 5
  /\ \A i \in 1 .. n + 5 : SubSeq(e, 1, n + 5)[i] = e[i]
  /\ Joined(e[n + 6], e[n + 7]) = Crc16(SubSeq(e, 1, n + 5))

\* encode() lays the frame out like that.
LEMMA EncodedCarries ==
  ASSUME NEW frame \in Frames, NEW stale \in Byte
  PROVE  Carries(Encoded(frame, stale), frame, Len(frame.payload))
  <1> DEFINE e == Encoded(frame, stale)
             n == Len(frame.payload)
             p == frame.payload
             tail == <<Bits(n), frame.opcode>>
             head == SyncWord \o tail
             body == head \o p \o <<stale>>
             crc == Crc16(body)
             lo == crc \cap 0 .. 7
             hi == {i - 8 : i \in crc \ 0 .. 7}
  <1>1. p \in Seq(Byte) /\ n \in Nat /\ frame.opcode \in Byte
    BY DEF Frames
  <1>2. SyncWord \in Seq(Byte) /\ Len(SyncWord) = 2
    BY DEF SyncWord, Byte
  <1>3. Bits(n) \in Byte
    BY BitsAreBytes
  <1>n. n = Len(p)
    OBVIOUS
  <1> HIDE DEF n
  <1>t. tail \in Seq(Byte) /\ Len(tail) = 2 /\ tail[1] = Bits(n) /\ tail[2] = frame.opcode
    BY <1>1, <1>3
  <1> HIDE DEF tail
  <1>4. head \in Seq(Byte) /\ Len(head) = 4 /\ head[1] = SyncWord[1] /\ head[2] = SyncWord[2]
        /\ head[3] = Bits(n) /\ head[4] = frame.opcode
    <2>1. head \in Seq(Byte) /\ Len(head) = Len(SyncWord) + Len(tail)
          /\ \A i \in 1 .. Len(SyncWord) + Len(tail) :
               head[i] = IF i <= Len(SyncWord) THEN SyncWord[i] ELSE tail[i - Len(SyncWord)]
      BY <1>2, <1>t, ConcatProperties
    <2> HIDE DEF head
    <2> QED BY <1>2, <1>t, <2>1
  <1> HIDE DEF head, p
  <1>5. body \in Seq(Byte) /\ Len(body) = n + 5
        /\ (\A i \in 1 .. 4 : body[i] = head[i]) /\ (\A i \in 1 .. n : body[4 + i] = p[i])
    <2> DEFINE front == head \o p
    <2>1. front \in Seq(Byte) /\ Len(front) = n + 4
          /\ (\A i \in 1 .. 4 : front[i] = head[i]) /\ (\A i \in 1 .. n : front[4 + i] = p[i])
      <3>1. p \in Seq(Byte)
        BY <1>1 DEF p
      <3>2. front \in Seq(Byte) /\ Len(front) = Len(head) + Len(p)
            /\ \A i \in 1 .. Len(head) + Len(p) :
                 front[i] = IF i <= Len(head) THEN head[i] ELSE p[i - Len(head)]
        BY <1>4, <3>1, ConcatProperties
      <3> HIDE DEF front
      <3>3. ASSUME NEW i \in 1 .. n PROVE front[4 + i] = p[i]
        <4>1. 4 + i \in 1 .. Len(head) + Len(p) /\ ~(4 + i <= Len(head)) /\ (4 + i) - Len(head) = i
          BY <1>1, <1>4, <1>n
        <4> QED BY <3>2, <4>1
      <3> QED BY <1>1, <1>4, <1>n, <3>2, <3>3
    <2> HIDE DEF front
    <2>2. front \o <<stale>> \in Seq(Byte) /\ Len(front \o <<stale>>) = n + 5
          /\ \A i \in 1 .. n + 4 : (front \o <<stale>>)[i] = front[i]
      BY <1>1, <2>1
    <2>3. body = front \o <<stale>>
      BY DEF front
    <2> HIDE DEF body
    <2> QED BY <1>1, <2>1, <2>2, <2>3
  <1>6. crc \in Word
    BY <1>5, CrcIsWord
  <1> HIDE DEF crc, body
  <1>7. lo \in Byte /\ hi \in Byte /\ Joined(lo, hi) = crc
    BY <1>6, JoinedBytes
  <1>8. e = body \o <<lo, hi>>
    BY DEF Encoded, crc, body, head, tail, n, p
  <1> HIDE DEF lo, hi, e
  <1>9. e \in Seq(Byte) /\ Len(e) = n + 7 /\ (\A i \in 1 .. n + 5 : e[i] = body[i])
        /\ e[n + 6] = lo /\ e[n + 7] = hi
    <2> DEFINE z == <<lo, hi>>
    <2>1. z \in Seq(Byte) /\ Len(z) = 2 /\ z[1] = lo /\ z[2] = hi
      BY <1>7
    <2>2. e = body \o z
      BY <1>8
    <2> HIDE DEF z
    <2>3. body \in Seq(Byte) /\ Len(body) = n + 5 /\ n \in Nat
      BY <1>1, <1>5
    <2>4. e \in Seq(Byte) /\ Len(e) = Len(body) + Len(z)
          /\ \A i \in 1 .. Len(body) + Len(z) :
               e[i] = IF i <= Len(body) THEN body[i] ELSE z[i - Len(body)]
      BY <2>1, <2>2, <2>3, ConcatProperties
    <2>5. Len(body) + Len(z) = n + 7
      BY <2>1, <2>3
    <2>6. \A i \in 1 .. n + 5 : e[i] = body[i]
      <3>1. \A i \in 1 .. n + 5 : i \in 1 .. n + 7 /\ i <= n + 5
        BY <2>3
      <3> QED BY <2>3, <2>4, <2>5, <3>1
    <2>7. e[n + 6] = lo
      <3>1. n + 6 \in 1 .. n + 7 /\ ~(n + 6 <= n + 5) /\ (n + 6) - (n + 5) = 1
        BY <2>3
      <3> QED BY <2>1, <2>3, <2>4, <2>5, <3>1
    <2>8. e[n + 7] = hi
      <3>1. n + 7 \in 1 .. n + 7 /\ ~(n + 7 <= n + 5) /\ (n + 7) - (n + 5) = 2
        BY <2>3
      <3> QED BY <2>1, <2>3, <2>4, <2>5, <3>1
    <2> QED BY <2>4, <2>5, <2>6, <2>7, <2>8
  <1>10. SubSeq(e, 1, n + 5) = body
    <2>1. Len(SubSeq(e, 1, n + 5)) = n + 5 /\ SubSeq(e, 1, n + 5) \in Seq(Byte)
          /\ \A i \in 1 .. n + 5 : SubSeq(e, 1, n + 5)[i] = e[i]
      BY <1>1, <1>9
    <2> QED BY <1>5, <1>9, <2>1
  <1>11. Joined(e[n + 6], e[n + 7]) = Crc16(SubSeq(e, 1, n + 5))
    BY <1>7, <1>9, <1>10 DEF crc
  <1>12. e[1] = SyncWord[1] /\ e[2] = SyncWord[2] /\ e[3] = Bits(n) /\ e[4] = frame.opcode
    BY <1>1, <1>4, <1>5, <1>9
  <1>13. ASSUME NEW i \in 1 .. n PROVE e[4 + i] = p[i]
    <2>1. 4 + i \in 1 .. n + 5
      BY <1>1
    <2> QED BY <1>5, <1>9, <2>1
  <1>14. Carries(e, frame, n)
    BY <1>1, <1>5, <1>9, <1>10, <1>11, <1>12, <1>13, <1>n DEF Carries, p
  <1> QED BY <1>14 DEF e, n

\* The first two bytes of a frame, compared.
LEMMA SyncCompared ==
  ASSUME NEW s \in Seq(Byte), Len(s) >= 2
  PROVE  SubSeq(s, 1, 2) = SyncWord <=> s[1] = SyncWord[1] /\ s[2] = SyncWord[2]
  <1>1. SubSeq(s, 1, 2) \in Seq(Byte) /\ Len(SubSeq(s, 1, 2)) = 2
        /\ SubSeq(s, 1, 2)[1] = s[1] /\ SubSeq(s, 1, 2)[2] = s[2]
    OBVIOUS
  <1>2. SyncWord \in Seq(Byte) /\ Len(SyncWord) = 2
    BY DEF SyncWord, Byte
  <1> QED BY <1>1, <1>2

\* An intact frame decodes to itself.
LEMMA IntactDecodes ==
  ASSUME NEW frame \in Frames, NEW stale \in Byte, MaximumPayload \in Nat, MaximumPayload <= 255
  PROVE  Decoded(Encoded(frame, stale)) = [status |-> "ok", frame |-> frame]
  <1> DEFINE e == Encoded(frame, stale)
             n == Len(frame.payload)
  <1>0. Carries(e, frame, n)
    BY EncodedCarries
  <1>2. frame.payload \in Seq(Byte) /\ n <= MaximumPayload /\ n <= 255
        /\ frame = [opcode |-> frame.opcode, payload |-> frame.payload]
    BY DEF Frames
  <1> HIDE DEF e, n
  <1>1. /\ n \in Nat /\ n = Len(frame.payload) /\ e \in Seq(Byte) /\ Len(e) = n + 7
        /\ e[1] = SyncWord[1] /\ e[2] = SyncWord[2] /\ e[3] = Bits(n) /\ e[4] = frame.opcode
        /\ \A i \in 1 .. n : e[4 + i] = frame.payload[i]
        /\ Joined(e[n + 6], e[n + 7]) = Crc16(SubSeq(e, 1, n + 5))
    BY <1>0 DEF Carries
  <1>3. SubSeq(e, 1, 2) = SyncWord
    BY <1>1, SyncCompared
  <1>4. CrcHolds(e)
    <2>1. Len(e) - CrcSize = n + 5 /\ Len(e) - 1 = n + 6
      BY <1>1 DEF CrcSize
    <2> QED BY <1>1, <2>1 DEF CrcHolds, Joined
  <1>5. SubSeq(e, 5, 4 + n) = frame.payload
    <2>1. SubSeq(e, 5, 4 + n) \in Seq(Byte) /\ Len(SubSeq(e, 5, 4 + n)) = n
          /\ \A i \in 1 .. n : SubSeq(e, 5, 4 + n)[i] = e[4 + i]
      BY <1>1
    <2>2. \A i \in 1 .. n : SubSeq(e, 5, 4 + n)[i] = frame.payload[i]
      BY <1>1, <2>1
    <2> QED BY <1>1, <1>2, <2>1, <2>2, SeqEqual
  <1>6. Len(e) - HeaderSize - CrcSize = n
    BY <1>1 DEF HeaderSize, CrcSize
  <1>7. Decoded(e) = [status |-> "ok", frame |-> [opcode |-> e[4], payload |-> SubSeq(e, 5, 4 + n)]]
    <2>1. ~(n < 0) /\ ~(n > MaximumPayload) /\ ~(n > 255)
      BY <1>1, <1>2
    <2> QED BY <1>1, <1>3, <1>4, <1>6, <2>1, Zenon DEF Decoded
  <1> QED BY <1>1, <1>2, <1>5, <1>7 DEF e

\* The beginning of a sequence.
LEMMA PrefixOf ==
  ASSUME NEW S, NEW s \in Seq(S), NEW n \in Nat, n <= Len(s)
  PROVE  /\ SubSeq(s, 1, n) \in Seq(S) /\ Len(SubSeq(s, 1, n)) = n
         /\ \A i \in 1 .. n : SubSeq(s, 1, n)[i] = s[i]
  OBVIOUS

\* A frame in which one byte was disturbed is refused.
LEMMA DisturbedRefused ==
  ASSUME NEW frame \in Frames, NEW stale \in Byte, MaximumPayload \in Nat, MaximumPayload <= 255,
         NEW e, e = Encoded(frame, stale),
         NEW k \in DOMAIN e, NEW mask \in Byte, mask # {},
         NEW d, d = [e EXCEPT ![k] = Xor(@, mask)]
  PROVE  Decoded(d).status # "ok"
  <1> DEFINE n == Len(frame.payload)
             s == SubSeq(e, 1, n + 5)
             t == SubSeq(d, 1, n + 5)
  <1>1. /\ n \in Nat /\ e \in Seq(Byte) /\ Len(e) = n + 7
        /\ e[1] = SyncWord[1] /\ e[2] = SyncWord[2] /\ e[3] = Bits(n)
        /\ s \in Seq(Byte) /\ Len(s) = n + 5 /\ \A i \in 1 .. n + 5 : s[i] = e[i]
        /\ Joined(e[n + 6], e[n + 7]) = Crc16(s)
    BY EncodedCarries DEF Carries
  <1> HIDE DEF n, s
  <1>2. k \in 1 .. n + 7 /\ e[k] \in Byte
    BY <1>1
  <1>3. Xor(e[k], mask) \in Byte /\ Xor(e[k], mask) # e[k]
    <2>1. Xor(e[k], mask) # e[k]
      BY DEF Xor
    <2> QED BY <1>2, <2>1, XorBytes
  <1>4. d \in Seq(Byte) /\ Len(d) = n + 7 /\ d[k] \in Byte /\ d[k] # e[k]
        /\ \A i \in 1 .. n + 7 : i # k => d[i] = e[i]
    BY <1>1, <1>2, <1>3
  <1>5. t \in Seq(Byte) /\ Len(t) = n + 5 /\ \A i \in 1 .. n + 5 : t[i] = d[i]
    <2>1. d \in Seq(Byte) /\ Len(d) = n + 7 /\ n \in Nat
      BY <1>1, <1>4
    <2>2. n + 5 \in Nat /\ n + 5 <= Len(d)
      BY <2>1
    <2> QED BY <2>1, <2>2, PrefixOf
  <1> HIDE DEF t
  <1>6. Len(d) - HeaderSize - CrcSize = n /\ n >= 0
    BY <1>1, <1>4 DEF HeaderSize, CrcSize
  <1>7. CrcHolds(d) <=> Crc16(t) = Joined(d[n + 6], d[n + 7])
    <2>1. Len(d) - CrcSize = n + 5 /\ Len(d) - 1 = n + 6
      BY <1>1, <1>4 DEF CrcSize
    <2> QED BY <1>4, <2>1 DEF CrcHolds, Joined, t
  <1>8. CASE k \in 1 .. 2
    <2>1. SubSeq(d, 1, 2) # SyncWord
      BY <1>1, <1>4, <1>8, SyncCompared
    <2> QED BY <1>6, <2>1 DEF Decoded, Failure
  <1>9. CASE k = 3
    <2>1. d[3] # Bits(n)
      BY <1>1, <1>4, <1>9
    <2> QED BY <1>6, <2>1 DEF Decoded, Failure
  <1>10. CASE k \in 4 .. n + 5
    <2>1. k \in 1 .. Len(s) /\ s[k] # t[k] /\ \A i \in 1 .. Len(s) : i # k => s[i] = t[i]
      BY <1>1, <1>4, <1>5, <1>10
    <2>2. Crc16(s) # Crc16(t)
      BY <1>1, <1>5, <2>1, OneByteMatters
    <2>3. d[n + 6] = e[n + 6] /\ d[n + 7] = e[n + 7]
      BY <1>1, <1>4, <1>10
    <2>4. ~CrcHolds(d)
      BY <1>1, <1>7, <2>2, <2>3
    <2> QED BY <1>6, <2>4 DEF Decoded, Failure
  <1>11. CASE k \in n + 6 .. n + 7
    <2>1. \A i \in 1 .. n + 5 : s[i] = t[i]
      BY <1>1, <1>4, <1>5, <1>11
    <2>2. s = t
      BY <1>1, <1>5, <2>1
    <2>3. d[n + 6] # e[n + 6] \/ d[n + 7] # e[n + 7]
      BY <1>1, <1>4, <1>11
    <2>4. d[n + 6] \in Byte /\ d[n + 7] \in Byte /\ e[n + 6] \in Byte /\ e[n + 7] \in Byte
      BY <1>1, <1>4
    <2>5. ~CrcHolds(d)
      BY <1>1, <1>7, <2>2, <2>3, <2>4, JoinedInjective
    <2> QED BY <1>6, <2>5 DEF Decoded, Failure
  <1> QED BY <1>1, <1>2, <1>8, <1>9, <1>10, <1>11

\* A frame that lost its end is refused.
LEMMA TruncatedRefused ==
  ASSUME NEW frame \in Frames, NEW stale \in Byte, MaximumPayload \in Nat, MaximumPayload <= 255,
         NEW e, e = Encoded(frame, stale), NEW m \in 0 .. Len(e) - 1,
         NEW d, d = SubSeq(e, 1, m)
  PROVE  Decoded(d).status # "ok"
  <1> DEFINE n == Len(frame.payload)
  <1>1. n \in Nat /\ e \in Seq(Byte) /\ Len(e) = n + 7 /\ e[3] = Bits(n)
    BY EncodedCarries DEF Carries
  <1>2. n <= 255
    BY DEF Frames
  <1> HIDE DEF n
  <1>3. Len(d) = m /\ m \in Nat
    BY <1>1
  <1>4. Len(d) - HeaderSize - CrcSize = m - 7
    BY <1>3 DEF HeaderSize, CrcSize
  <1>5. CASE m < 7
    BY <1>3, <1>4, <1>5 DEF Decoded, Failure
  <1>6. CASE m >= 7
    <2>1. d[3] = e[3]
      BY <1>1, <1>3, <1>6
    <2>2. m - 7 \in 0 .. 255 /\ n \in 0 .. 255 /\ m - 7 # n
      BY <1>1, <1>2, <1>3, <1>6
    <2>3. d[3] # Bits(m - 7)
      BY <1>1, <2>1, <2>2, BitsInjective
    <2> QED BY <1>3, <1>4, <2>3 DEF Decoded, Failure
  <1> QED BY <1>3, <1>5, <1>6

\* What the line can make of the bytes e.
Disturbed(e) ==
  {[e EXCEPT ![k] = Xor(@, mask)] : k \in DOMAIN e, mask \in Masks}
    \cup {SubSeq(e, 1, n) : n \in 0 .. Len(e) - 1}

\* The inductive invariant: the bytes are those of the frame that was sent,
\* disturbed or not, and what was decoded was decoded from them.
FrameInv ==
  /\ intact \in BOOLEAN
  /\ wire # <<>> \/ ~intact =>
       /\ sent \in Frames
       /\ \E stale \in StaleBytes :
            IF intact THEN wire = Encoded(sent, stale)
                      ELSE wire \in Disturbed(Encoded(sent, stale))
  /\ decoded.status # "none" => decoded = Decoded(wire) /\ (wire # <<>> \/ ~intact)

\* Each action preserves it.
LEMMA FrameStep ==
  ASSUME FrameInv, [FrameNext]_frameVars PROVE FrameInv'
  <1>0. /\ MaximumPayload \in Nat /\ Opcodes \subseteq Byte /\ PayloadBytes \subseteq Byte
    BY FrameAssumption DEF Byte
  <1>1. ASSUME NEW opcode \in Opcodes, NEW n \in 0 .. MaximumPayload, NEW stale \in StaleBytes,
               NEW payload \in [1 .. n -> PayloadBytes],
               Encode([opcode |-> opcode, payload |-> payload], stale)
        PROVE  FrameInv'
    <2> DEFINE frame == [opcode |-> opcode, payload |-> payload]
    <2>1. frame \in Frames
      <3>1. payload \in Seq(Byte) /\ Len(payload) = n
        BY <1>0
      <3> QED BY <1>0, <3>1 DEF Frames
    <2>2. sent' = frame /\ wire' = Encoded(frame, stale) /\ intact' = intact
          /\ decoded' = decoded /\ intact /\ decoded.status = "none"
      BY <1>1 DEF Encode
    <2> HIDE DEF frame
    <2>3. intact' \in BOOLEAN
      BY <2>2 DEF FrameInv
    <2> QED BY <2>1, <2>2, <2>3 DEF FrameInv
  <1>2. CASE Disturb
    <2>1. wire # <<>> /\ intact /\ decoded.status = "none" /\ intact' = FALSE
          /\ sent' = sent /\ decoded' = decoded
      BY <1>2 DEF Disturb
    <2>2. PICK stale \in StaleBytes : wire = Encoded(sent, stale)
      BY <2>1 DEF FrameInv
    <2>3. wire' \in Disturbed(wire)
      BY <1>2 DEF Disturb, Disturbed
    <2>4. sent \in Frames
      BY <2>1 DEF FrameInv
    <2>5. wire' \in Disturbed(Encoded(sent, stale))
      BY <2>2, <2>3
    <2> QED BY <2>1, <2>4, <2>5 DEF FrameInv
  <1>3. CASE Decode
    BY <1>3 DEF Decode, FrameInv
  <1>4. CASE Again
    BY <1>4 DEF Again, Failure, FrameInv
  <1>5. CASE UNCHANGED frameVars
    BY <1>5 DEF frameVars, FrameInv
  <1> QED BY <1>1, <1>2, <1>3, <1>4, <1>5 DEF FrameNext

\* decode() gives back every frame that encode() wrote and the line left
\* alone, and refuses every frame in which one byte was changed, in whatever
\* bits, or whose end is missing.  For payloads of at most 255 bytes, the
\* longest that the length byte can count.
THEOREM FrameSurvivesHolds ==
  ASSUME MaximumPayload <= 255 PROVE FrameSpec => []FrameSurvives
  <1>1. FrameInit => FrameInv
    BY DEF FrameInit, FrameInv, Failure
  <1>2. FrameInv /\ [FrameNext]_frameVars => FrameInv'
    BY FrameStep
  <1>3. FrameInv => FrameSurvives
    <2> SUFFICES ASSUME FrameInv, decoded.status # "none"
                 PROVE  IF intact THEN decoded = [status |-> "ok", frame |-> sent]
                                  ELSE decoded.status # "ok"
      BY DEF FrameSurvives
    <2>0. MaximumPayload \in Nat /\ StaleBytes \subseteq Byte /\ Masks \subseteq Byte /\ {} \notin Masks
      BY FrameAssumption DEF Byte
    <2>1. decoded = Decoded(wire) /\ sent \in Frames
      BY DEF FrameInv
    <2>2. PICK stale \in StaleBytes : IF intact THEN wire = Encoded(sent, stale)
                                      ELSE wire \in Disturbed(Encoded(sent, stale))
      BY DEF FrameInv
    <2>3. stale \in Byte
      BY <2>0
    <2>4. CASE intact
      BY <2>0, <2>1, <2>2, <2>3, <2>4, IntactDecodes
    <2>5. CASE ~intact
      <3> DEFINE e == Encoded(sent, stale)
      <3>1. wire \in Disturbed(e)
        BY <2>2, <2>5
      <3>2. CASE \E k \in DOMAIN e, mask \in Masks : wire = [e EXCEPT ![k] = Xor(@, mask)]
        <4>1. PICK k \in DOMAIN e, mask \in Masks : wire = [e EXCEPT ![k] = Xor(@, mask)]
          BY <3>2
        <4>2. mask \in Byte /\ mask # {}
          BY <2>0
        <4>3. Decoded(wire).status # "ok"
          <5> HIDE DEF e
          <5>1. e = Encoded(sent, stale)
            BY DEF e
          <5> QED BY <2>0, <2>1, <2>3, <4>1, <4>2, <5>1, DisturbedRefused
        <4> QED BY <2>1, <2>5, <4>3
      <3>3. CASE \E n \in 0 .. Len(e) - 1 : wire = SubSeq(e, 1, n)
        <4>1. PICK n \in 0 .. Len(e) - 1 : wire = SubSeq(e, 1, n)
          BY <3>3
        <4>2. Decoded(wire).status # "ok"
          BY <2>0, <2>1, <2>3, <4>1, TruncatedRefused
        <4> QED BY <2>1, <2>5, <4>2
      <3> QED BY <3>1, <3>2, <3>3 DEF Disturbed
    <2> QED BY <2>4, <2>5
  <1> QED BY <1>1, <1>2, <1>3, PTL DEF FrameSpec

-----------------------------------------------------------------------------
\* JsonDocument.

\* The characters that stand for one of a string.
EscapedChar(c) == IF c \in {Quote, Backslash} THEN <<Backslash, c>> ELSE <<c>>

\* They are one or two characters.
LEMMA EscapedCharType == ASSUME NEW c \in Characters
  PROVE  EscapedChar(c) \in Seq(Characters) /\ Len(EscapedChar(c)) \in {1, 2}
  <1>1. Backslash \in Characters
    BY JsonAssumption
  <1> QED BY <1>1 DEF EscapedChar

\* The escaped prefixes of a string.
IsEscaping(g, s) ==
  /\ g \in [0 .. Len(s) -> Seq(Characters)]
  /\ g[0] = <<>>
  /\ \A i \in 1 .. Len(s) : g[i] = g[i - 1] \o EscapedChar(s[i])
  /\ Escaped(s) = g[Len(s)]

\* Escaped() builds them, one character at a time.
LEMMA EscapingExists ==
  ASSUME NEW s \in Seq(Characters) PROVE \E g : IsEscaping(g, s)
  <1> DEFINE n == Len(s)
             prev == [i \in 1 .. n |-> i - 1]
             grow == [i \in 1 .. n |-> [v \in Seq(Characters) |-> v \o EscapedChar(s[i])]]
             F(g) == [i \in 0 .. n |-> IF i = 0 THEN <<>> ELSE g[i - 1] \o EscapedChar(s[i])]
             escaped == CHOOSE g : g = F(g)
  <1>1. n \in Nat /\ \A i \in 1 .. n : s[i] \in Characters
    OBVIOUS
  <1>2. prev \in [1 .. n -> Nat] /\ \A i \in 1 .. n : prev[i] < i
    BY <1>1
  <1>3. grow \in [1 .. n -> [Seq(Characters) -> Seq(Characters)]]
    <2> SUFFICES ASSUME NEW i \in 1 .. n, NEW v \in Seq(Characters)
                 PROVE  v \o EscapedChar(s[i]) \in Seq(Characters)
      OBVIOUS
    <2> QED BY <1>1, EscapedCharType
  <1>4. <<>> \in Seq(Characters)
    OBVIOUS
  <1>5. PICK g : /\ g \in [0 .. n -> Seq(Characters)] /\ g[0] = <<>>
                 /\ \A i \in 1 .. n : g[i] = grow[i][g[prev[i]]]
    <2> HIDE DEF grow, prev, n
    <2>1. Recursive(n, Seq(Characters), <<>>, prev, grow)
      BY <1>1, <1>2, <1>3, <1>4 DEF Recursive
    <2> QED BY <2>1, Recursion DEF Solution
  <1>6. \A i \in 1 .. n : g[i] = g[i - 1] \o EscapedChar(s[i])
    <2> SUFFICES ASSUME NEW i \in 1 .. n PROVE g[i] = g[i - 1] \o EscapedChar(s[i])
      OBVIOUS
    <2>1. prev[i] = i - 1 /\ g[i - 1] \in Seq(Characters)
      BY <1>1, <1>5
    <2>2. grow[i][g[i - 1]] = g[i - 1] \o EscapedChar(s[i])
      BY <2>1
    <2> QED BY <1>5, <2>1, <2>2
  <1>7. g = F(g)
    <2>1. ASSUME NEW i \in 0 .. n
          PROVE  g[i] = IF i = 0 THEN <<>> ELSE g[i - 1] \o EscapedChar(s[i])
      <3>1. i # 0 => i \in 1 .. n
        BY <1>1
      <3> QED BY <1>5, <1>6, <3>1
    <2> QED BY <1>5, <2>1
  <1>8. escaped = F(escaped)
    BY <1>7
  <1>9. Escaped(s) = escaped[n]
    BY DEF Escaped, EscapedChar
  <1> HIDE DEF escaped
  <1>10. escaped[0] = g[0]
    BY <1>1, <1>5, <1>8
  <1>11. ASSUME NEW i \in 1 .. n PROVE escaped[i] = escaped[i - 1] \o EscapedChar(s[i])
    <2>1. F(escaped)[i] = escaped[i - 1] \o EscapedChar(s[i])
      BY <1>1
    <2> HIDE DEF F
    <2> QED BY <1>8, <2>1
  <1>12. \A i \in 0 .. n : escaped[i] = g[i]
    <2>1. ASSUME NEW i \in 1 .. n, escaped[prev[i]] = g[prev[i]] PROVE escaped[i] = g[i]
      BY <1>6, <1>11, <2>1
    <2> HIDE DEF prev, n, F
    <2>2. Agree(n, prev, escaped, g)
      BY <1>1, <1>2, <1>10, <2>1 DEF Agree
    <2> QED BY <2>2, RecursionUnique
  <1>13. n \in 0 .. n
    BY <1>1
  <1>14. IsEscaping(g, s)
    BY <1>5, <1>6, <1>9, <1>12, <1>13 DEF IsEscaping
  <1> QED BY <1>14

\* The characters that are digits.
DigitChars == ToSet(Digits)

\* The digits are ten different characters.
LEMMA DigitsDistinct ==
  /\ Len(Digits) = 10
  /\ DigitChars = {Digits[d + 1] : d \in 0 .. 9}
  /\ \A d \in 0 .. 9, e \in 0 .. 9 : Digits[d + 1] = Digits[e + 1] => d = e
  <1>1. Len(Digits) = 10 /\ DOMAIN Digits = 1 .. 10
    BY DEF Digits
  <1>2. DigitChars = {Digits[d + 1] : d \in 0 .. 9}
    <2>1. DigitChars = {Digits[d] : d \in 1 .. 10}
      BY <1>1 DEF DigitChars, ToSet
    <2>2. \A d \in 1 .. 10 : d - 1 \in 0 .. 9 /\ (d - 1) + 1 = d
      OBVIOUS
    <2>3. \A d \in 0 .. 9 : d + 1 \in 1 .. 10
      OBVIOUS
    <2> QED BY <2>1, <2>2, <2>3
  <1>3. ASSUME NEW d \in 0 .. 9, NEW e \in 0 .. 9, Digits[d + 1] = Digits[e + 1] PROVE d = e
    BY <1>3 DEF Digits
  <1> QED BY <1>1, <1>2, <1>3

\* DigitValue() finds the digit.
LEMMA DigitValues ==
  /\ \A c \in DigitChars : DigitValue(c) \in 0 .. 9 /\ Digits[DigitValue(c) + 1] = c
  /\ \A d \in 0 .. 9 : Digits[d + 1] \in DigitChars /\ DigitValue(Digits[d + 1]) = d
  <1>1. ASSUME NEW c \in DigitChars
        PROVE  DigitValue(c) \in 0 .. 9 /\ Digits[DigitValue(c) + 1] = c
    <2>1. \E d \in 0 .. 9 : Digits[d + 1] = c
      BY DigitsDistinct
    <2> QED BY <2>1 DEF DigitValue
  <1>2. ASSUME NEW d \in 0 .. 9
        PROVE  Digits[d + 1] \in DigitChars /\ DigitValue(Digits[d + 1]) = d
    <2>1. Digits[d + 1] \in DigitChars
      BY DigitsDistinct
    <2> QED BY <1>1, <2>1, DigitsDistinct
  <1> QED BY <1>1, <1>2

\* The numbers that the prefixes of a sequence of digits stand for.
IsNumbering(g, s) ==
  /\ g \in [0 .. Len(s) -> Nat]
  /\ g[0] = 0
  /\ \A i \in 1 .. Len(s) : g[i] = 10 * g[i - 1] + DigitValue(s[i])
  /\ Number(s) = g[Len(s)]

\* Number() builds them, one digit at a time.
LEMMA NumberingExists ==
  ASSUME NEW s \in Seq(DigitChars) PROVE \E g : IsNumbering(g, s)
  <1> DEFINE n == Len(s)
             prev == [i \in 1 .. n |-> i - 1]
             grow == [i \in 1 .. n |-> [v \in Nat |-> 10 * v + DigitValue(s[i])]]
             F(g) == [i \in 0 .. n |-> IF i = 0 THEN 0 ELSE 10 * g[i - 1] + DigitValue(s[i])]
             number == CHOOSE g : g = F(g)
  <1>1. n \in Nat /\ \A i \in 1 .. n : DigitValue(s[i]) \in Nat
    BY DigitValues
  <1>2. prev \in [1 .. n -> Nat] /\ \A i \in 1 .. n : prev[i] < i
    BY <1>1
  <1>3. grow \in [1 .. n -> [Nat -> Nat]]
    BY <1>1
  <1>5. PICK g : /\ g \in [0 .. n -> Nat] /\ g[0] = 0
                 /\ \A i \in 1 .. n : g[i] = grow[i][g[prev[i]]]
    <2> HIDE DEF grow, prev, n
    <2>1. Recursive(n, Nat, 0, prev, grow)
      BY <1>1, <1>2, <1>3 DEF Recursive
    <2> QED BY <2>1, Recursion DEF Solution
  <1>6. \A i \in 1 .. n : g[i] = 10 * g[i - 1] + DigitValue(s[i])
    <2> SUFFICES ASSUME NEW i \in 1 .. n PROVE g[i] = 10 * g[i - 1] + DigitValue(s[i])
      OBVIOUS
    <2>0. i - 1 \in 0 .. n /\ prev[i] = i - 1
      BY <1>1
    <2>1. prev[i] = i - 1 /\ g[i - 1] \in Nat
      BY <1>5, <2>0
    <2>2. grow[i][g[i - 1]] = 10 * g[i - 1] + DigitValue(s[i])
      BY <2>1
    <2> QED BY <1>5, <2>1, <2>2
  <1>7. g = F(g)
    <2>1. ASSUME NEW i \in 0 .. n
          PROVE  g[i] = IF i = 0 THEN 0 ELSE 10 * g[i - 1] + DigitValue(s[i])
      <3>1. i # 0 => i \in 1 .. n
        BY <1>1
      <3> QED BY <1>5, <1>6, <3>1
    <2> QED BY <1>5, <2>1
  <1>8. number = F(number)
    BY <1>7
  <1>9. Number(s) = number[n]
    BY DEF Number
  <1> HIDE DEF number
  <1>10. number[0] = g[0]
    BY <1>1, <1>5, <1>8
  <1>11. ASSUME NEW i \in 1 .. n PROVE number[i] = 10 * number[i - 1] + DigitValue(s[i])
    <2>1. F(number)[i] = 10 * number[i - 1] + DigitValue(s[i])
      BY <1>1
    <2> HIDE DEF F
    <2> QED BY <1>8, <2>1
  <1>12. \A i \in 0 .. n : number[i] = g[i]
    <2>1. ASSUME NEW i \in 1 .. n, number[prev[i]] = g[prev[i]] PROVE number[i] = g[i]
      BY <1>6, <1>11, <2>1
    <2> HIDE DEF prev, n, F
    <2>2. Agree(n, prev, number, g)
      BY <1>1, <1>2, <1>10, <2>1 DEF Agree
    <2> QED BY <2>2, RecursionUnique
  <1>13. n \in 0 .. n
    BY <1>1
  <1>14. IsNumbering(g, s)
    BY <1>5, <1>6, <1>9, <1>12, <1>13 DEF IsNumbering
  <1> QED BY <1>14

\* One more digit.
LEMMA NumberAppend ==
  ASSUME NEW s \in Seq(DigitChars), NEW c \in DigitChars, NEW t, t = s \o <<c>>
  PROVE  Number(t) = 10 * Number(s) + DigitValue(c) /\ Number(s) \in Nat
  <1> DEFINE n == Len(s)
             prev == [i \in 1 .. n |-> i - 1]
  <1>1. n \in Nat /\ t \in Seq(DigitChars) /\ Len(t) = n + 1 /\ t[n + 1] = c
        /\ \A i \in 1 .. n : t[i] = s[i]
    OBVIOUS
  <1>2. PICK g : IsNumbering(g, s)
    BY NumberingExists
  <1>3. PICK h : IsNumbering(h, t)
    BY <1>1, NumberingExists
  <1>4. \A i \in 0 .. n : h[i] = g[i]
    <2>1. prev \in [1 .. n -> Nat] /\ \A i \in 1 .. n : prev[i] < i
      BY <1>1
    <2>2. ASSUME NEW i \in 1 .. n, h[prev[i]] = g[prev[i]] PROVE h[i] = g[i]
      <3>1. i \in 1 .. Len(t) /\ prev[i] = i - 1
        BY <1>1
      <3>2. h[i] = 10 * h[i - 1] + DigitValue(t[i])
        BY <1>3, <3>1 DEF IsNumbering
      <3>3. g[i] = 10 * g[i - 1] + DigitValue(s[i])
        BY <1>2 DEF IsNumbering
      <3> QED BY <1>1, <2>2, <3>1, <3>2, <3>3
    <2>3. h[0] = g[0]
      BY <1>2, <1>3 DEF IsNumbering
    <2>4. Agree(n, prev, h, g)
      <3> HIDE DEF prev, n
      <3> QED BY <1>1, <2>1, <2>2, <2>3 DEF Agree
    <2> QED BY <2>4, RecursionUnique
  <1>5. h[n + 1] = 10 * h[n] + DigitValue(c)
    <2>1. n + 1 \in 1 .. Len(t) /\ (n + 1) - 1 = n
      BY <1>1
    <2> QED BY <1>1, <1>3, <2>1 DEF IsNumbering
  <1>6. n \in 0 .. n
    BY <1>1
  <1>7. g[n] \in Nat
    BY <1>2, <1>6 DEF IsNumbering
  <1>8. Number(t) = h[n + 1] /\ Number(s) = g[n] /\ h[n] = g[n]
    BY <1>1, <1>2, <1>3, <1>4, <1>6 DEF IsNumbering
  <1> QED BY <1>5, <1>7, <1>8

\* Checked before each digit, the accumulated number is refused exactly when it
\* would pass U32Max.
LEMMA DigitFits ==
  ASSUME NEW n \in Nat, NEW d \in 0 .. 9
  PROVE  (n <= U32Max /\ n <= (U32Max - d) \div 10) <=> 10 * n + d <= U32Max
  <1>1. U32Max \in Nat
    BY JsonAssumption
  <1>2. U32Max - d \in Int
    BY <1>1
  <1> DEFINE q == (U32Max - d) \div 10
  <1>3. q \in Int /\ 10 * q <= U32Max - d /\ U32Max - d < 10 * q + 10
    BY <1>2
  <1> HIDE DEF q
  <1>4. n <= q <=> 10 * n + d <= U32Max
    BY <1>1, <1>3
  <1>5. 10 * n + d <= U32Max => n <= U32Max
    BY <1>1
  <1> QED BY <1>4, <1>5 DEF q

\* The scanner's number is the number the digits stand for, or none at all when
\* that does not fit in 32 bits.
LEMMA ParsedIsNumber ==
  ASSUME NEW s \in Seq(DigitChars)
  PROVE  Parsed(s) = {Number(s)} \cap 0 .. U32Max
  <1> DEFINE n == Len(s)
             prev == [i \in 1 .. n |-> i - 1]
             Next10(v, d) == {10 * k + d : k \in {m \in v : m <= (U32Max - d) \div 10}}
             F(g) == [i \in 0 .. n |-> IF i = 0 THEN {0} ELSE Next10(g[i - 1], DigitValue(s[i]))]
             parsed == CHOOSE g : g = F(g)
  <1>1. n \in Nat /\ \A i \in 1 .. n : DigitValue(s[i]) \in 0 .. 9
    BY DigitValues
  <1>2. prev \in [1 .. n -> Nat] /\ \A i \in 1 .. n : prev[i] < i
    BY <1>1
  <1>3. PICK num : IsNumbering(num, s)
    BY NumberingExists
  <1> DEFINE g == [i \in 0 .. n |-> {num[i]} \cap 0 .. U32Max]
  <1>4. ASSUME NEW i \in 1 .. n PROVE g[i] = Next10(g[i - 1], DigitValue(s[i]))
    <2> DEFINE d == DigitValue(s[i])
               m == num[i - 1]
    <2>1. i - 1 \in 0 .. n /\ i \in 0 .. n
      BY <1>1
    <2>2. m \in Nat /\ num[i] = 10 * m + d /\ d \in 0 .. 9
      BY <1>1, <1>3, <2>1 DEF IsNumbering
    <2>3. (m <= U32Max /\ m <= (U32Max - d) \div 10) <=> 10 * m + d <= U32Max
      BY <2>2, DigitFits
    <2>4. g[i] = {num[i]} \cap 0 .. U32Max /\ g[i - 1] = {m} \cap 0 .. U32Max
      BY <2>1
    <2> DEFINE q == (U32Max - d) \div 10
    <2>5. Next10(g[i - 1], d) = {10 * k + d : k \in {x \in {m} \cap 0 .. U32Max : x <= q}}
      BY <2>4
    <2>6. U32Max \in Nat
      BY JsonAssumption
    <2> HIDE DEF q, m, d, g
    <2>7. {10 * k + d : k \in {x \in {m} \cap 0 .. U32Max : x <= q}} = {10 * m + d} \cap 0 .. U32Max
      <3>1. {x \in {m} \cap 0 .. U32Max : x <= q} = IF m <= U32Max /\ m <= q THEN {m} ELSE {}
        BY <2>2, <2>6
      <3>2. {10 * m + d} \cap 0 .. U32Max = IF 10 * m + d <= U32Max THEN {10 * m + d} ELSE {}
        BY <2>2, <2>6
      <3> QED BY <2>3, <3>1, <3>2 DEF q
    <2> QED BY <2>2, <2>4, <2>5, <2>7 DEF d
  <1>5. g[0] = {0}
    BY <1>1, <1>3, JsonAssumption DEF IsNumbering
  <1>7. g = F(g)
    <2>1. ASSUME NEW i \in 0 .. n
          PROVE  g[i] = IF i = 0 THEN {0} ELSE Next10(g[i - 1], DigitValue(s[i]))
      <3>1. i # 0 => i \in 1 .. n
        BY <1>1
      <3> HIDE DEF Next10, g
      <3> QED BY <1>5, <1>4, <3>1
    <2> HIDE DEF Next10
    <2> QED BY <2>1
  <1>8. parsed = F(parsed)
    <2> HIDE DEF F, g
    <2> QED BY <1>7
  <1>9. Parsed(s) = parsed[n]
    BY DEF Parsed
  <1> HIDE DEF parsed, Next10, g
  <1>10. parsed[0] = g[0]
    BY <1>1, <1>5, <1>8
  <1>11. ASSUME NEW i \in 1 .. n PROVE parsed[i] = Next10(parsed[i - 1], DigitValue(s[i]))
    <2>1. F(parsed)[i] = Next10(parsed[i - 1], DigitValue(s[i]))
      BY <1>1
    <2> HIDE DEF F
    <2> QED BY <1>8, <2>1
  <1>12. \A i \in 0 .. n : parsed[i] = g[i]
    <2>1. ASSUME NEW i \in 1 .. n, parsed[prev[i]] = g[prev[i]] PROVE parsed[i] = g[i]
      BY <1>4, <1>11, <2>1
    <2> HIDE DEF prev, n, F
    <2>2. Agree(n, prev, parsed, g)
      BY <1>1, <1>2, <1>10, <2>1 DEF Agree
    <2> QED BY <2>2, RecursionUnique
  <1>13. n \in 0 .. n
    BY <1>1
  <1>14. g[n] = {num[n]} \cap 0 .. U32Max
    BY <1>13 DEF g
  <1> QED BY <1>3, <1>9, <1>12, <1>13, <1>14 DEF IsNumbering

\* A number without its last digit, and that digit.
Tenth(m) == m \div 10
LastDigit(m) == Digits[(m % 10) + 1]

\* The tenth of a number of several digits is a smaller number, so the
\* recursion of Decimal() ends.
LEMMA TenthSmaller ==
  ASSUME NEW m \in Nat
  PROVE  /\ Tenth(m) \in Nat /\ (m # 0 => Tenth(m) < m) /\ (m < 10 => Tenth(m) = 0)
         /\ LastDigit(m) \in DigitChars /\ m = 10 * Tenth(m) + DigitValue(LastDigit(m))
  <1> DEFINE q == m \div 10
             r == m % 10
  <1>1. r \in 0 .. 9 /\ q \in Int /\ m = 10 * q + r
    BY Division
  <1> HIDE DEF q, r
  <1>2. q \in Nat /\ (m # 0 => q < m) /\ (m < 10 => q = 0)
    BY <1>1
  <1>3. LastDigit(m) \in DigitChars /\ DigitValue(LastDigit(m)) = r
    BY <1>1, DigitValues DEF LastDigit, r
  <1> QED BY <1>1, <1>2, <1>3 DEF Tenth, q

\* The digits of m, made of those of its tenth.
DecimalStep(m, v) == (IF m < 10 THEN <<>> ELSE v) \o <<LastDigit(m)>>

\* They are digits.
LEMMA DecimalStepType ==
  ASSUME NEW m \in Nat, NEW v \in Seq(DigitChars)
  PROVE  DecimalStep(m, v) \in Seq(DigitChars) /\ Len(DecimalStep(m, v)) # 0
  BY TenthSmaller DEF DecimalStep

\* What Decimal() writes for the numbers up to n.
IsDecimal(g, n) ==
  /\ g \in [0 .. n -> Seq(DigitChars)]
  /\ \A m \in 0 .. n : g[m] = DecimalStep(m, g[Tenth(m)])
  /\ Decimal(n) = g[n]

\* Decimal() writes them.
LEMMA DecimalExists ==
  ASSUME NEW n \in Nat PROVE \E g : IsDecimal(g, n)
  <1> DEFINE V == Seq(DigitChars)
             base == DecimalStep(0, <<>>)
             prev == [m \in 1 .. n |-> Tenth(m)]
             grow == [m \in 1 .. n |-> [v \in V |-> DecimalStep(m, v)]]
             F(g) == [m \in 0 .. n |-> DecimalStep(m, g[Tenth(m)])]
             decimal == CHOOSE g : g = F(g)
  <1>1. \A m \in 1 .. n : Tenth(m) \in 0 .. n /\ Tenth(m) < m
    BY TenthSmaller
  <1>2. prev \in [1 .. n -> Nat] /\ \A m \in 1 .. n : prev[m] < m
    BY <1>1
  <1>3. grow \in [1 .. n -> [V -> V]]
    BY DecimalStepType
  <1>4. base \in V
    <2>1. <<>> \in V /\ 0 \in Nat
      OBVIOUS
    <2> QED BY <2>1, DecimalStepType
  <1>5. PICK g : /\ g \in [0 .. n -> V] /\ g[0] = base
                 /\ \A m \in 1 .. n : g[m] = grow[m][g[prev[m]]]
    <2> HIDE DEF grow, prev, V, base
    <2>1. Recursive(n, V, base, prev, grow)
      BY <1>2, <1>3, <1>4 DEF Recursive
    <2>2. \E g : Solution(g, n, V, base, prev, grow)
      BY <2>1, Recursion
    <2> QED BY <2>2 DEF Solution
  <1>6. \A v : DecimalStep(0, v) = base
    BY DEF DecimalStep
  <1> HIDE DEF base
  <1>7. ASSUME NEW m \in 0 .. n PROVE g[m] = DecimalStep(m, g[Tenth(m)])
    <2>1. CASE m = 0
      BY <1>5, <1>6, <2>1
    <2>2. CASE m # 0
      <3>1. m \in 1 .. n /\ g[Tenth(m)] \in V /\ prev[m] = Tenth(m)
        BY <1>1, <1>5, <2>2
      <3>2. grow[m][g[Tenth(m)]] = DecimalStep(m, g[Tenth(m)])
        BY <3>1
      <3> QED BY <1>5, <3>1, <3>2
    <2> QED BY <2>1, <2>2
  <1>8. g = F(g)
    BY <1>5, <1>7
  <1>9. decimal = F(decimal)
    <2> HIDE DEF F
    <2> QED BY <1>8
  <1>10. Decimal(n) = decimal[n]
    BY DEF Decimal, DecimalStep, Tenth, LastDigit
  <1> HIDE DEF decimal
  <1>11. ASSUME NEW m \in 0 .. n PROVE decimal[m] = DecimalStep(m, decimal[Tenth(m)])
    <2>1. F(decimal)[m] = DecimalStep(m, decimal[Tenth(m)])
      OBVIOUS
    <2> HIDE DEF F
    <2> QED BY <1>9, <2>1
  <1>12. \A m \in 0 .. n : decimal[m] = g[m]
    <2>1. ASSUME NEW m \in 1 .. n, decimal[prev[m]] = g[prev[m]] PROVE decimal[m] = g[m]
      <3>1. m \in 0 .. n
        OBVIOUS
      <3> QED BY <1>7, <1>11, <2>1, <3>1
    <2>2. decimal[0] = g[0]
      BY <1>5, <1>6, <1>11
    <2> HIDE DEF prev, F
    <2>3. Agree(n, prev, decimal, g)
      BY <1>2, <2>1, <2>2 DEF Agree
    <2> QED BY <2>3, RecursionUnique
  <1>13. decimal[n] = g[n]
    BY <1>12
  <1>14. IsDecimal(g, n)
    BY <1>5, <1>7, <1>10, <1>13 DEF IsDecimal
  <1> QED BY <1>14

\* No digits stand for zero.
LEMMA NumberOfNone == Number(<<>>) = 0
  <1>1. <<>> \in Seq(DigitChars) /\ Len(<<>>) = 0
    OBVIOUS
  <1>2. PICK g : IsNumbering(g, <<>>)
    BY <1>1, NumberingExists
  <1> QED BY <1>1, <1>2 DEF IsNumbering

\* The digits written for a number stand for it.
LEMMA DecimalReads ==
  ASSUME NEW n \in Nat
  PROVE  Decimal(n) \in Seq(DigitChars) /\ Len(Decimal(n)) # 0 /\ Number(Decimal(n)) = n
  <1>1. PICK g : IsDecimal(g, n)
    BY DecimalExists
  <1>2. /\ g \in [0 .. n -> Seq(DigitChars)] /\ Decimal(n) = g[n]
        /\ \A m \in 0 .. n : g[m] = DecimalStep(m, g[Tenth(m)])
    BY <1>1 DEF IsDecimal
  <1> DEFINE P == {m \in Nat : m <= n => Number(g[m]) = m}
  <1>3. ASSUME NEW m \in Nat, \A k \in 0 .. m - 1 : k \in P PROVE m \in P
    <2> SUFFICES ASSUME m <= n PROVE Number(g[m]) = m
      OBVIOUS
    <2> DEFINE u == IF m < 10 THEN <<>> ELSE g[Tenth(m)]
    <2>1. g[m] = u \o <<LastDigit(m)>>
      BY <1>2 DEF DecimalStep
    <2>2. u \in Seq(DigitChars) /\ Number(u) = Tenth(m)
      <3>1. CASE m < 10
        BY <3>1, NumberOfNone, TenthSmaller
      <3>2. CASE ~(m < 10)
        <4>1. Tenth(m) \in 0 .. m - 1 /\ Tenth(m) \in 0 .. n
          BY <3>2, TenthSmaller
        <4>2. Tenth(m) \in P
          BY <1>3, <4>1
        <4> QED BY <1>2, <3>2, <4>1, <4>2
      <3> QED BY <3>1, <3>2
    <2> HIDE DEF u
    <2>3. Number(u \o <<LastDigit(m)>>) = 10 * Number(u) + DigitValue(LastDigit(m))
      BY <2>2, NumberAppend, TenthSmaller
    <2> QED BY <2>1, <2>2, <2>3, TenthSmaller
  <1>4. P = Nat
    <2>1. P \subseteq Nat
      OBVIOUS
    <2> HIDE DEF P
    <2> QED BY <1>3, <2>1, EveryNaturalStrong
  <1>5. Len(g[n]) # 0
    <2>1. n \in 0 .. n /\ Tenth(n) \in 0 .. n
      BY TenthSmaller
    <2>2. g[Tenth(n)] \in Seq(DigitChars)
      BY <1>2, <2>1
    <2> QED BY <1>2, <2>1, <2>2, DecimalStepType
  <1>6. n \in P /\ n \in 0 .. n
    BY <1>4
  <1> QED BY <1>2, <1>5, <1>6

\* The place whose character is read at place p, and what is read from there on.
NextChar(p) == IF text[p] = Backslash /\ p < Len(text) THEN p + 1 ELSE p
UnescapeStep(p, rests) ==
  IF p > Len(text) THEN Absent
  ELSE IF text[p] = Quote THEN {<<>>}
  ELSE {<<text[NextChar(p)]>> \o rest : rest \in rests}

\* What is read from a place on is its character and what is read behind it.
LEMMA UnescapedStep ==
  ASSUME text \in Seq(Characters), NEW p \in 1 .. Len(text) + 1
  PROVE  Unescaped(p) = UnescapeStep(p, Unescaped(NextChar(p) + 1))
  <1> DEFINE n == Len(text)
             V == SUBSET Seq(Characters)
             prev == [i \in 1 .. n |-> n - NextChar(n + 1 - i)]
             grow == [i \in 1 .. n |-> [v \in V |-> UnescapeStep(n + 1 - i, v)]]
             F(g) == [q \in 1 .. n + 1 |-> UnescapeStep(q, g[NextChar(q) + 1])]
             unescaped == CHOOSE g : g = F(g)
  <1>1. n \in Nat
    OBVIOUS
  <1>2. ASSUME NEW q \in 1 .. n PROVE NextChar(q) \in q .. n
    BY DEF NextChar
  <1>3. prev \in [1 .. n -> Nat] /\ \A i \in 1 .. n : prev[i] < i
    <2> SUFFICES ASSUME NEW i \in 1 .. n
                 PROVE  n - NextChar(n + 1 - i) \in Nat /\ n - NextChar(n + 1 - i) < i
      OBVIOUS
    <2>1. n + 1 - i \in 1 .. n
      BY <1>1
    <2>2. NextChar(n + 1 - i) \in n + 1 - i .. n
      BY <1>2, <2>1
    <2> QED BY <1>1, <2>2
  <1>4. grow \in [1 .. n -> [V -> V]]
    <2> SUFFICES ASSUME NEW q \in 1 .. n, NEW v \in V PROVE UnescapeStep(q, v) \in V
      <3>1. \A i \in 1 .. n : n + 1 - i \in 1 .. n
        BY <1>1
      <3> QED BY <3>1
    <2>1. text[NextChar(q)] \in Characters
      BY <1>1, <1>2
    <2>2. \A rest \in v : <<text[NextChar(q)]>> \o rest \in Seq(Characters)
      BY <2>1
    <2> QED BY <2>2 DEF UnescapeStep, Absent
  <1>5. {} \in V
    OBVIOUS
  <1>6. PICK h : /\ h \in [0 .. n -> V] /\ h[0] = {}
                 /\ \A i \in 1 .. n : h[i] = grow[i][h[prev[i]]]
    <2> HIDE DEF grow, prev, V, n
    <2>1. Recursive(n, V, {}, prev, grow)
      BY <1>1, <1>3, <1>4, <1>5 DEF Recursive
    <2>2. \E h : Solution(h, n, V, {}, prev, grow)
      BY <2>1, Recursion
    <2> QED BY <2>2 DEF Solution
  <1> DEFINE g == [q \in 1 .. n + 1 |-> h[n + 1 - q]]
  <1>7. ASSUME NEW q \in 1 .. n + 1 PROVE g[q] = UnescapeStep(q, g[NextChar(q) + 1])
    <2>1. CASE q = n + 1
      <3>1. g[q] = h[0]
        BY <1>1, <2>1
      <3>2. UnescapeStep(q, g[NextChar(q) + 1]) = {}
        BY <1>1, <2>1 DEF UnescapeStep, Absent
      <3> QED BY <1>6, <3>1, <3>2
    <2>2. CASE q # n + 1
      <3> DEFINE i == n + 1 - q
      <3>1. q \in 1 .. n /\ i \in 1 .. n /\ n + 1 - i = q
        BY <1>1, <2>2
      <3>2. prev[i] = n - NextChar(q) /\ prev[i] \in 0 .. n
        <4>1. prev[i] = n - NextChar(n + 1 - i)
          BY <3>1
        <4>2. prev[i] \in Nat /\ prev[i] < i
          BY <1>3, <3>1
        <4> HIDE DEF i, prev
        <4> QED BY <1>1, <3>1, <4>1, <4>2
      <3>3. NextChar(q) + 1 \in 1 .. n + 1 /\ n + 1 - (NextChar(q) + 1) = n - NextChar(q)
        BY <1>1, <1>2, <3>1
      <3>4. g[NextChar(q) + 1] = h[prev[i]]
        BY <3>2, <3>3
      <3>5. h[prev[i]] \in V
        BY <1>6, <3>2
      <3>6. grow[i][h[prev[i]]] = UnescapeStep(q, h[prev[i]])
        <4> HIDE DEF V
        <4>1. grow[i] = [v \in V |-> UnescapeStep(q, v)]
          BY <3>1
        <4> HIDE DEF grow
        <4> QED BY <3>5, <4>1
      <3>7. g[q] = h[i]
        BY <1>1
      <3> HIDE DEF g, grow, prev, i
      <3> QED BY <1>6, <3>1, <3>4, <3>6, <3>7
    <2> QED BY <2>1, <2>2
  <1>8. g = F(g)
    <2> HIDE DEF n
    <2> QED BY <1>7
  <1>9. unescaped = F(unescaped)
    <2> HIDE DEF F, g
    <2> QED BY <1>8
  <1>10. \A q : Unescaped(q) = unescaped[q]
    BY DEF Unescaped, UnescapeStep, NextChar
  <1> HIDE DEF unescaped
  <1>11. unescaped[p] = UnescapeStep(p, unescaped[NextChar(p) + 1])
    <2>1. F(unescaped)[p] = UnescapeStep(p, unescaped[NextChar(p) + 1])
      OBVIOUS
    <2> HIDE DEF F
    <2> QED BY <1>9, <2>1
  <1> QED BY <1>10, <1>11

\* Where the characters of a string end in its escaped form.
IsSpelling(o, s) ==
  /\ o \in [0 .. Len(s) -> Nat] /\ o[0] = 0 /\ o[Len(s)] = Len(Escaped(s))
  /\ \A i \in 1 .. Len(s) :
       /\ o[i] <= Len(Escaped(s)) /\ Escaped(s)[o[i]] = s[i]
       /\ IF s[i] \in {Quote, Backslash}
          THEN o[i] = o[i - 1] + 2 /\ Escaped(s)[o[i - 1] + 1] = Backslash
          ELSE o[i] = o[i - 1] + 1

\* Every string has such places.
LEMMA SpellingExists ==
  ASSUME NEW s \in Seq(Characters)
  PROVE  Escaped(s) \in Seq(Characters) /\ \E o : IsSpelling(o, s)
  <1> DEFINE n == Len(s)
  <1>1. PICK g : IsEscaping(g, s)
    BY EscapingExists
  <1>2. /\ g \in [0 .. n -> Seq(Characters)] /\ g[0] = <<>> /\ Escaped(s) = g[n]
        /\ \A i \in 1 .. n : g[i] = g[i - 1] \o EscapedChar(s[i])
    BY <1>1 DEF IsEscaping
  <1>3. n \in Nat /\ \A i \in 1 .. n : s[i] \in Characters
    OBVIOUS
  <1> DEFINE Begins(i, k) == /\ Len(g[i]) <= Len(g[k])
                             /\ \A j \in 1 .. Len(g[i]) : g[k][j] = g[i][j]
             P == {d \in Nat : \A i \in 0 .. n : i + d <= n => Begins(i, i + d)}
  <1>4. ASSUME NEW i \in 1 .. n
        PROVE  /\ Len(g[i]) = Len(g[i - 1]) + Len(EscapedChar(s[i]))
               /\ \A j \in 1 .. Len(g[i - 1]) : g[i][j] = g[i - 1][j]
               /\ \A j \in 1 .. Len(EscapedChar(s[i])) :
                    g[i][Len(g[i - 1]) + j] = EscapedChar(s[i])[j]
    <2>1. g[i - 1] \in Seq(Characters)
      <3>1. i - 1 \in 0 .. n
        BY <1>3
      <3> QED BY <1>2, <3>1
    <2>2. EscapedChar(s[i]) \in Seq(Characters)
      BY <1>3, EscapedCharType
    <2> DEFINE a == g[i - 1]
               b == EscapedChar(s[i])
    <2>3. g[i] = a \o b
      BY <1>2
    <2> HIDE DEF a, b, P
    <2>3a. a \in Seq(Characters) /\ b \in Seq(Characters)
      BY <2>1, <2>2 DEF a, b
    <2>4. /\ Len(a \o b) = Len(a) + Len(b)
          /\ \A j \in 1 .. Len(a) : (a \o b)[j] = a[j]
          /\ \A j \in 1 .. Len(b) : (a \o b)[Len(a) + j] = b[j]
      BY <2>3a
    <2> QED BY <2>3, <2>4 DEF a, b
  <1>5. 0 \in P
    OBVIOUS
  <1>6. ASSUME NEW d \in P PROVE d + 1 \in P
    <2> SUFFICES ASSUME NEW i \in 0 .. n, i + (d + 1) <= n PROVE Begins(i, i + (d + 1))
      OBVIOUS
    <2> DEFINE k == i + (d + 1)
    <2>1. k \in 1 .. n /\ k - 1 = i + d /\ i + d <= n
      BY <1>3
    <2>2. Begins(i, k - 1)
      BY <2>1
    <2>3. g[k - 1] \in Seq(Characters) /\ g[i] \in Seq(Characters)
      <3>1. k - 1 \in 0 .. n
        BY <1>3, <2>1
      <3> QED BY <1>2, <3>1
    <2>4. EscapedChar(s[k]) \in Seq(Characters)
      BY <1>3, <2>1, EscapedCharType
    <2> HIDE DEF k
    <2>5. /\ Len(g[k]) = Len(g[k - 1]) + Len(EscapedChar(s[k]))
          /\ \A j \in 1 .. Len(g[k - 1]) : g[k][j] = g[k - 1][j]
      BY <1>4, <2>1
    <2>6. Len(g[k - 1]) \in Nat /\ Len(g[i]) \in Nat /\ Len(EscapedChar(s[k])) \in Nat
      BY <2>3, <2>4
    <2>7. Begins(i, k)
      <3> HIDE DEF P
      <3>1. Len(g[i]) <= Len(g[k])
        <4>1. Len(g[i]) <= Len(g[k - 1])
          BY <2>2
        <4>2. \A x, y, z \in Nat : x <= y => x <= y + z
          OBVIOUS
        <4> QED BY <2>5, <2>6, <4>1, <4>2
      <3>2. ASSUME NEW j \in 1 .. Len(g[i]) PROVE g[k][j] = g[i][j]
        <4>1. j \in 1 .. Len(g[k - 1])
          BY <2>2, <2>6
        <4> QED BY <2>2, <2>5, <4>1
      <3> QED BY <3>1, <3>2
    <2> QED BY <2>7 DEF k
  <1>7. P = Nat
    <2>1. P \subseteq Nat
      OBVIOUS
    <2> HIDE DEF P
    <2> QED BY <1>5, <1>6, <2>1, EveryNatural
  <1>8. ASSUME NEW i \in 0 .. n PROVE Begins(i, n)
    <2>1. n - i \in P /\ i + (n - i) = n
      <3> HIDE DEF P
      <3> QED BY <1>3, <1>7
    <2> HIDE DEF Begins
    <2> QED BY <1>3, <2>1
  <1> DEFINE o == [i \in 0 .. n |-> Len(g[i])]
  <1>9. \A i \in 0 .. n : g[i] \in Seq(Characters) /\ o[i] = Len(g[i]) /\ o[i] \in Nat
    BY <1>2
  <1>10. Escaped(s) \in Seq(Characters)
    BY <1>2, <1>3
  <1>11. o \in [0 .. n -> Nat] /\ o[0] = 0 /\ o[n] = Len(Escaped(s))
    BY <1>2, <1>3, <1>9
  <1>12. ASSUME NEW i \in 1 .. n
         PROVE  /\ o[i] <= Len(Escaped(s)) /\ Escaped(s)[o[i]] = s[i]
                /\ IF s[i] \in {Quote, Backslash}
                   THEN o[i] = o[i - 1] + 2 /\ Escaped(s)[o[i - 1] + 1] = Backslash
                   ELSE o[i] = o[i - 1] + 1
    <2>1. i - 1 \in 0 .. n /\ i \in 0 .. n
      BY <1>3
    <2> DEFINE c == EscapedChar(s[i])
    <2>2. o[i] = o[i - 1] + Len(c) /\ \A j \in 1 .. Len(c) : g[i][o[i - 1] + j] = c[j]
      BY <1>4, <1>9, <2>1
    <2>3. o[i] <= Len(Escaped(s)) /\ \A j \in 1 .. o[i] : Escaped(s)[j] = g[i][j]
      BY <1>2, <1>8, <1>9, <2>1
    <2>4. o[i - 1] \in Nat /\ o[i] \in Nat
      BY <1>9, <2>1
    <2> HIDE DEF o
    <2>5. CASE s[i] \in {Quote, Backslash}
      <3>1. Len(c) = 2 /\ c[1] = Backslash /\ c[2] = s[i]
        BY <2>5 DEF EscapedChar
      <3> HIDE DEF c
      <3>2. 1 \in 1 .. Len(c) /\ 2 \in 1 .. Len(c)
        BY <3>1
      <3>3. g[i][o[i - 1] + 1] = Backslash /\ g[i][o[i - 1] + 2] = s[i]
        BY <2>2, <3>1, <3>2
      <3>4. o[i] = o[i - 1] + 2
        BY <2>2, <3>1
      <3>5. o[i - 1] + 1 \in 1 .. o[i] /\ o[i - 1] + 2 \in 1 .. o[i]
        BY <2>4, <3>4
      <3> QED BY <2>3, <2>5, <3>3, <3>4, <3>5
    <2>6. CASE s[i] \notin {Quote, Backslash}
      <3>1. Len(c) = 1 /\ c[1] = s[i]
        BY <2>6 DEF EscapedChar
      <3> HIDE DEF c
      <3>2. 1 \in 1 .. Len(c)
        BY <3>1
      <3>3. g[i][o[i - 1] + 1] = s[i]
        BY <2>2, <3>1, <3>2
      <3>4. o[i] = o[i - 1] + 1
        BY <2>2, <3>1
      <3>5. o[i - 1] + 1 \in 1 .. o[i]
        BY <2>4, <3>4
      <3> QED BY <2>3, <2>6, <3>3, <3>4, <3>5
    <2> QED BY <2>5, <2>6
  <1> HIDE DEF o
  <1>13. IsSpelling(o, s)
    BY <1>11, <1>12 DEF IsSpelling
  <1> QED BY <1>10, <1>13

\* What begins at place i of a sequence is its character and what begins behind it.
LEMMA RestOfSeq ==
  ASSUME NEW T, NEW s \in Seq(T), NEW i \in 1 .. Len(s)
  PROVE  <<s[i]>> \o SubSeq(s, i + 1, Len(s)) = SubSeq(s, i, Len(s))
  <1> DEFINE n == Len(s)
             u == SubSeq(s, i + 1, n)
             l == <<s[i]>> \o u
             r == SubSeq(s, i, n)
  <1>1. n \in Nat /\ s[i] \in T
    OBVIOUS
  <1>2. u \in Seq(T) /\ Len(u) = n - i /\ \A j \in 1 .. n - i : u[j] = s[i + j]
    BY <1>1
  <1>3. r \in Seq(T) /\ Len(r) = n - i + 1 /\ \A j \in 1 .. n - i + 1 : r[j] = s[i + j - 1]
    BY <1>1
  <1> HIDE DEF u, r
  <1>4. l \in Seq(T) /\ Len(l) = n - i + 1 /\ l[1] = s[i]
        /\ \A j \in 1 .. n - i : l[j + 1] = u[j]
    BY <1>1, <1>2
  <1> HIDE DEF l
  <1>5. ASSUME NEW j \in 1 .. n - i + 1 PROVE l[j] = r[j]
    <2>1. CASE j = 1
      BY <1>1, <1>3, <1>4, <2>1
    <2>2. CASE j # 1
      <3>1. j - 1 \in 1 .. n - i /\ (j - 1) + 1 = j /\ i + (j - 1) = i + j - 1
        BY <1>1, <2>2
      <3> QED BY <1>2, <1>3, <1>4, <3>1
    <2> QED BY <2>1, <2>2
  <1>6. l = r
    BY <1>1, <1>3, <1>4, <1>5, SeqEqual
  <1> QED BY <1>6 DEF l, r, u

\* A string is read back from its escaped form, up to the quote that ends it.
LEMMA UnescapedReads ==
  ASSUME text \in Seq(Characters), NEW s \in Seq(Characters), NEW a \in Nat \ {0},
         a + Len(Escaped(s)) <= Len(text), text[a + Len(Escaped(s))] = Quote,
         \A j \in 1 .. Len(Escaped(s)) : text[a + j - 1] = Escaped(s)[j]
  PROVE  Unescaped(a) = {s}
  <1> DEFINE n == Len(s)
             e == Escaped(s)
             Rest(i) == SubSeq(s, i + 1, n)
  <1>1. PICK o : IsSpelling(o, s)
    BY SpellingExists
  <1>2. /\ o \in [0 .. n -> Nat] /\ o[0] = 0 /\ o[n] = Len(e)
        /\ \A i \in 1 .. n : /\ o[i] <= Len(e) /\ e[o[i]] = s[i]
                             /\ IF s[i] \in {Quote, Backslash}
                                THEN o[i] = o[i - 1] + 2 /\ e[o[i - 1] + 1] = Backslash
                                ELSE o[i] = o[i - 1] + 1
    BY <1>1 DEF IsSpelling
  <1>3. n \in Nat /\ Len(e) \in Nat /\ Len(text) \in Nat
    BY SpellingExists
  <1>4. a + Len(e) <= Len(text) /\ text[a + Len(e)] = Quote
        /\ \A j \in 1 .. Len(e) : text[a + j - 1] = e[j]
    OBVIOUS
  <1>5. Quote # Backslash
    BY DEF Quote, Backslash
  <1> HIDE DEF e
  <1> DEFINE P == {d \in Nat : d <= n => Unescaped(a + o[n - d]) = {Rest(n - d)}}
  <1>6. 0 \in P
    <2>1. n - 0 = n /\ a + Len(e) \in 1 .. Len(text) + 1 /\ ~(a + Len(e) > Len(text))
      BY <1>3, <1>4
    <2>2. Unescaped(a + Len(e)) = {<<>>}
      BY <1>4, <2>1, UnescapedStep DEF UnescapeStep
    <2>3. Rest(n) = <<>>
      BY <1>3
    <2> QED BY <1>2, <2>1, <2>2, <2>3
  <1>7. ASSUME NEW d \in P PROVE d + 1 \in P
    <2> SUFFICES ASSUME d + 1 <= n PROVE Unescaped(a + o[n - (d + 1)]) = {Rest(n - (d + 1))}
      OBVIOUS
    <2> DEFINE i == n - d
               c == s[i]
               x == o[i - 1]
               y == o[i]
               p == a + x
    <2>1. i \in 1 .. n /\ n - (d + 1) = i - 1 /\ i \in 0 .. n /\ i - 1 \in 0 .. n /\ d <= n
      BY <1>3
    <2>2. Unescaped(a + y) = {Rest(i)}
      BY <2>1
    <2> HIDE DEF i, P
    <2>3. /\ x \in Nat /\ y \in Nat /\ y <= Len(e) /\ e[y] = c
          /\ IF c \in {Quote, Backslash} THEN y = x + 2 /\ e[x + 1] = Backslash ELSE y = x + 1
      BY <1>2, <2>1
    <2>3a. <<c>> \o Rest(i) = Rest(i - 1)
      <3>1. (i - 1) + 1 = i
        BY <2>1
      <3> QED BY <2>1, <3>1, RestOfSeq
    <2> HIDE DEF c, x, y, Rest, n
    <2>4. /\ text[NextChar(p)] = c /\ NextChar(p) + 1 = a + y
          /\ p \in 1 .. Len(text) + 1 /\ ~(p > Len(text)) /\ text[p] # Quote
      <3>1. CASE c \in {Quote, Backslash}
        <4>1. y = x + 2 /\ e[x + 1] = Backslash
          BY <2>3, <3>1
        <4>2. x + 1 \in 1 .. Len(e) /\ a + (x + 1) - 1 = p
          BY <1>3, <2>3, <4>1
        <4>3. y \in 1 .. Len(e) /\ a + y - 1 = p + 1
          BY <1>3, <2>3, <4>1
        <4>4. text[p] = Backslash /\ text[p + 1] = c
          BY <1>4, <2>3, <4>1, <4>2, <4>3
        <4>5. p \in Nat \ {0} /\ p + 1 < Len(text) /\ p + 2 = a + y
          <5>1. x \in Nat /\ y = x + 2 /\ y <= Len(e) /\ a + Len(e) <= Len(text)
            BY <1>4, <2>3, <4>1
          <5> QED BY <1>3, <5>1
        <4> HIDE DEF p
        <4>6. NextChar(p) = p + 1
          BY <1>3, <4>4, <4>5 DEF NextChar
        <4> QED BY <1>3, <1>5, <4>4, <4>5, <4>6
      <3>2. CASE c \notin {Quote, Backslash}
        <4>1. y = x + 1
          BY <2>3, <3>2
        <4>2. y \in 1 .. Len(e) /\ a + y - 1 = p
          BY <1>3, <2>3, <4>1
        <4>3. text[p] = c
          BY <1>4, <2>3, <4>2
        <4>4. p \in Nat \ {0} /\ p < Len(text) /\ p + 1 = a + y
          <5>1. x \in Nat /\ y = x + 1 /\ y <= Len(e) /\ a + Len(e) <= Len(text)
            BY <1>4, <2>3, <4>1
          <5> QED BY <1>3, <5>1
        <4> HIDE DEF p
        <4>5. NextChar(p) = p
          BY <3>2, <4>3 DEF NextChar
        <4> QED BY <1>3, <3>2, <4>3, <4>4, <4>5
      <3> QED BY <3>1, <3>2
    <2> HIDE DEF p
    <2>5. Unescaped(p) = {<<c>> \o rest : rest \in Unescaped(a + y)}
      BY <2>4, UnescapedStep DEF UnescapeStep
    <2>6. Unescaped(p) = {<<c>> \o rest : rest \in {Rest(i)}}
      BY <2>2, <2>5
    <2>7. Unescaped(p) = {Rest(i - 1)}
      <3>1. {<<c>> \o rest : rest \in {Rest(i)}} = {<<c>> \o Rest(i)}
        BY Zenon
      <3> QED BY <2>3a, <2>6, <3>1, Zenon
    <2> QED BY <2>1, <2>7 DEF p, x, n
  <1>8. P = Nat
    <2>1. P \subseteq Nat
      OBVIOUS
    <2> HIDE DEF P
    <2> QED BY <1>6, <1>7, <2>1, EveryNatural
  <1>9. Unescaped(a + o[n - n]) = {Rest(n - n)}
    <2>1. n \in P
      <3> HIDE DEF P
      <3> QED BY <1>3, <1>8
    <2> HIDE DEF Rest
    <2> QED BY <1>3, <2>1
  <1>10. n - n = 0 /\ a + o[0] = a
    BY <1>2, <1>3
  <1>11. Rest(0) = s
    <2>1. Rest(0) \in Seq(Characters) /\ Len(Rest(0)) = n /\ \A j \in 1 .. n : Rest(0)[j] = s[j]
      BY <1>3
    <2> HIDE DEF Rest
    <2> QED BY <2>1, SeqEqual
  <1> HIDE DEF Rest
  <1> QED BY <1>9, <1>10, <1>11

\* A quote in an escaped string follows a backslash.
LEMMA QuoteEscaped ==
  ASSUME NEW s \in Seq(Characters), NEW j \in 1 .. Len(Escaped(s)), Escaped(s)[j] = Quote
  PROVE  j - 1 \in 1 .. Len(Escaped(s)) /\ Escaped(s)[j - 1] = Backslash
  <1> DEFINE n == Len(s)
             e == Escaped(s)
  <1>1. PICK o : IsSpelling(o, s)
    BY SpellingExists
  <1>2. /\ o \in [0 .. n -> Nat] /\ o[0] = 0 /\ o[n] = Len(e)
        /\ \A i \in 1 .. n : /\ o[i] <= Len(e) /\ e[o[i]] = s[i]
                             /\ IF s[i] \in {Quote, Backslash}
                                THEN o[i] = o[i - 1] + 2 /\ e[o[i - 1] + 1] = Backslash
                                ELSE o[i] = o[i - 1] + 1
    BY <1>1 DEF IsSpelling
  <1>3. n \in Nat /\ Len(e) \in Nat /\ e[j] = Quote /\ j \in 1 .. Len(e)
    BY SpellingExists
  <1>4. Quote # Backslash
    BY DEF Quote, Backslash
  <1> HIDE DEF e, n
  <1> DEFINE Behind == {i \in 0 .. n : j <= o[i]}
             i == Min(Behind)
  <1>5. i \in Behind /\ \A k \in Behind : i <= k
    <2>1. n \in Behind /\ Behind \subseteq Nat
      BY <1>2, <1>3
    <2> HIDE DEF Behind
    <2> QED BY <2>1, MinInSet
  <1>6. i \in 1 .. n /\ i - 1 \in 0 .. n /\ i - 1 \notin Behind
    <2> HIDE DEF i
    <2> QED BY <1>2, <1>3, <1>5
  <1> HIDE DEF i
  <1>7. o[i - 1] < j /\ j <= o[i] /\ o[i - 1] \in Nat /\ o[i] \in Nat /\ o[i] <= Len(e)
    BY <1>2, <1>3, <1>5, <1>6
  <1>8. CASE s[i] \in {Quote, Backslash}
    <2>1. o[i] = o[i - 1] + 2 /\ e[o[i - 1] + 1] = Backslash
      BY <1>2, <1>6, <1>8
    <2>2. j # o[i - 1] + 1
      BY <1>3, <1>4, <2>1
    <2>3. j = o[i - 1] + 2 /\ j - 1 = o[i - 1] + 1
      BY <1>3, <1>7, <2>1, <2>2
    <2> QED BY <1>3, <1>7, <2>1, <2>3 DEF e
  <1>9. CASE s[i] \notin {Quote, Backslash}
    <2>1. o[i] = o[i - 1] + 1 /\ e[o[i]] = s[i]
      BY <1>2, <1>6, <1>9
    <2>2. j = o[i]
      BY <1>3, <1>7, <2>1
    <2> QED BY <1>3, <1>9, <2>1, <2>2
  <1> QED BY <1>8, <1>9

\* The characters that mean something to the scanner differ, and no digit or
\* letter of a truth value is one of them.
LEMMA CharactersDiffer ==
  /\ Quote \notin {Backslash, Colon, Comma, Space, Open, Close}
  /\ Colon \notin {Backslash, Comma, Space, Open, Close}
  /\ Space \notin {Backslash, Comma, Open, Close}
  /\ \A d \in 0 .. 9 : Digits[d + 1] \notin {Quote, Colon, Space, Comma, Close}
  /\ Len(True) = 4 /\ Len(False) = 5 /\ True[1] # False[1]
  /\ \A j \in 1 .. 4 : True[j] \notin {Quote, Colon, Space}
  /\ \A j \in 1 .. 5 : False[j] \notin {Quote, Colon, Space}
  <1>1. /\ Quote \notin {Backslash, Colon, Comma, Space, Open, Close}
        /\ Colon \notin {Backslash, Comma, Space, Open, Close}
        /\ Space \notin {Backslash, Comma, Open, Close}
    BY DEF Quote, Backslash, Colon, Comma, Space, Open, Close
  <1>2. \A d \in 0 .. 9 : Digits[d + 1] \notin {Quote, Colon, Space, Comma, Close}
    BY DEF Quote, Colon, Space, Comma, Close, Digits
  <1>3. Len(True) = 4 /\ Len(False) = 5 /\ True[1] # False[1]
    BY DEF True, False
  <1>4. \A j \in 1 .. 4 : True[j] \notin {Quote, Colon, Space}
    BY DEF Quote, Colon, Space, True
  <1>5. \A j \in 1 .. 5 : False[j] \notin {Quote, Colon, Space}
    BY DEF Quote, Colon, Space, False
  <1> QED BY <1>1, <1>2, <1>3, <1>4, <1>5

\* No digit is a character that the scanner looks for.
LEMMA DigitsPlain == DigitChars \cap {Quote, Colon, Space, Comma, Close} = {}
  BY DigitsDistinct, CharactersDiffer

\* All of them are characters.
LEMMA CharacterTypes ==
  /\ {Quote, Backslash, Colon, Comma, Space, Open, Close} \subseteq Characters
  /\ DigitChars \subseteq Characters
  /\ True \in Seq(Characters) /\ False \in Seq(Characters)
  <1>1. {Quote, Backslash, Colon, Comma, Space, Open, Close} \subseteq Characters
    BY JsonAssumption
  <1>2. ToSet(Digits) \cup ToSet(True) \cup ToSet(False) \subseteq Characters
    BY JsonAssumption
  <1>3. {"t", "r", "u", "e"} \subseteq Characters
    <2>1. Len(True) = 4 /\ DOMAIN True = 1 .. 4 /\ True[1] = "t" /\ True[2] = "r"
          /\ True[3] = "u" /\ True[4] = "e"
      BY DEF True
    <2>2. \A j \in 1 .. 4 : True[j] \in ToSet(True)
      BY <2>1 DEF ToSet
    <2> QED BY <1>2, <2>1, <2>2
  <1>4. {"f", "a", "l", "s", "e"} \subseteq Characters
    <2>1. DOMAIN False = 1 .. 5 /\ False[1] = "f" /\ False[2] = "a"
          /\ False[3] = "l" /\ False[4] = "s" /\ False[5] = "e"
      BY DEF False
    <2>2. \A j \in 1 .. 5 : False[j] \in ToSet(False)
      BY <2>1 DEF ToSet
    <2> QED BY <1>2, <2>1, <2>2
  <1>5. True \in Seq(Characters)
    BY <1>3 DEF True
  <1>6. False \in Seq(Characters)
    BY <1>4 DEF False
  <1> QED BY <1>1, <1>2, <1>5, <1>6 DEF DigitChars

\* The fields that are written.
FieldTypes ==
  UNION {[key : Keys, kind : {"bool"}, value : {"true", "false"}],
         [key : Keys, kind : {"u32"}, value : U32s],
         [key : Keys, kind : {"string"}, value : Strings],
         [key : Keys, kind : {"peer"}, value : PeerDigits]}

\* What is written for the value of a field.
ValueOf(f) == Written(f.kind, f.value)

\* The value of a field is of its kind.
LEMMA FieldKinds ==
  ASSUME NEW f \in FieldTypes
  PROVE  /\ f.key \in Keys
         /\ \/ f.kind = "bool" /\ f.value = "true" /\ ValueOf(f) = True
            \/ f.kind = "bool" /\ f.value = "false" /\ ValueOf(f) = False
            \/ f.kind = "u32" /\ f.value \in U32s /\ ValueOf(f) = Decimal(f.value)
            \/ f.kind = "string" /\ f.value \in Strings
               /\ ValueOf(f) = <<Quote>> \o Escaped(f.value) \o <<Quote>>
            \/ f.kind = "peer" /\ f.value \in PeerDigits /\ ValueOf(f) = f.value
  <1>1. CASE f \in [key : Keys, kind : {"bool"}, value : {"true", "false"}]
    <2>1. f.key \in Keys /\ f.kind = "bool" /\ f.value \in {"true", "false"}
      BY <1>1
    <2>2. ValueOf(f) = IF f.value = "true" THEN True ELSE False
      BY <2>1 DEF ValueOf, Written
    <2> QED BY <2>1, <2>2
  <1>2. CASE f \in [key : Keys, kind : {"u32"}, value : U32s]
    <2>1. f.key \in Keys /\ f.kind = "u32" /\ f.value \in U32s
      BY <1>2
    <2>2. ValueOf(f) = Decimal(f.value)
      BY <2>1 DEF ValueOf, Written
    <2> QED BY <2>1, <2>2
  <1>3. CASE f \in [key : Keys, kind : {"string"}, value : Strings]
    <2>1. f.key \in Keys /\ f.kind = "string" /\ f.value \in Strings
      BY <1>3
    <2>2. ValueOf(f) = <<Quote>> \o Escaped(f.value) \o <<Quote>>
      BY <2>1 DEF ValueOf, Written
    <2> QED BY <2>1, <2>2
  <1>4. CASE f \in [key : Keys, kind : {"peer"}, value : PeerDigits]
    <2>1. f.key \in Keys /\ f.kind = "peer" /\ f.value \in PeerDigits
      BY <1>4
    <2>2. ValueOf(f) = f.value
      BY <2>1 DEF ValueOf, Written
    <2> QED BY <2>1, <2>2
  <1> QED BY <1>1, <1>2, <1>3, <1>4 DEF FieldTypes

\* A string between its quotes.
LEMMA QuotedString ==
  ASSUME NEW s \in Seq(Characters), NEW v, v = <<Quote>> \o Escaped(s) \o <<Quote>>
  PROVE  /\ v \in Seq(Characters) /\ Len(v) = Len(Escaped(s)) + 2
         /\ v[1] = Quote /\ v[Len(v)] = Quote
         /\ \A j \in 1 .. Len(Escaped(s)) : v[j + 1] = Escaped(s)[j]
  <1> DEFINE e == Escaped(s)
  <1>1. e \in Seq(Characters) /\ Quote \in Characters
    BY SpellingExists, CharacterTypes
  <1> HIDE DEF e
  <1> DEFINE u == <<Quote>> \o e
  <1>2. u \in Seq(Characters) /\ Len(u) = Len(e) + 1 /\ u[1] = Quote
        /\ \A j \in 1 .. Len(e) : u[j + 1] = e[j]
    BY <1>1
  <1>3. v = u \o <<Quote>>
    BY DEF e
  <1> HIDE DEF u
  <1>4. v \in Seq(Characters) /\ Len(v) = Len(u) + 1 /\ v[Len(u) + 1] = Quote
        /\ \A j \in 1 .. Len(u) : v[j] = u[j]
    <2> DEFINE z == <<Quote>>
    <2>1. z \in Seq(Characters) /\ Len(z) = 1 /\ z[1] = Quote
      BY <1>1
    <2>2. v = u \o z
      BY <1>3
    <2> HIDE DEF z
    <2>3. /\ u \o z \in Seq(Characters) /\ Len(u \o z) = Len(u) + Len(z)
          /\ \A j \in 1 .. Len(u) : (u \o z)[j] = u[j]
          /\ \A j \in 1 .. Len(z) : (u \o z)[Len(u) + j] = z[j]
      <3>1. u \in Seq(Characters) /\ z \in Seq(Characters)
        BY <1>2, <2>1
      <3> QED BY <3>1
    <2>4. 1 \in 1 .. Len(z)
      BY <2>1
    <2>5. v \in Seq(Characters) /\ Len(v) = Len(u) + 1 /\ \A j \in 1 .. Len(u) : v[j] = u[j]
      BY <2>1, <2>2, <2>3, Zenon
    <2>6. v[Len(u) + 1] = Quote
      BY <2>1, <2>2, <2>3, <2>4, Zenon
    <2> QED BY <2>5, <2>6, Zenon
  <1>5. Len(e) \in Nat /\ Len(u) \in Nat
    BY <1>1, <1>2
  <1>6. v[1] = Quote /\ Len(v) = Len(e) + 2 /\ v[Len(v)] = Quote
    BY <1>2, <1>4, <1>5
  <1>7. ASSUME NEW j \in 1 .. Len(e) PROVE v[j + 1] = e[j]
    <2>1. j + 1 \in 1 .. Len(u)
      BY <1>2, <1>5
    <2> QED BY <1>2, <1>4, <2>1
  <1> QED BY <1>4, <1>6, <1>7 DEF e

\* What is written for a value has a first character, which is no space, and
\* its quotes are the first and the last character or follow a backslash.
LEMMA ValueChars ==
  ASSUME NEW f \in FieldTypes
  PROVE  /\ ValueOf(f) \in Seq(Characters) /\ Len(ValueOf(f)) \in Nat \ {0}
         /\ ValueOf(f)[1] # Space
         /\ \A j \in 1 .. Len(ValueOf(f)) :
              ValueOf(f)[j] = Quote => \/ j = 1
                                       \/ j = Len(ValueOf(f))
                                       \/ j - 1 \in 1 .. Len(ValueOf(f)) /\ ValueOf(f)[j - 1] = Backslash
  <1> DEFINE v == ValueOf(f)
  <1>1. CASE v = True
    BY <1>1, CharacterTypes, CharactersDiffer
  <1>2. CASE v = False
    BY <1>2, CharacterTypes, CharactersDiffer
  <1>3. CASE v \in Seq(DigitChars) /\ Len(v) # 0
    <2>1. Len(v) \in Nat \ {0} /\ \A j \in 1 .. Len(v) : v[j] \in DigitChars
      BY <1>3
    <2>2. v \in Seq(Characters)
      BY <1>3, <2>1, CharacterTypes
    <2>3. \A c \in DigitChars : c # Quote /\ c # Space
      BY DigitsPlain
    <2> HIDE DEF v
    <2>4. 1 \in 1 .. Len(v)
      BY <2>1
    <2> QED BY <2>1, <2>2, <2>3, <2>4 DEF v
  <1>4. ASSUME NEW s \in Strings, v = <<Quote>> \o Escaped(s) \o <<Quote>>
        PROVE  /\ v \in Seq(Characters) /\ Len(v) \in Nat \ {0} /\ v[1] # Space
               /\ \A j \in 1 .. Len(v) :
                    v[j] = Quote => \/ j = 1 \/ j = Len(v)
                                    \/ j - 1 \in 1 .. Len(v) /\ v[j - 1] = Backslash
    <2>1. s \in Seq(Characters)
      BY JsonAssumption
    <2> HIDE DEF v
    <2> DEFINE e == Escaped(s)
    <2>2. /\ v \in Seq(Characters) /\ Len(v) = Len(e) + 2 /\ v[1] = Quote
          /\ \A j \in 1 .. Len(e) : v[j + 1] = e[j]
      BY <1>4, <2>1, QuotedString
    <2>3. e \in Seq(Characters) /\ Len(e) \in Nat
      BY <2>1, SpellingExists
    <2>4. \A j \in 1 .. Len(e) : e[j] = Quote => j - 1 \in 1 .. Len(e) /\ e[j - 1] = Backslash
      BY <2>1, QuoteEscaped
    <2> HIDE DEF e
    <2>5. ASSUME NEW j \in 1 .. Len(v), v[j] = Quote, j # 1, j # Len(v)
          PROVE  j - 1 \in 1 .. Len(v) /\ v[j - 1] = Backslash
      <3>1. j - 1 \in 1 .. Len(e) /\ (j - 1) + 1 = j
        BY <2>2, <2>3, <2>5
      <3>2. e[j - 1] = Quote
        BY <2>2, <2>5, <3>1
      <3>3. (j - 1) - 1 \in 1 .. Len(e) /\ e[(j - 1) - 1] = Backslash
        BY <2>4, <3>1, <3>2
      <3>4. v[((j - 1) - 1) + 1] = Backslash /\ ((j - 1) - 1) + 1 = j - 1
        BY <2>2, <3>1, <3>3
      <3> QED BY <2>2, <2>3, <3>1, <3>4
    <2> QED BY <2>2, <2>3, <2>5, CharactersDiffer
  <1>5. f.value \in U32s => f.value \in Nat
    <2>1. U32s \subseteq 0 .. U32Max /\ U32Max \in Nat
      BY JsonAssumption
    <2>2. 0 .. U32Max \subseteq Nat
      BY <2>1
    <2> QED BY <2>1, <2>2, Zenon
  <1>6. f.value \in PeerDigits => f.value \in Seq(DigitChars) /\ Len(f.value) # 0
    <2>1. PeerDigits \subseteq Seq(DigitChars) \ {<<>>}
      BY JsonAssumption DEF DigitChars
    <2>2. \A s \in Seq(DigitChars) : Len(s) = 0 => s = <<>>
      BY EmptySeq
    <2> QED BY <2>1, <2>2
  <1>7. \/ v = True \/ v = False \/ (v \in Seq(DigitChars) /\ Len(v) # 0)
        \/ \E s \in Strings : v = <<Quote>> \o Escaped(s) \o <<Quote>>
    BY <1>5, <1>6, FieldKinds, DecimalReads, Zenon
  <1> HIDE DEF v
  <1> QED BY <1>1, <1>2, <1>3, <1>4, <1>7, Zenon DEF v

\* A field that is written whole from place p of t on, and its last place.
ValueEnd(p, f) == p + Len(f.key) + 2 + Len(ValueOf(f))
PieceAt(t, p, f) ==
  /\ t[p] = Quote
  /\ \A j \in 1 .. Len(f.key) : t[p + j] = f.key[j]
  /\ t[p + Len(f.key) + 1] = Quote /\ t[p + Len(f.key) + 2] = Colon
  /\ \A j \in 1 .. Len(ValueOf(f)) : t[p + Len(f.key) + 2 + j] = ValueOf(f)[j]

\* The fields fs stand in t, one behind the other: the key of field i begins at
\* place w[i].
Laid(t, fs, w) ==
  /\ w \in [1 .. Len(fs) -> Nat] /\ 1 <= Len(t) /\ t[1] = Open
  /\ \A i \in 1 .. Len(fs) :
       /\ w[i] = IF i = 1 THEN 2 ELSE ValueEnd(w[i - 1], fs[i - 1]) + 2
       /\ i # 1 => t[w[i] - 1] = Comma
       /\ PieceAt(t, w[i], fs[i])
       /\ ValueEnd(w[i], fs[i]) <= Len(t)

\* The last place they take: that of the opening brace when there are none.
LastPlace(fs, w) == IF Len(fs) = 0 THEN 1 ELSE ValueEnd(w[Len(fs)], fs[Len(fs)])

\* A key and a value are sequences of characters.
LEMMA KeyType ==
  ASSUME NEW f \in FieldTypes
  PROVE  /\ f.key \in Keys /\ f.key \in Seq(Characters) /\ Len(f.key) \in Nat
         /\ Len(ValueOf(f)) \in Nat \ {0}
         /\ \A j \in 1 .. Len(f.key) : f.key[j] \notin {Quote, Backslash, Colon, Space}
  <1>1. f.key \in Keys
    BY FieldKinds
  <1>2. f.key \in Seq(Characters)
    BY <1>1, JsonAssumption
  <1>3. ToSet(f.key) \cap {Quote, Backslash, Colon, Space} = {}
    BY <1>1, JsonAssumption
  <1>4. \A j \in 1 .. Len(f.key) : f.key[j] \in ToSet(f.key)
    BY <1>2 DEF ToSet
  <1>5. Len(f.key) \in Nat
    BY <1>2
  <1> QED BY <1>1, <1>2, <1>3, <1>4, <1>5, ValueChars

\* The last place of a field is a place.
LEMMA ValueEndType ==
  ASSUME NEW p \in Nat, NEW f \in FieldTypes PROVE ValueEnd(p, f) \in Nat
  <1> DEFINE K == Len(f.key)
             N == Len(ValueOf(f))
  <1>1. K \in Nat /\ N \in Nat
    BY KeyType
  <1>2. ValueEnd(p, f) = p + K + 2 + N
    BY DEF ValueEnd
  <1> HIDE DEF K, N
  <1> QED BY <1>1, <1>2

\* What is laid stays laid when more is written.
LEMMA LaidLonger ==
  ASSUME NEW t \in Seq(Characters), NEW u \in Seq(Characters), NEW fs \in Seq(FieldTypes), NEW w,
         Laid(t, fs, w), Len(t) <= Len(u), \A j \in 1 .. Len(t) : u[j] = t[j]
  PROVE  Laid(u, fs, w)
  <1> DEFINE n == Len(fs)
  <1>1. /\ w \in [1 .. n -> Nat] /\ 1 <= Len(t) /\ t[1] = Open
        /\ \A i \in 1 .. n : /\ w[i] = IF i = 1 THEN 2 ELSE ValueEnd(w[i - 1], fs[i - 1]) + 2
                             /\ i # 1 => t[w[i] - 1] = Comma
                             /\ PieceAt(t, w[i], fs[i])
                             /\ ValueEnd(w[i], fs[i]) <= Len(t)
    BY DEF Laid
  <1>2. Len(t) \in Nat /\ Len(u) \in Nat /\ n \in Nat
    OBVIOUS
  <1>3. u[1] = Open /\ 1 <= Len(u)
    BY <1>1, <1>2
  <1>4. ASSUME NEW i \in 1 .. n
        PROVE  /\ i # 1 => u[w[i] - 1] = Comma
               /\ PieceAt(u, w[i], fs[i]) /\ ValueEnd(w[i], fs[i]) <= Len(u)
    <2> DEFINE p == w[i]
               f == fs[i]
               K == Len(f.key)
               N == Len(ValueOf(f))
    <2>1. f \in FieldTypes
      OBVIOUS
    <2>2. p \in Nat /\ K \in Nat /\ N \in Nat
      BY <1>1, <2>1, KeyType
    <2>3. 2 <= p
      <3>1. CASE i = 1
        BY <1>1, <3>1
      <3>2. CASE i # 1
        <4>1. i - 1 \in 1 .. n
          BY <1>2, <3>2
        <4>2. w[i - 1] \in Nat /\ fs[i - 1] \in FieldTypes
          <5>1. w \in [1 .. n -> Nat]
            BY <1>1
          <5> QED BY <4>1, <5>1
        <4>3. ValueEnd(w[i - 1], fs[i - 1]) \in Nat
          BY <4>2, ValueEndType
        <4>4. p = ValueEnd(w[i - 1], fs[i - 1]) + 2
          BY <1>1, <3>2
        <4> QED BY <4>3, <4>4
      <3> QED BY <3>1, <3>2
    <2>4. PieceAt(t, p, f) /\ p + K + 2 + N <= Len(t) /\ (i # 1 => t[p - 1] = Comma)
      BY <1>1 DEF ValueEnd
    <2> HIDE DEF p, f
    <2>5. /\ t[p] = Quote /\ \A j \in 1 .. K : t[p + j] = f.key[j]
          /\ t[p + K + 1] = Quote /\ t[p + K + 2] = Colon
          /\ \A j \in 1 .. N : t[p + K + 2 + j] = ValueOf(f)[j]
      BY <2>4 DEF PieceAt
    <2> HIDE DEF K, N
    <2>6. \A x \in Nat : 1 <= x /\ x <= p + K + 2 + N => x \in 1 .. Len(t) /\ u[x] = t[x]
      BY <1>2, <2>2, <2>4
    <2>7. u[p - 1] = t[p - 1] /\ u[p] = t[p] /\ u[p + K + 1] = t[p + K + 1]
          /\ u[p + K + 2] = t[p + K + 2]
      BY <2>2, <2>3, <2>6
    <2>8. \A j \in 1 .. K : u[p + j] = t[p + j]
      BY <2>2, <2>3, <2>6
    <2>9. \A j \in 1 .. N : u[p + K + 2 + j] = t[p + K + 2 + j]
      BY <2>2, <2>3, <2>6
    <2>10. p + K + 2 + N <= Len(u)
      BY <1>2, <2>2, <2>4
    <2>11. PieceAt(u, p, f)
      BY <2>5, <2>7, <2>8, <2>9 DEF PieceAt, K, N
    <2> QED BY <2>4, <2>7, <2>10, <2>11 DEF ValueEnd, p, f, K, N
  <1> QED BY <1>1, <1>3, <1>4 DEF Laid

\* A sequence made of two.
Joins(c, a, b) ==
  /\ c \in Seq(Characters) /\ Len(c) = Len(a) + Len(b) /\ Len(a) \in Nat /\ Len(b) \in Nat
  /\ \A j \in 1 .. Len(a) : c[j] = a[j]
  /\ \A j \in 1 .. Len(b) : c[Len(a) + j] = b[j]

\* Every concatenation is one.
LEMMA Concatenated == \A a, b \in Seq(Characters) : Joins(a \o b, a, b)
  <1> SUFFICES ASSUME NEW a \in Seq(Characters), NEW b \in Seq(Characters) PROVE Joins(a \o b, a, b)
    OBVIOUS
  <1> QED BY DEF Joins

\* What a field function writes behind t, with a comma in front of it or not.
IsPiece(t, f, lead, chars) ==
  /\ t \in Seq(Characters) /\ f \in FieldTypes /\ lead \in {<<>>, <<Comma>>}
  /\ chars = (lead \o <<Quote>> \o f.key \o <<Quote, Colon>>) \o ValueOf(f)

\* The field stands behind t, and t is as it was.
PieceLaid(t, u, f, lead) ==
  /\ u \in Seq(Characters)
  /\ Len(t) <= Len(u) /\ \A j \in 1 .. Len(t) : u[j] = t[j]
  /\ PieceAt(u, Len(t) + Len(lead) + 1, f) /\ Len(u) = ValueEnd(Len(t) + Len(lead) + 1, f)
  /\ lead # <<>> => Len(lead) = 1 /\ u[Len(t) + 1] = Comma
  /\ lead = <<>> => Len(lead) = 0

\* It is laid there.
LEMMA PieceWritten ==
  ASSUME NEW t, NEW f, NEW lead, NEW chars, IsPiece(t, f, lead, chars)
  PROVE  /\ PieceLaid(t, t \o chars, f, lead)
         /\ chars \in Seq(Characters) /\ Len(chars) \in Nat \ {0}
  <1>0. /\ t \in Seq(Characters) /\ f \in FieldTypes /\ lead \in {<<>>, <<Comma>>}
        /\ chars = (lead \o <<Quote>> \o f.key \o <<Quote, Colon>>) \o ValueOf(f)
    BY DEF IsPiece
  <1> USE <1>0
  <1> DEFINE K == Len(f.key)
             v == ValueOf(f)
             N == Len(v)
             l == Len(lead)
             q == <<Quote>>
             k == f.key
             c == <<Quote, Colon>>
             a1 == lead \o q
             a2 == a1 \o k
             a3 == a2 \o c
             a4 == a3 \o v
             a5 == t \o a4
  <1>1. K \in Nat /\ N \in Nat \ {0} /\ k \in Seq(Characters) /\ v \in Seq(Characters)
    BY KeyType, ValueChars
  <1>2. Quote \in Characters /\ Colon \in Characters /\ Comma \in Characters
    BY CharacterTypes
  <1>3. lead \in Seq(Characters) /\ l \in Nat
        /\ (lead # <<>> => l = 1 /\ lead[1] = Comma) /\ (lead = <<>> => l = 0)
    <2>1. CASE lead = <<>>
      BY <2>1
    <2>2. CASE lead = <<Comma>>
      BY <1>2, <2>2
    <2> QED BY <2>1, <2>2
  <1>4. q \in Seq(Characters) /\ Len(q) = 1 /\ q[1] = Quote
    BY <1>2
  <1>5. c \in Seq(Characters) /\ Len(c) = 2 /\ c[1] = Quote /\ c[2] = Colon
    BY <1>2
  <1>6. chars = a4
    OBVIOUS
  <1> HIDE DEF q, c
  <1>7. a1 \in Seq(Characters) /\ Len(a1) = l + 1 /\ a1[l + 1] = Quote
        /\ \A j \in 1 .. l : a1[j] = lead[j]
    <2>1. Joins(a1, lead, q)
      BY <1>3, <1>4, Concatenated
    <2> HIDE DEF a1
    <2> QED BY <1>3, <1>4, <2>1 DEF Joins, l
  <1> HIDE DEF a1, K, l, k
  <1>8. a2 \in Seq(Characters) /\ Len(a2) = l + 1 + K
        /\ (\A j \in 1 .. l + 1 : a2[j] = a1[j])
        /\ \A j \in 1 .. K : a2[(l + 1) + j] = k[j]
    <2>1. Joins(a2, a1, k)
      BY <1>1, <1>7, Concatenated
    <2>2. Len(k) = K
      BY DEF k, K
    <2> HIDE DEF a2
    <2> QED BY <1>7, <2>1, <2>2 DEF Joins
  <1> HIDE DEF a2, N, v
  <1>9. a3 \in Seq(Characters) /\ Len(a3) = l + 1 + K + 2
        /\ (\A j \in 1 .. l + 1 + K : a3[j] = a2[j])
        /\ a3[l + 1 + K + 1] = Quote /\ a3[l + 1 + K + 2] = Colon
    <2>1. Joins(a3, a2, c)
      BY <1>5, <1>8, Concatenated
    <2>2. 1 \in 1 .. Len(c) /\ 2 \in 1 .. Len(c)
      BY <1>5
    <2> HIDE DEF a3
    <2>3. a3[Len(a2) + 1] = Quote /\ a3[Len(a2) + 2] = Colon
      BY <1>5, <2>1, <2>2 DEF Joins
    <2> QED BY <1>5, <1>8, <2>1, <2>3 DEF Joins
  <1> HIDE DEF a3
  <1>10. a4 \in Seq(Characters) /\ Len(a4) = l + 1 + K + 2 + N
         /\ (\A j \in 1 .. l + 1 + K + 2 : a4[j] = a3[j])
         /\ \A j \in 1 .. N : a4[(l + 1 + K + 2) + j] = v[j]
    <2>1. Joins(a4, a3, v)
      BY <1>1, <1>9, Concatenated
    <2>2. Len(v) = N
      BY DEF v, N
    <2> HIDE DEF a4
    <2> QED BY <1>9, <2>1, <2>2 DEF Joins
  <1> HIDE DEF a4
  <1> DEFINE m == Len(t)
             p == m + l + 1
  <1>11. a5 \in Seq(Characters) /\ Len(a5) = m + (l + 1 + K + 2 + N) /\ m \in Nat
         /\ (\A j \in 1 .. m : a5[j] = t[j])
         /\ \A j \in 1 .. l + 1 + K + 2 + N : a5[m + j] = a4[j]
    <2>1. Joins(a5, t, a4)
      BY <1>10, Concatenated
    <2> HIDE DEF a5
    <2> QED BY <1>10, <2>1 DEF Joins
  <1> HIDE DEF a5, m
  <1>a. l \in Nat /\ K \in Nat /\ N \in Nat \ {0} /\ m \in Nat
    BY <1>1, <1>3, <1>11
  <1>12. a5[p] = Quote
    <2>1. l + 1 \in 1 .. l + 1 + K + 2 + N /\ l + 1 \in 1 .. l + 1 + K + 2
          /\ l + 1 \in 1 .. l + 1 + K /\ l + 1 \in 1 .. l + 1 /\ m + (l + 1) = p
      BY <1>a
    <2>2. a5[p] = a4[l + 1]
      BY <1>11, <2>1
    <2>3. a4[l + 1] = a3[l + 1]
      BY <1>10, <2>1
    <2>4. a3[l + 1] = a2[l + 1]
      BY <1>9, <2>1
    <2>5. a2[l + 1] = a1[l + 1]
      BY <1>8, <2>1
    <2> QED BY <1>7, <2>2, <2>3, <2>4, <2>5
  <1>13. ASSUME NEW j \in 1 .. K PROVE a5[p + j] = k[j]
    <2>1. (l + 1) + j \in 1 .. l + 1 + K + 2 + N /\ (l + 1) + j \in 1 .. l + 1 + K + 2
          /\ (l + 1) + j \in 1 .. l + 1 + K /\ m + ((l + 1) + j) = p + j
      BY <1>a
    <2> DEFINE x == (l + 1) + j
    <2>2. a5[p + j] = a4[x]
      BY <1>11, <2>1
    <2>3. a4[x] = a3[x]
      BY <1>10, <2>1
    <2>4. a3[x] = a2[x]
      BY <1>9, <2>1
    <2>5. a2[x] = k[j]
      BY <1>8
    <2> QED BY <2>2, <2>3, <2>4, <2>5
  <1>14. a5[p + K + 1] = Quote /\ a5[p + K + 2] = Colon
    <2>1. l + 1 + K + 1 \in 1 .. l + 1 + K + 2 + N /\ l + 1 + K + 1 \in 1 .. l + 1 + K + 2
          /\ m + (l + 1 + K + 1) = p + K + 1
      BY <1>a
    <2>2. l + 1 + K + 2 \in 1 .. l + 1 + K + 2 + N /\ l + 1 + K + 2 \in 1 .. l + 1 + K + 2
          /\ m + (l + 1 + K + 2) = p + K + 2
      BY <1>a
    <2>3. a5[p + K + 1] = a4[l + 1 + K + 1] /\ a5[p + K + 2] = a4[l + 1 + K + 2]
      BY <1>11, <2>1, <2>2
    <2>4. a4[l + 1 + K + 1] = a3[l + 1 + K + 1] /\ a4[l + 1 + K + 2] = a3[l + 1 + K + 2]
      BY <1>10, <2>1, <2>2
    <2> QED BY <1>9, <2>3, <2>4
  <1>15. ASSUME NEW j \in 1 .. N PROVE a5[p + K + 2 + j] = v[j]
    <2>1. (l + 1 + K + 2) + j \in 1 .. l + 1 + K + 2 + N
          /\ m + ((l + 1 + K + 2) + j) = p + K + 2 + j
      BY <1>a
    <2>2. a5[p + K + 2 + j] = a4[(l + 1 + K + 2) + j]
      BY <1>11, <2>1
    <2>3. a4[(l + 1 + K + 2) + j] = v[j]
      BY <1>10
    <2> QED BY <2>2, <2>3
  <1>16. PieceAt(a5, p, f)
    <2> HIDE DEF p
    <2> QED BY <1>12, <1>13, <1>14, <1>15 DEF PieceAt, k, K, N, v
  <1>17. Len(a5) = p + K + 2 + N
    BY <1>1, <1>3, <1>11
  <1>18. l = 1 /\ lead[1] = Comma => a5[m + 1] = Comma
    <2> SUFFICES ASSUME l = 1, lead[1] = Comma PROVE a5[m + 1] = Comma
      OBVIOUS
    <2>1. 1 \in 1 .. l + 1 + K + 2 + N /\ 1 \in 1 .. l + 1 + K + 2
          /\ 1 \in 1 .. l + 1 + K /\ 1 \in 1 .. l + 1 /\ 1 \in 1 .. l
      BY <1>1
    <2>2. a5[m + 1] = a4[1]
      BY <1>11, <2>1
    <2>3. a4[1] = a3[1]
      BY <1>10, <2>1
    <2>4. a3[1] = a2[1]
      BY <1>9, <2>1
    <2>5. a2[1] = a1[1]
      BY <1>8, <2>1
    <2> QED BY <1>7, <2>1, <2>2, <2>3, <2>4, <2>5
  <1>19. Len(a4) \in Nat \ {0} /\ m <= Len(a5)
    BY <1>1, <1>3, <1>10, <1>11
  <1> QED BY <1>3, <1>6, <1>10, <1>11, <1>16, <1>17, <1>18, <1>19 DEF a5, m, l, ValueEnd, K, N, v, PieceLaid

\* The fields, and nothing behind them.
Whole(t, fs) == \E w : Laid(t, fs, w) /\ Len(t) = LastPlace(fs, w)

\* They stay whole when one more field is written whole.
LEMMA WholeAppend ==
  ASSUME NEW t \in Seq(Characters), NEW fs \in Seq(FieldTypes), NEW f \in FieldTypes, Whole(t, fs),
         NEW lead, lead = (IF fs = <<>> THEN <<>> ELSE <<Comma>>), NEW chars,
         chars = (lead \o <<Quote>> \o f.key \o <<Quote, Colon>>) \o ValueOf(f)
  PROVE  Whole(t \o chars, Append(fs, f))
  <1> DEFINE n == Len(fs)
             gs == Append(fs, f)
             u == t \o chars
             p == Len(t) + Len(lead) + 1
  <1>1. PICK w : Laid(t, fs, w) /\ Len(t) = LastPlace(fs, w)
    BY DEF Whole
  <1>2. lead \in {<<>>, <<Comma>>}
    OBVIOUS
  <1>3. /\ u \in Seq(Characters)
        /\ Len(t) <= Len(u) /\ \A j \in 1 .. Len(t) : u[j] = t[j]
        /\ PieceAt(u, p, f) /\ Len(u) = ValueEnd(p, f)
        /\ lead # <<>> => Len(lead) = 1 /\ u[Len(t) + 1] = Comma
        /\ lead = <<>> => Len(lead) = 0
    <2>1. IsPiece(t, f, lead, chars)
      BY <1>2 DEF IsPiece
    <2>2. PieceLaid(t, u, f, lead)
      BY <2>1, PieceWritten
    <2> QED BY <2>2 DEF PieceLaid
  <1>4. n \in Nat /\ gs \in Seq(FieldTypes) /\ Len(gs) = n + 1 /\ gs[n + 1] = f
        /\ (\A i \in 1 .. n : gs[i] = fs[i])
    OBVIOUS
  <1>4a. n = 0 <=> fs = <<>>
    BY EmptySeq
  <1> HIDE DEF u
  <1>5. Laid(u, fs, w)
    BY <1>1, <1>3, LaidLonger
  <1>6. /\ w \in [1 .. n -> Nat] /\ 1 <= Len(u) /\ u[1] = Open
        /\ \A i \in 1 .. n : /\ w[i] = IF i = 1 THEN 2 ELSE ValueEnd(w[i - 1], fs[i - 1]) + 2
                             /\ i # 1 => u[w[i] - 1] = Comma
                             /\ PieceAt(u, w[i], fs[i])
                             /\ ValueEnd(w[i], fs[i]) <= Len(u)
    BY <1>5 DEF Laid
  <1>7. Len(t) \in Nat /\ p \in Nat
    <2>1. Len(t) \in Nat /\ Len(lead) \in Nat
      <3>1. Len(lead) \in {0, 1}
        BY <1>3
      <3> QED BY <3>1
    <2> QED BY <2>1
  <1>8. /\ n = 0 => p = 2
        /\ n # 0 => p = ValueEnd(w[n], fs[n]) + 2 /\ u[p - 1] = Comma
    <2>1. CASE n = 0
      <3>1. Len(t) = 1 /\ Len(lead) = 0
        BY <1>1, <1>3, <1>4a, <2>1 DEF LastPlace
      <3> QED BY <2>1, <3>1
    <2>2. CASE n # 0
      <3>1. Len(t) = ValueEnd(w[n], fs[n])
        BY <1>1, <2>2 DEF LastPlace
      <3>2. lead # <<>>
        BY <1>4a, <2>2
      <3>3. Len(lead) = 1 /\ u[Len(t) + 1] = Comma
        BY <1>3, <3>2
      <3>4. p = Len(t) + 2 /\ p - 1 = Len(t) + 1
        BY <1>7, <3>3
      <3> HIDE DEF p
      <3> QED BY <2>2, <3>1, <3>3, <3>4
    <2> QED BY <2>1, <2>2
  <1> HIDE DEF p, gs
  <1> DEFINE v == [i \in 1 .. n + 1 |-> IF i = n + 1 THEN p ELSE w[i]]
  <1>9. v \in [1 .. n + 1 -> Nat] /\ v[n + 1] = p /\ \A i \in 1 .. n : v[i] = w[i]
    <2>1. w \in [1 .. n -> Nat]
      BY <1>6
    <2> QED BY <1>4, <1>7, <2>1
  <1> HIDE DEF v
  <1>10. ASSUME NEW i \in 1 .. n + 1
         PROVE  /\ v[i] = IF i = 1 THEN 2 ELSE ValueEnd(v[i - 1], gs[i - 1]) + 2
                /\ i # 1 => u[v[i] - 1] = Comma
                /\ PieceAt(u, v[i], gs[i])
                /\ ValueEnd(v[i], gs[i]) <= Len(u)
    <2>1. CASE i = n + 1
      <3>1. i # 1 => n # 0 /\ i - 1 = n /\ n \in 1 .. n
        BY <1>4, <2>1
      <3>2. i = 1 => n = 0
        BY <1>4, <2>1
      <3>3. v[i] = p /\ gs[i] = f
        BY <1>4, <1>9, <2>1
      <3>4. i # 1 => v[i - 1] = w[n] /\ gs[i - 1] = fs[n]
        BY <1>4, <1>9, <3>1
      <3>5. Len(u) \in Nat
        BY <1>3
      <3>6. ValueEnd(p, f) <= Len(u)
        BY <1>3, <3>5
      <3> QED BY <1>3, <1>8, <3>1, <3>2, <3>3, <3>4, <3>6
    <2>2. CASE i # n + 1
      <3>1. i \in 1 .. n
        BY <1>4, <2>2
      <3>2. v[i] = w[i] /\ gs[i] = fs[i]
        BY <1>4, <1>9, <3>1
      <3>3. i # 1 => i - 1 \in 1 .. n
        BY <1>4, <3>1
      <3>4. i # 1 => v[i - 1] = w[i - 1] /\ gs[i - 1] = fs[i - 1]
        BY <1>4, <1>9, <3>3
      <3>5. /\ w[i] = IF i = 1 THEN 2 ELSE ValueEnd(w[i - 1], fs[i - 1]) + 2
            /\ i # 1 => u[w[i] - 1] = Comma
            /\ PieceAt(u, w[i], fs[i])
            /\ ValueEnd(w[i], fs[i]) <= Len(u)
        BY <1>6, <3>1
      <3> QED BY <3>2, <3>4, <3>5
    <2> QED BY <2>1, <2>2
  <1>11. Laid(u, gs, v)
    BY <1>4, <1>6, <1>9, <1>10 DEF Laid
  <1>12. Len(u) = LastPlace(gs, v)
    <2>1. n + 1 # 0
      BY <1>4
    <2> QED BY <1>3, <1>4, <1>9, <2>1 DEF LastPlace
  <1>13. Whole(u, gs)
    BY <1>11, <1>12 DEF Whole
  <1> QED BY <1>13 DEF u, gs

-----------------------------------------------------------------------------
\* The types of the writer's state.
JsonTyped ==
  /\ capacity \in Nat /\ text \in Seq(Characters) /\ Len(text) <= capacity
  /\ first \in BOOLEAN /\ jsonOverflow \in BOOLEAN
  /\ stage \in {"new", "open", "closed", "failed"} /\ fields \in Seq(FieldTypes)

\* The object is written whole as long as nothing overflowed, and what
\* overflowed has filled the buffer, so that end_object() has no room.
JsonInv ==
  /\ JsonTyped
  /\ stage = "new" => text = <<>> /\ fields = <<>> /\ ~jsonOverflow
  /\ stage = "open" => /\ first = (fields = <<>>)
                       /\ IF jsonOverflow THEN Len(text) = capacity ELSE Whole(text, fields)
  /\ stage = "closed" => \E w : /\ Laid(text, fields, w)
                                /\ Len(text) = LastPlace(fields, w) + 1
                                /\ text[Len(text)] = Close

\* It holds of the writer that was constructed.
LEMMA JsonInvInit == JsonInit => JsonInv
  <1> SUFFICES ASSUME JsonInit PROVE JsonInv
    OBVIOUS
  <1>1. capacity \in Nat
    BY JsonAssumption DEF JsonInit
  <1>2. text \in Seq(Characters) /\ Len(text) = 0 /\ fields \in Seq(FieldTypes)
    BY DEF JsonInit
  <1>3. JsonTyped
    <2>1. Len(text) <= capacity
      BY <1>1, <1>2
    <2>2. first \in BOOLEAN /\ jsonOverflow \in BOOLEAN /\ stage = "new"
      BY DEF JsonInit
    <2> QED BY <1>1, <1>2, <2>1, <2>2 DEF JsonTyped
  <1> QED BY <1>3 DEF JsonInit, JsonInv

\* put() never writes past the buffer, and overflows only when it is full.
LEMMA PutFits ==
  ASSUME JsonTyped, NEW chars \in Seq(Characters), Put(chars)
  PROVE  /\ text' \in Seq(Characters) /\ Len(text') <= capacity /\ jsonOverflow' \in BOOLEAN
         /\ \/ text' = text \o chars /\ jsonOverflow' = jsonOverflow
            \/ Len(text') = capacity /\ jsonOverflow' = TRUE
         /\ Len(text) = capacity /\ Len(chars) # 0 => Len(text') = capacity /\ jsonOverflow' = TRUE
  <1> DEFINE room == capacity - Len(text)
  <1>1. capacity \in Nat /\ text \in Seq(Characters) /\ Len(text) \in Nat /\ Len(text) <= capacity
        /\ room \in Nat /\ Len(chars) \in Nat /\ jsonOverflow \in BOOLEAN
    BY DEF JsonTyped
  <1>2. CASE Len(chars) <= room
    <2>1. text' = text \o chars /\ jsonOverflow' = jsonOverflow
      BY <1>2 DEF Put
    <2>2. text \o chars \in Seq(Characters) /\ Len(text \o chars) = Len(text) + Len(chars)
      BY <1>1
    <2>3. text' \in Seq(Characters) /\ Len(text') = Len(text) + Len(chars)
      BY <2>1, <2>2
    <2>4. Len(text') <= capacity /\ ~(Len(text) = capacity /\ Len(chars) # 0)
      BY <1>1, <1>2, <2>3
    <2> QED BY <1>1, <2>1, <2>3, <2>4
  <1>3. CASE ~(Len(chars) <= room)
    <2> DEFINE part == SubSeq(chars, 1, room)
    <2>1. text' = text \o part /\ jsonOverflow' = TRUE
      BY <1>3 DEF Put
    <2>2. part \in Seq(Characters) /\ Len(part) = room
      <3>1. room \in 0 .. Len(chars)
        BY <1>1, <1>3
      <3> HIDE DEF room
      <3> QED BY <3>1, <1>1
    <2> HIDE DEF part
    <2>3. text \o part \in Seq(Characters) /\ Len(text \o part) = Len(text) + Len(part)
      BY <1>1, <2>2
    <2>4. text' \in Seq(Characters) /\ Len(text') = Len(text) + room
      BY <2>1, <2>2, <2>3
    <2>5. Len(text') = capacity
      BY <1>1, <2>4
    <2> QED BY <1>1, <2>1, <2>4, <2>5
  <1> QED BY <1>2, <1>3

\* Every field function, begin_object() and end_object() preserve it.
LEMMA JsonInvStep == JsonInv /\ [JsonNext]_jsonVars => JsonInv'
  <1> SUFFICES ASSUME JsonInv, [JsonNext]_jsonVars PROVE JsonInv'
    OBVIOUS
  <1>0. JsonTyped
    BY DEF JsonInv
  <1>1. CASE BeginObject
    <2>1. /\ stage = "new" /\ stage' = "open" /\ first' = TRUE /\ Put(<<Open>>)
          /\ capacity' = capacity /\ fields' = fields /\ text = <<>> /\ fields = <<>> /\ ~jsonOverflow
      BY <1>1 DEF BeginObject, JsonInv
    <2>2. <<Open>> \in Seq(Characters) /\ Len(<<Open>>) = 1
      BY CharacterTypes
    <2>3. /\ text' \in Seq(Characters) /\ Len(text') <= capacity /\ jsonOverflow' \in BOOLEAN
          /\ \/ text' = text \o <<Open>> /\ jsonOverflow' = jsonOverflow
             \/ Len(text') = capacity /\ jsonOverflow' = TRUE
      BY <1>0, <2>1, <2>2, PutFits
    <2>4. JsonTyped'
      BY <1>0, <2>1, <2>3 DEF JsonTyped
    <2>5. ~jsonOverflow' => Whole(text', fields')
      <3> SUFFICES ASSUME ~jsonOverflow' PROVE Whole(text', fields')
        OBVIOUS
      <3>1. text' = <<Open>>
        <4>1. text' = <<>> \o <<Open>>
          BY <2>1, <2>3
        <4>2. <<>> \o <<Open>> = <<Open>>
          BY <2>2, ConcatEmptySeq
        <4> QED BY <4>1, <4>2
      <3>2. Len(text') = 1 /\ text'[1] = Open /\ Len(fields') = 0
        BY <2>1, <3>1
      <3> DEFINE w == [i \in 1 .. 0 |-> 0]
      <3>3. w \in [1 .. 0 -> Nat]
        OBVIOUS
      <3> HIDE DEF w
      <3>4. Laid(text', fields', w) /\ LastPlace(fields', w) = 1
        BY <3>2, <3>3 DEF Laid, LastPlace
      <3> QED BY <3>2, <3>4 DEF Whole
    <2> QED BY <2>1, <2>3, <2>4, <2>5 DEF JsonInv
  <1>2. ASSUME NEW key, NEW kind, NEW value, Field(key, kind, value),
               [key |-> key, kind |-> kind, value |-> value] \in FieldTypes
        PROVE  JsonInv'
    <2> DEFINE f == [key |-> key, kind |-> kind, value |-> value]
               lead == IF first THEN <<>> ELSE <<Comma>>
               chars == Prefix(key) \o Written(kind, value)
    <2>1. /\ stage = "open" /\ stage' = "open" /\ Put(chars) /\ first' = FALSE
          /\ fields' = Append(fields, f) /\ capacity' = capacity
      BY <1>2 DEF Field
    <2>2. f \in FieldTypes
      BY <1>2
    <2>3. chars = (lead \o <<Quote>> \o f.key \o <<Quote, Colon>>) \o ValueOf(f)
      BY DEF Prefix, ValueOf
    <2>4. first = (fields = <<>>) /\ IF jsonOverflow THEN Len(text) = capacity ELSE Whole(text, fields)
      BY <2>1 DEF JsonInv
    <2>5. text \in Seq(Characters) /\ fields \in Seq(FieldTypes) /\ capacity \in Nat
      BY <1>0 DEF JsonTyped
    <2> HIDE DEF f, lead, chars
    <2>6. lead = IF fields = <<>> THEN <<>> ELSE <<Comma>>
      BY <2>4 DEF lead
    <2>7. chars \in Seq(Characters) /\ Len(chars) # 0
      <3>1. IsPiece(text, f, lead, chars)
        BY <2>2, <2>3, <2>5, <2>6 DEF IsPiece
      <3> QED BY <3>1, PieceWritten
    <2>8. /\ text' \in Seq(Characters) /\ Len(text') <= capacity /\ jsonOverflow' \in BOOLEAN
          /\ \/ text' = text \o chars /\ jsonOverflow' = jsonOverflow
             \/ Len(text') = capacity /\ jsonOverflow' = TRUE
          /\ Len(text) = capacity => Len(text') = capacity /\ jsonOverflow' = TRUE
      BY <1>0, <2>1, <2>7, PutFits
    <2>9. fields' \in Seq(FieldTypes) /\ fields' # <<>>
      BY <2>1, <2>2, <2>5
    <2>10. JsonTyped'
      BY <2>1, <2>5, <2>8, <2>9 DEF JsonTyped
    <2>11. ~jsonOverflow' => Whole(text', fields')
      <3> SUFFICES ASSUME ~jsonOverflow' PROVE Whole(text', fields')
        OBVIOUS
      <3>1. text' = text \o chars /\ ~jsonOverflow
        BY <2>8
      <3>2. Whole(text, fields)
        BY <2>4, <3>1
      <3>3. Whole(text \o chars, Append(fields, f))
        BY <2>2, <2>3, <2>5, <2>6, <3>2, WholeAppend
      <3> QED BY <2>1, <3>1, <3>3
    <2>12. jsonOverflow' => Len(text') = capacity'
      BY <2>1, <2>4, <2>8
    <2> QED BY <2>1, <2>9, <2>10, <2>11, <2>12 DEF JsonInv
  <1>3. CASE EndObject
    <2>1. /\ stage = "open" /\ capacity' = capacity /\ first' = first /\ fields' = fields
          /\ text' = (IF Len(text) < capacity THEN Append(text, Close) ELSE text)
          /\ jsonOverflow' = (jsonOverflow \/ Len(text) + 1 >= capacity)
          /\ stage' = (IF Len(text) + 1 < capacity THEN "closed" ELSE "failed")
      BY <1>3 DEF EndObject
    <2>2. capacity \in Nat /\ text \in Seq(Characters) /\ Len(text) \in Nat /\ Len(text) <= capacity
      BY <1>0 DEF JsonTyped
    <2>3. Close \in Characters
      BY CharacterTypes
    <2>4. /\ Append(text, Close) \in Seq(Characters) /\ Len(Append(text, Close)) = Len(text) + 1
          /\ Append(text, Close)[Len(text) + 1] = Close
          /\ \A j \in 1 .. Len(text) : Append(text, Close)[j] = text[j]
      BY <2>2, <2>3
    <2>5. text' \in Seq(Characters) /\ Len(text') <= capacity
      BY <2>1, <2>2, <2>4
    <2>6. JsonTyped'
      <3>1. jsonOverflow' \in BOOLEAN
        BY <2>1
      <3>2. stage' \in {"closed", "failed"}
        BY <2>1
      <3>3. first \in BOOLEAN /\ fields \in Seq(FieldTypes)
        BY <1>0 DEF JsonTyped
      <3> QED BY <2>1, <2>2, <2>5, <3>1, <3>2, <3>3 DEF JsonTyped
    <2>7. CASE Len(text) + 1 < capacity
      <3>1. text' = Append(text, Close) /\ stage' = "closed" /\ ~(Len(text) = capacity)
        BY <2>1, <2>2, <2>7
      <3>2. Whole(text, fields)
        BY <2>1, <3>1 DEF JsonInv
      <3>3. PICK w : Laid(text, fields, w) /\ Len(text) = LastPlace(fields, w)
        BY <3>2 DEF Whole
      <3>4. /\ text' \in Seq(Characters) /\ Len(text') = Len(text) + 1
            /\ text'[Len(text) + 1] = Close /\ \A j \in 1 .. Len(text) : text'[j] = text[j]
        BY <2>4, <3>1
      <3>5. fields \in Seq(FieldTypes)
        BY <1>0 DEF JsonTyped
      <3>6. Laid(text', fields, w)
        <4>1. Len(text) <= Len(text')
          BY <2>2, <3>4
        <4> QED BY <2>2, <3>3, <3>4, <3>5, <4>1, LaidLonger
      <3>7. /\ Laid(text', fields', w) /\ Len(text') = LastPlace(fields', w) + 1
            /\ text'[Len(text')] = Close
        BY <2>1, <3>3, <3>4, <3>6
      <3> QED BY <2>6, <3>1, <3>7 DEF JsonInv
    <2>8. CASE ~(Len(text) + 1 < capacity)
      <3>1. stage' = "failed"
        BY <2>1, <2>8
      <3> QED BY <2>6, <3>1 DEF JsonInv
    <2> QED BY <2>7, <2>8
  <1>4. CASE NewObject
    <2>1. stage' = "new" /\ text' = <<>> /\ first' = TRUE /\ jsonOverflow' = FALSE
          /\ fields' = <<>> /\ capacity' = capacity
      BY <1>4 DEF NewObject
    <2>2. text' \in Seq(Characters) /\ Len(text') = 0 /\ fields' \in Seq(FieldTypes)
      BY <2>1
    <2>3. capacity \in Nat
      BY <1>0 DEF JsonTyped
    <2>4. Len(text') <= capacity'
      BY <2>1, <2>2, <2>3
    <2>5. JsonTyped'
      BY <2>1, <2>2, <2>3, <2>4 DEF JsonTyped
    <2> QED BY <2>1, <2>5 DEF JsonInv
  <1>5. CASE UNCHANGED jsonVars
    BY <1>5 DEF jsonVars, JsonInv, JsonTyped
  <1>6. ASSUME NEW key \in Keys, NEW v \in {"true", "false"}, Field(key, "bool", v) PROVE JsonInv'
    <2>1. [key |-> key, kind |-> "bool", value |-> v] \in FieldTypes
      BY DEF FieldTypes
    <2> QED BY <1>2, <1>6, <2>1
  <1>7. ASSUME NEW key \in Keys, NEW v \in U32s, Field(key, "u32", v) PROVE JsonInv'
    <2>1. [key |-> key, kind |-> "u32", value |-> v] \in FieldTypes
      BY DEF FieldTypes
    <2> QED BY <1>2, <1>7, <2>1
  <1>8. ASSUME NEW key \in Keys, NEW v \in Strings, Field(key, "string", v) PROVE JsonInv'
    <2>1. [key |-> key, kind |-> "string", value |-> v] \in FieldTypes
      BY DEF FieldTypes
    <2> QED BY <1>2, <1>8, <2>1
  <1>9. ASSUME NEW key \in Keys, NEW v \in PeerDigits, Field(key, "peer", v) PROVE JsonInv'
    <2>1. [key |-> key, kind |-> "peer", value |-> v] \in FieldTypes
      BY DEF FieldTypes
    <2> QED BY <1>2, <1>9, <2>1
  <1> QED BY <1>1, <1>3, <1>4, <1>5, <1>6, <1>7, <1>8, <1>9 DEF JsonNext

\* A finished object, whose field i begins at place w[i].
Finished(w) ==
  /\ text \in Seq(Characters) /\ fields \in Seq(FieldTypes)
  /\ Laid(text, fields, w) /\ Len(text) = LastPlace(fields, w) + 1 /\ text[Len(text)] = Close

\* Where a field stands, and what follows it.
FieldAt(w, i) ==
  /\ w[i] \in Nat /\ 2 <= w[i] /\ PieceAt(text, w[i], fields[i])
  /\ ValueEnd(w[i], fields[i]) \in Nat /\ ValueEnd(w[i], fields[i]) < Len(text)
  /\ text[ValueEnd(w[i], fields[i]) + 1] \in {Comma, Close}
  /\ w[i] < ValueEnd(w[i], fields[i])
  /\ i < Len(fields) => w[i + 1] = ValueEnd(w[i], fields[i]) + 2
  /\ i = Len(fields) => Len(text) = ValueEnd(w[i], fields[i]) + 1

\* The fields of a finished object stand like that.
LEMMA FieldPlaces ==
  ASSUME NEW w, Finished(w), NEW i \in 1 .. Len(fields)
  PROVE  FieldAt(w, i)
  <1> DEFINE n == Len(fields)
             e == ValueEnd(w[i], fields[i])
  <1>0. text \in Seq(Characters) /\ fields \in Seq(FieldTypes) /\ n \in Nat /\ Len(text) \in Nat
        /\ Len(text) = LastPlace(fields, w) + 1 /\ text[Len(text)] = Close
    BY DEF Finished
  <1>1. /\ w \in [1 .. n -> Nat]
        /\ \A j \in 1 .. n : /\ w[j] = IF j = 1 THEN 2 ELSE ValueEnd(w[j - 1], fields[j - 1]) + 2
                             /\ j # 1 => text[w[j] - 1] = Comma
                             /\ PieceAt(text, w[j], fields[j])
                             /\ ValueEnd(w[j], fields[j]) <= Len(text)
    BY DEF Finished, Laid
  <1>2. ASSUME NEW j \in 1 .. n
        PROVE  w[j] \in Nat /\ ValueEnd(w[j], fields[j]) \in Nat /\ w[j] < ValueEnd(w[j], fields[j])
    <2>1. w[j] \in Nat
      <3>1. w \in [1 .. n -> Nat]
        BY <1>1
      <3> QED BY <3>1
    <2>2. fields[j] \in FieldTypes
      BY <1>0
    <2>3. Len(fields[j].key) \in Nat /\ Len(ValueOf(fields[j])) \in Nat
      BY <2>2, KeyType
    <2> QED BY <2>1, <2>3 DEF ValueEnd
  <1>3. 2 <= w[i]
    <2>1. CASE i = 1
      BY <1>1, <2>1
    <2>2. CASE i # 1
      <3>1. i - 1 \in 1 .. n
        BY <1>0, <2>2
      <3>2. ValueEnd(w[i - 1], fields[i - 1]) \in Nat
        BY <1>2, <3>1
      <3>3. w[i] = ValueEnd(w[i - 1], fields[i - 1]) + 2
        BY <1>1, <2>2
      <3> QED BY <3>2, <3>3
    <2> QED BY <2>1, <2>2
  <1>4. e \in Nat /\ w[i] \in Nat /\ w[i] < e
    BY <1>2
  <1>5. PieceAt(text, w[i], fields[i])
    BY <1>1
  <1> HIDE DEF e
  <1>6. CASE i < n
    <2>1. i + 1 \in 1 .. n /\ i + 1 # 1 /\ (i + 1) - 1 = i
      BY <1>0, <1>6
    <2>2. w[i + 1] = e + 2 /\ text[w[i + 1] - 1] = Comma
      BY <1>1, <2>1 DEF e
    <2>3. ValueEnd(w[i + 1], fields[i + 1]) <= Len(text)
      BY <1>1, <2>1
    <2>4. w[i + 1] \in Nat /\ ValueEnd(w[i + 1], fields[i + 1]) \in Nat
          /\ w[i + 1] < ValueEnd(w[i + 1], fields[i + 1])
      BY <1>2, <2>1
    <2>5. e < Len(text) /\ w[i + 1] - 1 = e + 1
      BY <1>0, <1>4, <2>2, <2>3, <2>4
    <2>6. i # n
      BY <1>6
    <2> QED BY <1>3, <1>4, <1>5, <2>2, <2>5, <2>6 DEF FieldAt, e
  <1>7. CASE i = n
    <2>1. Len(text) = e + 1
      BY <1>0, <1>7 DEF LastPlace, e
    <2>2. text[e + 1] = Close
      BY <1>0, <2>1
    <2>3. e < Len(text) /\ ~(i < n)
      BY <1>4, <1>7, <2>1
    <2> QED BY <1>3, <1>4, <1>5, <2>1, <2>2, <2>3 DEF FieldAt, e
  <1>8. i < n \/ i = n
    BY <1>0
  <1> QED BY <1>6, <1>7, <1>8

\* A quote stands in a field.
LEMMA QuoteInField ==
  ASSUME NEW w, Finished(w), NEW x \in 1 .. Len(text), text[x] = Quote
  PROVE  \E i \in 1 .. Len(fields) : w[i] <= x /\ x <= ValueEnd(w[i], fields[i])
  <1> DEFINE n == Len(fields)
             T == {i \in 1 .. n : w[i] <= x}
             i == Max(T)
  <1>0. text \in Seq(Characters) /\ fields \in Seq(FieldTypes) /\ n \in Nat /\ Len(text) \in Nat
        /\ Len(text) = LastPlace(fields, w) + 1 /\ text[Len(text)] = Close /\ text[1] = Open
        /\ (n # 0 => w[1] = 2)
    BY DEF Finished, Laid
  <1>1. x # 1 /\ x # Len(text) /\ x \in 2 .. Len(text) - 1
    <2>1. x # 1 /\ x # Len(text)
      BY <1>0, CharactersDiffer
    <2> QED BY <1>0, <2>1
  <1>2. n # 0
    <2>1. n = 0 => Len(text) = 2
      BY <1>0 DEF LastPlace
    <2>2. x <= Len(text) - 1 /\ 2 <= x
      BY <1>0, <1>1
    <2>3. Len(text) # 2
      BY <1>0, <2>2
    <2> QED BY <2>1, <2>3
  <1>3. T # {} /\ T \subseteq 0 .. n
    <2>1. 1 \in T
      BY <1>0, <1>1, <1>2
    <2> QED BY <1>0, <2>1
  <1>4. i \in T /\ \A j \in T : i >= j
    <2> HIDE DEF T
    <2> QED BY <1>0, <1>3, MaxInSet
  <1> HIDE DEF i
  <1>5. i \in 1 .. n /\ w[i] <= x
    BY <1>4
  <1>6. FieldAt(w, i)
    BY <1>5, FieldPlaces
  <1> DEFINE e == ValueEnd(w[i], fields[i])
  <1>7. e \in Nat /\ e < Len(text) /\ text[e + 1] \in {Comma, Close}
        /\ (i < n => w[i + 1] = e + 2) /\ (i = n => Len(text) = e + 1)
    BY <1>6 DEF FieldAt
  <1> HIDE DEF e
  <1>8. x # e + 1
    BY <1>7, CharactersDiffer
  <1>9. x <= e
    <2>1. CASE i = n
      BY <1>0, <1>1, <1>7, <2>1
    <2>2. CASE i # n
      <3>1. i + 1 \in 1 .. n /\ w[i + 1] = e + 2
        BY <1>0, <1>5, <1>7, <2>2
      <3>2. i + 1 \notin T
        BY <1>0, <1>4, <1>5
      <3>3. ~(w[i + 1] <= x)
        BY <3>1, <3>2
      <3> QED BY <1>1, <1>7, <1>8, <3>1, <3>3
    <2> QED BY <2>1, <2>2
  <1> QED BY <1>5, <1>9 DEF e

\* A quote ends a key, or follows a backslash or a colon, or is followed by
\* neither a space nor a colon.
LEMMA QuoteKinds ==
  ASSUME NEW w, Finished(w), NEW x \in 1 .. Len(text), text[x] = Quote
  PROVE  \/ \E i \in 1 .. Len(fields) : x = w[i] + Len(fields[i].key) + 1
         \/ x - 1 \in 1 .. Len(text) /\ text[x - 1] \in {Backslash, Colon}
         \/ x + 1 \in 1 .. Len(text) /\ text[x + 1] \notin {Space, Colon}
  <1>0. text \in Seq(Characters) /\ fields \in Seq(FieldTypes) /\ Len(text) \in Nat
    BY DEF Finished
  <1>1. PICK i \in 1 .. Len(fields) : w[i] <= x /\ x <= ValueEnd(w[i], fields[i])
    BY QuoteInField
  <1>2. FieldAt(w, i)
    BY FieldPlaces
  <1> DEFINE p == w[i]
             f == fields[i]
             k == f.key
             v == ValueOf(f)
             K == Len(k)
             N == Len(v)
             e == p + K + 2 + N
  <1>3. f \in FieldTypes
    BY <1>0
  <1>4. /\ K \in Nat /\ N \in Nat \ {0}
        /\ \A j \in 1 .. K : k[j] \notin {Quote, Backslash, Colon, Space}
        /\ \A j \in 1 .. N : v[j] = Quote => \/ j = 1 \/ j = N
                                             \/ j - 1 \in 1 .. N /\ v[j - 1] = Backslash
    BY <1>3, KeyType, ValueChars
  <1>5. /\ p \in Nat /\ 2 <= p /\ e < Len(text) /\ text[e + 1] \in {Comma, Close}
        /\ p <= x /\ x <= e
    BY <1>1, <1>2 DEF FieldAt, ValueEnd
  <1>6. /\ text[p] = Quote /\ \A j \in 1 .. K : text[p + j] = k[j]
        /\ text[p + K + 1] = Quote /\ text[p + K + 2] = Colon
        /\ \A j \in 1 .. N : text[p + K + 2 + j] = v[j]
    BY <1>2 DEF FieldAt, PieceAt
  <1> HIDE DEF p, f, k, v, K, N
  <1>7. CASE x = p
    <2>1. x + 1 \in 1 .. Len(text)
      BY <1>0, <1>4, <1>5, <1>7
    <2>2. CASE K = 0
      <3>1. x + 1 = p + K + 1
        BY <1>5, <1>7, <2>2
      <3> QED BY <1>6, <2>1, <3>1, CharactersDiffer
    <2>3. CASE K # 0
      <3>1. 1 \in 1 .. K
        BY <1>4, <2>3
      <3>2. text[x + 1] = k[1]
        BY <1>6, <1>7, <3>1
      <3> QED BY <1>4, <2>1, <3>1, <3>2
    <2> QED BY <2>2, <2>3
  <1>8. ASSUME NEW j \in 1 .. K, x = p + j PROVE FALSE
    BY <1>4, <1>6, <1>8
  <1>9. CASE x = p + K + 1
    BY <1>9 DEF p, K, k, f
  <1>10. x # p + K + 2
    BY <1>6, CharactersDiffer
  <1>11. ASSUME NEW j \in 1 .. N, x = p + K + 2 + j
         PROVE  \/ x - 1 \in 1 .. Len(text) /\ text[x - 1] \in {Backslash, Colon}
                \/ x + 1 \in 1 .. Len(text) /\ text[x + 1] \notin {Space, Colon}
    <2>1. v[j] = Quote
      BY <1>6, <1>11
    <2>2. x - 1 \in 1 .. Len(text) /\ x + 1 \in 1 .. Len(text)
      BY <1>0, <1>4, <1>5, <1>11
    <2>3. CASE j = 1
      <3>1. x - 1 = p + K + 2
        BY <1>4, <1>5, <1>11, <2>3
      <3> QED BY <1>6, <2>2, <3>1
    <2>4. CASE j = N
      <3>1. x + 1 = e + 1
        BY <1>4, <1>5, <1>11, <2>4
      <3>2. text[x + 1] \in {Comma, Close}
        BY <1>5, <3>1
      <3> QED BY <2>2, <3>2, CharactersDiffer
    <2>5. CASE j - 1 \in 1 .. N /\ v[j - 1] = Backslash
      <3>1. x - 1 = p + K + 2 + (j - 1)
        BY <1>4, <1>5, <1>11, <2>5
      <3>2. text[x - 1] = Backslash
        BY <1>6, <2>5, <3>1
      <3> QED BY <2>2, <3>2
    <2> QED BY <1>4, <2>1, <2>3, <2>4, <2>5
  <1>12. \/ x = p \/ x - p \in 1 .. K \/ x = p + K + 1 \/ x = p + K + 2
         \/ x - (p + K + 2) \in 1 .. N
    BY <1>4, <1>5
  <1>13. x - p \in 1 .. K => FALSE
    <2>1. x = p + (x - p)
      BY <1>5
    <2> QED BY <1>8, <2>1
  <1>14. CASE x - (p + K + 2) \in 1 .. N
    <2>1. x = p + K + 2 + (x - (p + K + 2))
      BY <1>4, <1>5
    <2> QED BY <1>11, <1>14, <2>1
  <1> QED BY <1>7, <1>9, <1>10, <1>12, <1>13, <1>14

\* The characters that stand at a place.
LEMMA AtIs ==
  ASSUME text \in Seq(Characters), NEW p \in Nat \ {0}, NEW chars \in Seq(Characters), Len(chars) # 0
  PROVE  At(p, chars) <=> /\ p + Len(chars) - 1 <= Len(text)
                          /\ \A j \in 1 .. Len(chars) : text[p + j - 1] = chars[j]
  <1> DEFINE n == Len(chars)
             q == p + n - 1
             part == SubSeq(text, p, q)
  <1>1. n \in Nat \ {0} /\ Len(text) \in Nat /\ q \in Nat /\ p <= q
    OBVIOUS
  <1> SUFFICES ASSUME q <= Len(text)
               PROVE  (part = chars) <=> \A j \in 1 .. n : text[p + j - 1] = chars[j]
    BY DEF At
  <1>2. part \in Seq(Characters) /\ Len(part) = n /\ \A j \in 1 .. n : part[j] = text[p + j - 1]
    <2>1. \A i \in 1 .. Len(text) + 1, j \in 0 .. Len(text) :
            i <= j + 1 => /\ SubSeq(text, i, j) \in Seq(Characters)
                          /\ Len(SubSeq(text, i, j)) = j - i + 1
                          /\ \A x \in 1 .. j - i + 1 : SubSeq(text, i, j)[x] = text[i + x - 1]
      OBVIOUS
    <2>2. p \in 1 .. Len(text) + 1 /\ q \in 0 .. Len(text) /\ p <= q + 1 /\ q - p + 1 = n
      BY <1>1
    <2> HIDE DEF q
    <2>3. /\ part \in Seq(Characters) /\ Len(part) = q - p + 1
          /\ \A x \in 1 .. q - p + 1 : part[x] = text[p + x - 1]
      BY <2>1, <2>2
    <2> QED BY <2>2, <2>3
  <1> HIDE DEF part
  <1>3. ASSUME \A j \in 1 .. n : text[p + j - 1] = chars[j] PROVE part = chars
    BY <1>2, <1>3, SeqEqual
  <1> QED BY <1>2, <1>3

\* One character at a place.
LEMMA AtOne ==
  ASSUME text \in Seq(Characters), NEW p \in Nat \ {0}, NEW c \in Characters
  PROVE  At(p, <<c>>) <=> p <= Len(text) /\ text[p] = c
  <1> DEFINE s == <<c>>
  <1>1. s \in Seq(Characters) /\ Len(s) = 1 /\ s[1] = c
    OBVIOUS
  <1> HIDE DEF s
  <1>2. At(p, s) <=> /\ p + Len(s) - 1 <= Len(text)
                     /\ \A j \in 1 .. Len(s) : text[p + j - 1] = s[j]
    <2>1. Len(s) # 0
      BY <1>1
    <2> QED BY <1>1, <2>1, AtIs
  <1>3. p + Len(s) - 1 = p
    BY <1>1
  <1>4. (\A j \in 1 .. Len(s) : text[p + j - 1] = s[j]) <=> text[p] = c
    BY <1>1
  <1> QED BY <1>2, <1>3, <1>4 DEF s

\* A quoted key at a place.
LEMMA AtQuoted ==
  ASSUME text \in Seq(Characters), NEW p \in Nat \ {0}, NEW key \in Seq(Characters)
  PROVE  At(p, <<Quote>> \o key \o <<Quote>>)
         <=> /\ p + Len(key) + 1 <= Len(text)
             /\ text[p] = Quote /\ text[p + Len(key) + 1] = Quote
             /\ \A j \in 1 .. Len(key) : text[p + j] = key[j]
  <1> DEFINE q == <<Quote>>
             a == q \o key
             b == a \o q
             K == Len(key)
  <1>1. q \in Seq(Characters) /\ Len(q) = 1 /\ q[1] = Quote
    BY CharacterTypes
  <1>2. K \in Nat /\ Len(text) \in Nat
    OBVIOUS
  <1> HIDE DEF q
  <1>3. a \in Seq(Characters) /\ Len(a) = K + 1 /\ a[1] = Quote /\ \A j \in 1 .. K : a[1 + j] = key[j]
    <2>1. Joins(a, q, key)
      BY <1>1, Concatenated
    <2> HIDE DEF a
    <2> QED BY <1>1, <1>2, <2>1 DEF Joins
  <1> HIDE DEF a
  <1>4. /\ b \in Seq(Characters) /\ Len(b) = K + 2 /\ b[1] = Quote /\ b[K + 2] = Quote
        /\ \A j \in 1 .. K : b[1 + j] = key[j]
    <2>1. Joins(b, a, q)
      BY <1>1, <1>3, Concatenated
    <2> HIDE DEF b
    <2>2. /\ b \in Seq(Characters) /\ Len(b) = K + 2
          /\ \A j \in 1 .. K + 1 : b[j] = a[j]
          /\ b[K + 1 + 1] = Quote
      BY <1>1, <1>2, <1>3, <2>1 DEF Joins
    <2>3. 1 \in 1 .. K + 1 /\ K + 1 + 1 = K + 2 /\ \A j \in 1 .. K : 1 + j \in 1 .. K + 1
      BY <1>2
    <2> QED BY <1>3, <2>2, <2>3
  <1> HIDE DEF b
  <1>5. At(p, b) <=> /\ p + Len(b) - 1 <= Len(text)
                     /\ \A j \in 1 .. Len(b) : text[p + j - 1] = b[j]
    <2>1. Len(b) # 0
      BY <1>2, <1>4
    <2> QED BY <1>4, <2>1, AtIs
  <1>6. p + Len(b) - 1 = p + K + 1
    BY <1>2, <1>4
  <1> HIDE DEF K
  <1>7. ASSUME \A j \in 1 .. Len(b) : text[p + j - 1] = b[j]
        PROVE  text[p] = Quote /\ text[p + K + 1] = Quote /\ \A j \in 1 .. K : text[p + j] = key[j]
    <2>1. 1 \in 1 .. Len(b) /\ p + 1 - 1 = p /\ K + 2 \in 1 .. Len(b) /\ p + (K + 2) - 1 = p + K + 1
      BY <1>2, <1>4
    <2>2. \A j \in 1 .. K : 1 + j \in 1 .. Len(b) /\ p + (1 + j) - 1 = p + j
      BY <1>2, <1>4
    <2> QED BY <1>4, <1>7, <2>1, <2>2
  <1>8. ASSUME text[p] = Quote, text[p + K + 1] = Quote, \A j \in 1 .. K : text[p + j] = key[j],
               NEW j \in 1 .. Len(b)
        PROVE  text[p + j - 1] = b[j]
    <2>1. CASE j = 1
      BY <1>4, <1>8, <2>1
    <2>2. CASE j = K + 2
      <3>1. p + j - 1 = p + K + 1
        BY <1>2, <2>2
      <3> QED BY <1>4, <1>8, <2>2, <3>1
    <2>3. CASE j # 1 /\ j # K + 2
      <3>1. j - 1 \in 1 .. K /\ 1 + (j - 1) = j /\ p + (j - 1) = p + j - 1
        BY <1>2, <1>4, <2>3
      <3> QED BY <1>4, <1>8, <3>1
    <2> QED BY <2>1, <2>2, <2>3
  <1> QED BY <1>5, <1>6, <1>7, <1>8 DEF a, b, q, K

\* Nothing is skipped where no space stands.
LEMMA NoSpace ==
  ASSUME text \in Seq(Characters), NEW p \in 1 .. Len(text), text[p] # Space
  PROVE  SkipSpace(p) = p
  <1> DEFINE S == {q \in p .. Len(text) + 1 : q = Len(text) + 1 \/ text[q] # Space}
  <1>1. p \in S /\ S # {} /\ S \subseteq Nat /\ \A q \in S : p <= q
    <2>1. Len(text) \in Nat
      OBVIOUS
    <2> QED BY <2>1
  <1> HIDE DEF S
  <1>2. Min(S) \in S /\ \A y \in S : Min(S) <= y
    BY <1>1, MinInSet
  <1>3. Min(S) = p
    <2> DEFINE m == Min(S)
    <2>1. m \in Nat /\ p <= m /\ m <= p
      BY <1>1, <1>2
    <2> HIDE DEF m
    <2>2. m = p
      BY <2>1
    <2> QED BY <2>2 DEF m
  <1> QED BY <1>3 DEF SkipSpace, S

-----------------------------------------------------------------------------
\* The places where find_value() would stop.
Starts(key) ==
  {p \in DOMAIN text : /\ At(p, <<Quote>> \o key \o <<Quote>>)
                       /\ At(SkipSpace(p + Len(key) + 2), <<Colon>>)}

\* A key is a name, so no character of it is one that the scanner looks for.
LEMMA KeysPlain ==
  ASSUME NEW key \in Keys
  PROVE  /\ key \in Seq(Characters) /\ Len(key) \in Nat
         /\ \A j \in 1 .. Len(key) : key[j] \notin {Quote, Backslash, Colon, Space}
  <1>2. key \in Seq(Characters)
    BY JsonAssumption
  <1>3. ToSet(key) \cap {Quote, Backslash, Colon, Space} = {}
    BY JsonAssumption
  <1>4. \A j \in 1 .. Len(key) : key[j] \in ToSet(key)
    BY <1>2 DEF ToSet
  <1> QED BY <1>2, <1>3, <1>4

\* find_value() stops only where a field of that key begins: it takes neither
\* a quote of a string, nor one that was escaped, for one of a key.
LEMMA StartsAreFields ==
  ASSUME NEW w, Finished(w), NEW key \in Keys, NEW p \in Starts(key)
  PROVE  \E i \in 1 .. Len(fields) : p = w[i] /\ fields[i].key = key
  <1> DEFINE K == Len(key)
             x == p + K + 1
  <1>0. text \in Seq(Characters) /\ fields \in Seq(FieldTypes) /\ Len(text) \in Nat
        /\ Len(fields) \in Nat
    BY DEF Finished
  <1>1. p \in 1 .. Len(text) /\ At(p, <<Quote>> \o key \o <<Quote>>)
        /\ At(SkipSpace(p + Len(key) + 2), <<Colon>>)
    BY <1>0 DEF Starts
  <1>2. key \in Seq(Characters) /\ K \in Nat
        /\ \A j \in 1 .. K : key[j] \notin {Quote, Backslash, Colon, Space}
    BY KeysPlain
  <1>3. x <= Len(text) /\ text[p] = Quote /\ text[x] = Quote /\ \A j \in 1 .. K : text[p + j] = key[j]
    BY <1>0, <1>1, <1>2, AtQuoted
  <1> HIDE DEF K
  <1>4. \A y \in Nat : p < y /\ y < x => text[y] \notin {Quote, Backslash, Colon, Space}
    <2> SUFFICES ASSUME NEW y \in Nat, p < y, y < x
                 PROVE  text[y] \notin {Quote, Backslash, Colon, Space}
      OBVIOUS
    <2>1. y - p \in 1 .. K /\ p + (y - p) = y
      BY <1>1, <1>2
    <2> QED BY <1>2, <1>3, <2>1
  <1>5. x \in 1 .. Len(text)
    BY <1>0, <1>1, <1>2, <1>3
  <1>6. ~(x - 1 \in 1 .. Len(text) /\ text[x - 1] \in {Backslash, Colon})
    <2>1. CASE x - 1 = p
      BY <1>3, <2>1, CharactersDiffer
    <2>2. CASE x - 1 # p
      <3>1. x - 1 \in Nat /\ p < x - 1 /\ x - 1 < x
        BY <1>1, <1>2, <2>2
      <3> HIDE DEF x
      <3> QED BY <1>4, <3>1
    <2> QED BY <2>1, <2>2
  <1>7. ~(x + 1 \in 1 .. Len(text) /\ text[x + 1] \notin {Space, Colon})
    <2> SUFFICES ASSUME x + 1 \in 1 .. Len(text), text[x + 1] \notin {Space, Colon} PROVE FALSE
      OBVIOUS
    <2>1. p + Len(key) + 2 = x + 1
      BY <1>1, <1>2 DEF K
    <2>2. SkipSpace(x + 1) = x + 1
      BY <1>0, NoSpace
    <2>3. At(x + 1, <<Colon>>)
      BY <1>1, <2>1, <2>2
    <2>4. x + 1 \in Nat \ {0} /\ Colon \in Characters
      BY <1>0, CharacterTypes
    <2> QED BY <1>0, <2>3, <2>4, AtOne
  <1>8. PICK i \in 1 .. Len(fields) : x = w[i] + Len(fields[i].key) + 1
    <2> HIDE DEF x
    <2> QED BY <1>3, <1>5, <1>6, <1>7, QuoteKinds
  <1> DEFINE k == fields[i].key
             q == w[i]
  <1>9. /\ q \in Nat /\ 2 <= q /\ text[q] = Quote /\ \A j \in 1 .. Len(k) : text[q + j] = k[j]
    BY FieldPlaces DEF FieldAt, PieceAt
  <1>10. k \in Seq(Characters) /\ Len(k) \in Nat
         /\ \A j \in 1 .. Len(k) : k[j] \notin {Quote, Backslash, Colon, Space}
    <2>1. fields[i] \in FieldTypes
      BY <1>0
    <2> QED BY <2>1, KeyType
  <1>11. x = q + Len(k) + 1
    BY <1>8
  <1> HIDE DEF q, k
  <1>12. q = p
    <2>1. CASE p < q
      <3>1. q < x
        BY <1>9, <1>10, <1>11
      <3> HIDE DEF x
      <3> QED BY <1>4, <1>9, <2>1, <3>1
    <2>2. CASE q < p
      <3>1. p - q \in 1 .. Len(k) /\ q + (p - q) = p
        BY <1>1, <1>2, <1>9, <1>10, <1>11, <2>2
      <3> QED BY <1>3, <1>9, <1>10, <3>1
    <2> QED BY <1>1, <1>9, <2>1, <2>2
  <1>13. Len(k) = K
    BY <1>1, <1>2, <1>10, <1>11, <1>12
  <1>14. \A j \in 1 .. K : k[j] = key[j]
    BY <1>3, <1>9, <1>12, <1>13
  <1>15. k = key
    BY <1>2, <1>10, <1>13, <1>14, SeqEqual DEF K
  <1> QED BY <1>12, <1>15 DEF q, k

\* A later field stands at a later place.
LEMMA FieldsInOrder ==
  ASSUME NEW w, Finished(w)
  PROVE  \A i, j \in 1 .. Len(fields) : i <= j => w[i] <= w[j]
  <1> DEFINE n == Len(fields)
             P == {d \in Nat : \A i \in 1 .. n : i + d <= n => w[i] <= w[i + d]}
  <1>0. n \in Nat
    BY DEF Finished
  <1>1. ASSUME NEW i \in 1 .. n
        PROVE  w[i] \in Nat /\ (i < n => w[i] < w[i + 1])
    <2>1. FieldAt(w, i)
      BY FieldPlaces
    <2> DEFINE e == ValueEnd(w[i], fields[i])
    <2>2. w[i] \in Nat /\ e \in Nat /\ w[i] < e /\ (i < n => w[i + 1] = e + 2)
      BY <2>1 DEF FieldAt
    <2> HIDE DEF e
    <2> QED BY <2>2
  <1>2. 0 \in P
    BY <1>1
  <1>3. ASSUME NEW d \in P PROVE d + 1 \in P
    <2> SUFFICES ASSUME NEW i \in 1 .. n, i + (d + 1) <= n PROVE w[i] <= w[i + (d + 1)]
      OBVIOUS
    <2>1. i + d \in 1 .. n /\ i + d < n /\ (i + d) + 1 = i + (d + 1) /\ i + d <= n
          /\ i + (d + 1) \in 1 .. n
      BY <1>0
    <2>2. w[i] <= w[i + d]
      BY <2>1
    <2>3. w[i + d] \in Nat /\ w[i + d] < w[i + (d + 1)] /\ w[i] \in Nat /\ w[i + (d + 1)] \in Nat
      BY <1>1, <2>1
    <2> QED BY <2>2, <2>3
  <1>4. P = Nat
    <2>1. P \subseteq Nat
      OBVIOUS
    <2> HIDE DEF P
    <2> QED BY <1>2, <1>3, <2>1, EveryNatural
  <1>5. ASSUME NEW i \in 1 .. n, NEW j \in 1 .. n, i <= j PROVE w[i] <= w[j]
    <2>1. j - i \in P /\ i + (j - i) = j /\ i + (j - i) <= n
      <3> HIDE DEF P
      <3> QED BY <1>0, <1>4, <1>5
    <2>2. w[i] <= w[i + (j - i)]
      BY <2>1
    <2> QED BY <2>1, <2>2
  <1> QED BY <1>5

\* The place of a field's value.
ValueStart(w, i) == w[i] + Len(fields[i].key) + 3

\* find_value() finds every field.
LEMMA FieldsAreStarts ==
  ASSUME NEW w, Finished(w), NEW i \in 1 .. Len(fields)
  PROVE  /\ w[i] \in Starts(fields[i].key)
         /\ SkipSpace(w[i] + Len(fields[i].key) + 2) = w[i] + Len(fields[i].key) + 2
         /\ SkipSpace(ValueStart(w, i)) = ValueStart(w, i)
  <1> DEFINE p == w[i]
             k == fields[i].key
             v == ValueOf(fields[i])
             K == Len(k)
             N == Len(v)
  <1>0. text \in Seq(Characters) /\ fields[i] \in FieldTypes /\ Len(text) \in Nat
    BY DEF Finished
  <1>1. k \in Seq(Characters) /\ K \in Nat /\ N \in Nat \ {0} /\ v[1] # Space
    BY <1>0, KeyType, ValueChars
  <1>2. /\ p \in Nat /\ 2 <= p /\ p + K + 2 + N < Len(text)
        /\ text[p] = Quote /\ \A j \in 1 .. K : text[p + j] = k[j]
        /\ text[p + K + 1] = Quote /\ text[p + K + 2] = Colon
        /\ \A j \in 1 .. N : text[p + K + 2 + j] = v[j]
    BY FieldPlaces DEF FieldAt, PieceAt, ValueEnd
  <1> HIDE DEF p, k, v, K, N
  <1>3. p \in DOMAIN text /\ p \in Nat \ {0} /\ p + K + 1 <= Len(text)
        /\ p + K + 2 \in 1 .. Len(text) /\ p + K + 3 \in 1 .. Len(text)
    <2>1. p \in Nat /\ 2 <= p /\ K \in Nat /\ N \in Nat \ {0} /\ p + K + 2 + N < Len(text)
      BY <1>1, <1>2
    <2>2. DOMAIN text = 1 .. Len(text)
      BY <1>0
    <2>3. p \in 1 .. Len(text)
      BY <1>0, <2>1
    <2> QED BY <1>0, <2>1, <2>2, <2>3
  <1>4. At(p, <<Quote>> \o k \o <<Quote>>)
    BY <1>0, <1>1, <1>2, <1>3, AtQuoted DEF K
  <1>5. SkipSpace(p + K + 2) = p + K + 2
    BY <1>0, <1>2, <1>3, NoSpace, CharactersDiffer
  <1>6. At(p + K + 2, <<Colon>>)
    <2>1. p + K + 2 \in Nat \ {0} /\ p + K + 2 <= Len(text) /\ Colon \in Characters
      BY <1>0, <1>3, CharacterTypes
    <2> QED BY <1>0, <1>2, <2>1, AtOne
  <1>7. SkipSpace(p + K + 3) = p + K + 3
    <2>1. 1 \in 1 .. N /\ p + K + 2 + 1 = p + K + 3
      BY <1>1, <1>2
    <2>2. text[p + K + 3] # Space
      BY <1>1, <1>2, <2>1
    <2> QED BY <1>0, <1>3, <2>2, NoSpace
  <1>8. p \in Starts(k)
    BY <1>3, <1>4, <1>5, <1>6 DEF Starts, K
  <1> QED BY <1>5, <1>7, <1>8 DEF ValueStart, p, k, K

\* The fields of a key.
Mine(key) == {i \in DOMAIN fields : fields[i].key = key}

\* find_value() gives the value of the first field with the key.
LEMMA FirstFieldFound ==
  ASSUME NEW w, Finished(w), NEW key \in Keys
  PROVE  /\ Mine(key) = {} => FindValue(key) = Len(text) + 1
         /\ Mine(key) # {} => /\ Min(Mine(key)) \in Mine(key)
                              /\ FindValue(key) = ValueStart(w, Min(Mine(key)))
  <1>0. text \in Seq(Characters) /\ fields \in Seq(FieldTypes) /\ Len(text) \in Nat
    BY DEF Finished
  <1>1. Mine(key) = {i \in 1 .. Len(fields) : fields[i].key = key}
    BY <1>0 DEF Mine
  <1>2. FindValue(key) = IF Starts(key) = {} THEN Len(text) + 1
                         ELSE SkipSpace(SkipSpace(Min(Starts(key)) + Len(key) + 2) + 1)
    BY DEF FindValue, Starts
  <1>3. CASE Mine(key) = {}
    <2>1. Starts(key) = {}
      BY <1>1, <1>3, StartsAreFields
    <2> QED BY <1>2, <1>3, <2>1
  <1>4. CASE Mine(key) # {}
    <2> DEFINE m == Min(Mine(key))
               p == Min(Starts(key))
    <2>1. m \in Mine(key) /\ \A i \in Mine(key) : m <= i
      <3>1. Mine(key) \subseteq Nat
        BY <1>1
      <3> QED BY <1>4, <3>1, MinInSet
    <2> HIDE DEF m
    <2>2. m \in 1 .. Len(fields) /\ fields[m].key = key
      BY <1>1, <2>1
    <2>3. /\ w[m] \in Starts(key)
          /\ SkipSpace(w[m] + Len(key) + 2) = w[m] + Len(key) + 2
          /\ SkipSpace(w[m] + Len(key) + 3) = w[m] + Len(key) + 3
      BY <2>2, FieldsAreStarts DEF ValueStart
    <2>4. Starts(key) \subseteq Nat /\ Starts(key) # {}
      BY <1>0, <2>3 DEF Starts
    <2>5. p \in Starts(key) /\ \A y \in Starts(key) : p <= y
      BY <2>4, MinInSet
    <2> HIDE DEF p
    <2>6. p <= w[m] /\ p \in Nat /\ w[m] \in Nat
      BY <2>3, <2>4, <2>5
    <2>7. PICK i \in 1 .. Len(fields) : p = w[i] /\ fields[i].key = key
      BY <2>5, StartsAreFields
    <2>8. m <= i
      BY <1>1, <2>1, <2>7
    <2>9. w[m] <= p
      BY <2>2, <2>7, <2>8, FieldsInOrder
    <2>10. p = w[m]
      BY <2>6, <2>9
    <2>11. w[m] + Len(key) + 2 + 1 = w[m] + Len(key) + 3
      BY <2>6, KeysPlain
    <2>12. FindValue(key) = SkipSpace(SkipSpace(p + Len(key) + 2) + 1)
      BY <1>2, <2>4 DEF p
    <2>13. FindValue(key) = w[m] + Len(key) + 3
      BY <2>3, <2>10, <2>11, <2>12
    <2> QED BY <1>4, <2>1, <2>2, <2>13 DEF ValueStart, m
  <1> QED BY <1>3, <1>4

\* Field i, as the getters meet it.
ValueAt(w, i) ==
  LET s == ValueStart(w, i)
      v == ValueOf(fields[i])
  IN  /\ s \in Nat \ {0} /\ s + Len(v) <= Len(text)
      /\ \A j \in 1 .. Len(v) : text[s + j - 1] = v[j]
      /\ text[s + Len(v)] \in {Comma, Close}

\* The getters meet every field of a finished object like that.
LEMMA ValuePlaces ==
  ASSUME NEW w, Finished(w), NEW i \in 1 .. Len(fields) PROVE ValueAt(w, i)
  <1> DEFINE s == ValueStart(w, i)
             v == ValueOf(fields[i])
             N == Len(v)
             K == Len(fields[i].key)
             p == w[i]
  <1>0. fields[i] \in FieldTypes /\ Len(text) \in Nat
    BY DEF Finished
  <1>1. K \in Nat /\ N \in Nat
    BY <1>0, KeyType
  <1>2. /\ p \in Nat /\ p + K + 2 + N < Len(text) /\ text[p + K + 2 + N + 1] \in {Comma, Close}
        /\ \A j \in 1 .. N : text[p + K + 2 + j] = v[j]
    BY FieldPlaces DEF FieldAt, PieceAt, ValueEnd
  <1>3. s = p + K + 3
    BY DEF ValueStart
  <1> HIDE DEF s, v, N, K, p
  <1>4. s \in Nat \ {0} /\ s + N <= Len(text) /\ s + N = p + K + 2 + N + 1
    BY <1>0, <1>1, <1>2, <1>3
  <1>5. ASSUME NEW j \in 1 .. N PROVE text[s + j - 1] = v[j]
    <2>1. s + j - 1 = p + K + 2 + j
      BY <1>1, <1>2, <1>3
    <2> QED BY <1>2, <2>1
  <1> QED BY <1>2, <1>4, <1>5 DEF ValueAt, s, v, N

\* What was not written is not found.
LEMMA NothingFound ==
  ASSUME text \in Seq(Characters), NEW key, FindValue(key) = Len(text) + 1, NEW cap
  PROVE  GetBool(key) = Absent /\ GetU32(key) = Absent /\ GetString(key, cap) = Absent
  <1> DEFINE p == Len(text) + 1
  <1>1. p \in Nat \ {0} /\ Len(text) \in Nat /\ ~(p <= Len(text))
    OBVIOUS
  <1>2. ~At(p, True)
    <2>1. p + Len(True) - 1 = Len(text) + 4
      BY <1>1, CharactersDiffer
    <2>2. ~(Len(text) + 4 <= Len(text))
      BY <1>1
    <2> QED BY <2>1, <2>2 DEF At
  <1>3. ~At(p, False)
    <2>1. p + Len(False) - 1 = Len(text) + 5
      BY <1>1, CharactersDiffer
    <2>2. ~(Len(text) + 5 <= Len(text))
      BY <1>1
    <2> QED BY <2>1, <2>2 DEF At
  <1>4. ~At(p, <<Quote>>)
    BY <1>1, AtOne, CharacterTypes
  <1> HIDE DEF p
  <1>5. FindValue(key) = p
    BY DEF p
  <1> QED BY <1>1, <1>2, <1>3, <1>4, <1>5 DEF GetBool, GetU32, GetString

\* A truth value.
LEMMA BoolRead ==
  ASSUME NEW w, Finished(w), NEW i \in 1 .. Len(fields), NEW key,
         FindValue(key) = ValueStart(w, i), fields[i].kind = "bool"
  PROVE  GetBool(key) = {fields[i].value}
  <1> DEFINE s == ValueStart(w, i)
             v == ValueOf(fields[i])
  <1>0. text \in Seq(Characters) /\ fields[i] \in FieldTypes /\ Len(text) \in Nat
    BY DEF Finished
  <1>1. \/ fields[i].value = "true" /\ v = True
        \/ fields[i].value = "false" /\ v = False
    BY <1>0, FieldKinds
  <1>2. /\ s \in Nat \ {0} /\ s + Len(v) <= Len(text)
        /\ \A j \in 1 .. Len(v) : text[s + j - 1] = v[j]
    BY ValuePlaces DEF ValueAt
  <1>3. v \in Seq(Characters) /\ Len(v) \in Nat \ {0}
    BY <1>0, ValueChars
  <1> HIDE DEF s, v
  <1>4. At(s, v)
    <2>1. s + Len(v) - 1 <= Len(text) /\ Len(v) # 0
      <3>1. Len(v) \in Nat /\ Len(v) # 0
        BY <1>3
      <3>2. s \in Nat /\ s + Len(v) <= Len(text)
        BY <1>2
      <3> QED BY <1>0, <3>1, <3>2
    <2> QED BY <1>0, <1>2, <1>3, <2>1, AtIs
  <1>5. v = False => ~At(s, True)
    <2> SUFFICES ASSUME v = False, At(s, True) PROVE FALSE
      OBVIOUS
    <2>1. 1 \in 1 .. Len(True) /\ 1 \in 1 .. Len(v) /\ Len(True) # 0 /\ s + 1 - 1 = s
      BY <1>2, <1>3, CharactersDiffer
    <2>2. \A j \in 1 .. Len(True) : text[s + j - 1] = True[j]
      BY <1>0, <1>2, <2>1, AtIs, CharacterTypes
    <2>3. text[s] = True[1]
      BY <2>1, <2>2
    <2>4. text[s] = False[1]
      BY <1>2, <2>1
    <2> QED BY <2>3, <2>4, CharactersDiffer
  <1>6. FindValue(key) = s
    BY DEF s
  <1> QED BY <1>1, <1>4, <1>5, <1>6 DEF GetBool

\* A number, of any length.
LEMMA NumberRead ==
  ASSUME NEW w, Finished(w), NEW i \in 1 .. Len(fields), NEW key,
         FindValue(key) = ValueStart(w, i),
         ValueOf(fields[i]) \in Seq(DigitChars), Len(ValueOf(fields[i])) # 0
  PROVE  GetU32(key) = {Number(ValueOf(fields[i]))} \cap 0 .. U32Max
  <1> DEFINE s == ValueStart(w, i)
             v == ValueOf(fields[i])
             N == Len(v)
             IsDigit(q) == q <= Len(text) /\ text[q] \in ToSet(Digits)
             E == {q \in s .. Len(text) + 1 : ~IsDigit(q)}
             end == Min(E)
  <1>0. text \in Seq(Characters) /\ Len(text) \in Nat /\ v \in Seq(DigitChars) /\ N \in Nat \ {0}
    BY DEF Finished
  <1>1. /\ s \in Nat \ {0} /\ s + N <= Len(text) /\ text[s + N] \in {Comma, Close}
        /\ \A j \in 1 .. N : text[s + j - 1] = v[j]
    BY ValuePlaces DEF ValueAt
  <1>2. FindValue(key) = s
    OBVIOUS
  <1>3. GetU32(key) = IF IsDigit(s) THEN Parsed(SubSeq(text, s, end - 1)) ELSE Absent
    BY <1>2 DEF GetU32
  <1> HIDE DEF s, v, N
  <1>4. ASSUME NEW q \in Nat, s <= q, q < s + N PROVE IsDigit(q)
    <2>1. q - s + 1 \in 1 .. N /\ s + (q - s + 1) - 1 = q
      BY <1>0, <1>1, <1>4
    <2>2. text[q] = v[q - s + 1]
      BY <1>1, <2>1
    <2>3. v[q - s + 1] \in DigitChars
      BY <1>0, <2>1 DEF N
    <2>4. q <= Len(text)
      BY <1>0, <1>1, <1>4
    <2> QED BY <2>2, <2>3, <2>4 DEF DigitChars
  <1>5. ~IsDigit(s + N)
    BY <1>1, DigitsPlain DEF DigitChars
  <1>6. s + N \in E /\ E \subseteq Nat /\ \A q \in E : s + N <= q
    <2>1. s + N \in s .. Len(text) + 1
      BY <1>0, <1>1
    <2>2. E \subseteq s .. Len(text) + 1
      OBVIOUS
    <2>3. s .. Len(text) + 1 \subseteq Nat
      BY <1>0, <1>1
    <2>4. ASSUME NEW q \in E PROVE s + N <= q
      <3>1. q \in Nat /\ s <= q /\ ~IsDigit(q)
        BY <2>2, <1>0, <1>1
      <3> HIDE DEF IsDigit
      <3>2. ~(q < s + N)
        BY <1>4, <3>1
      <3> QED BY <1>0, <1>1, <3>1, <3>2
    <2> HIDE DEF IsDigit
    <2> QED BY <1>5, <2>1, <2>2, <2>3, <2>4
  <1> HIDE DEF E
  <1>7. end \in E /\ \A q \in E : end <= q
    BY <1>6, MinInSet
  <1> HIDE DEF end
  <1>8. end - 1 = s + N - 1 /\ end = s + N
    <2>1. end \in Nat /\ end <= s + N /\ s + N <= end
      BY <1>6, <1>7
    <2> QED BY <1>0, <1>1, <2>1
  <1>9. SubSeq(text, s, s + N - 1) = v
    <2> DEFINE u == SubSeq(text, s, s + N - 1)
    <2>1. \A a \in 1 .. Len(text) + 1, b \in 0 .. Len(text) :
            a <= b + 1 => /\ SubSeq(text, a, b) \in Seq(Characters)
                          /\ Len(SubSeq(text, a, b)) = b - a + 1
                          /\ \A x \in 1 .. b - a + 1 : SubSeq(text, a, b)[x] = text[a + x - 1]
      BY <1>0
    <2> DEFINE q == s + N - 1
    <2>2. s \in 1 .. Len(text) + 1 /\ q \in 0 .. Len(text) /\ s <= q + 1 /\ q - s + 1 = N
      BY <1>0, <1>1
    <2> HIDE DEF q
    <2>3. u \in Seq(Characters) /\ Len(u) = q - s + 1
          /\ \A x \in 1 .. q - s + 1 : u[x] = text[s + x - 1]
      BY <2>1, <2>2 DEF q
    <2> HIDE DEF u
    <2>4. Len(u) = N /\ \A x \in 1 .. N : u[x] = v[x]
      BY <1>1, <2>2, <2>3
    <2>5. v \in Seq(Characters)
      BY <1>0, CharacterTypes
    <2>6. u = v
      BY <2>3, <2>4, <2>5, SeqEqual DEF N
    <2> QED BY <2>6 DEF u
  <1>10. IsDigit(s)
    BY <1>0, <1>1, <1>4
  <1>11. Parsed(v) = {Number(v)} \cap 0 .. U32Max
    BY <1>0, ParsedIsNumber
  <1> HIDE DEF IsDigit
  <1> QED BY <1>3, <1>8, <1>9, <1>10, <1>11 DEF v

\* A string, into a buffer that has room for it.
LEMMA StringRead ==
  ASSUME NEW w, Finished(w), NEW i \in 1 .. Len(fields), NEW key,
         FindValue(key) = ValueStart(w, i), fields[i].kind = "string"
  PROVE  GetString(key, Len(fields[i].value) + 1) = {fields[i].value}
  <1> DEFINE s == ValueStart(w, i)
             v == ValueOf(fields[i])
             x == fields[i].value
             e == Escaped(x)
  <1>0. text \in Seq(Characters) /\ fields[i] \in FieldTypes /\ Len(text) \in Nat
    BY DEF Finished
  <1>1. x \in Strings /\ v = <<Quote>> \o Escaped(x) \o <<Quote>>
    BY <1>0, FieldKinds
  <1>2. x \in Seq(Characters)
    BY <1>1, JsonAssumption
  <1>3. /\ s \in Nat \ {0} /\ s + Len(v) <= Len(text)
        /\ \A j \in 1 .. Len(v) : text[s + j - 1] = v[j]
    BY ValuePlaces DEF ValueAt
  <1> HIDE DEF s, v, x
  <1>4. /\ Len(v) = Len(e) + 2 /\ v[1] = Quote /\ v[Len(v)] = Quote
        /\ \A j \in 1 .. Len(e) : v[j + 1] = e[j]
    BY <1>1, <1>2, QuotedString
  <1>5. Len(e) \in Nat /\ Len(x) \in Nat
    BY <1>2, SpellingExists
  <1> HIDE DEF e
  <1>6. s <= Len(text) /\ text[s] = Quote
    <2>1. 1 \in 1 .. Len(v) /\ s + 1 - 1 = s /\ s <= Len(text)
      BY <1>0, <1>3, <1>4, <1>5
    <2> QED BY <1>3, <1>4, <2>1
  <1>7. At(s, <<Quote>>)
    BY <1>0, <1>3, <1>6, AtOne, CharacterTypes
  <1>8. (s + 1) + Len(e) <= Len(text) /\ s + 1 \in Nat \ {0} /\ text[(s + 1) + Len(e)] = Quote
    <2>1. Len(v) \in 1 .. Len(v) /\ s + Len(v) - 1 = (s + 1) + Len(e)
          /\ (s + 1) + Len(e) <= Len(text)
      BY <1>0, <1>3, <1>4, <1>5
    <2> QED BY <1>3, <1>4, <2>1
  <1>9. ASSUME NEW j \in 1 .. Len(e) PROVE text[(s + 1) + j - 1] = e[j]
    <2>1. j + 1 \in 1 .. Len(v) /\ s + (j + 1) - 1 = (s + 1) + j - 1
      BY <1>3, <1>4, <1>5
    <2> QED BY <1>3, <1>4, <2>1
  <1>10. Unescaped(s + 1) = {x}
    BY <1>0, <1>2, <1>8, <1>9, UnescapedReads DEF e
  <1>11. FindValue(key) = s
    BY DEF s
  <1>12. GetString(key, Len(x) + 1) = {y \in {x} : Len(y) < Len(x) + 1}
    BY <1>7, <1>10, <1>11 DEF GetString
  <1>13. Len(x) < Len(x) + 1
    BY <1>5
  <1>14. {y \in {x} : Len(y) < Len(x) + 1} = {x}
    BY <1>13
  <1> QED BY <1>12, <1>14 DEF x

\* What the invariant says of a finished object is what its reader relies on.
LEMMA FinishedReads == JsonInv => FieldsReadBack
  <1> SUFFICES ASSUME JsonInv, stage = "closed", NEW key \in Keys
               PROVE  LET f == fields[Min(Mine(key))]
                      IN  IF Mine(key) = {}
                          THEN GetBool(key) = Absent /\ GetU32(key) = Absent
                               /\ GetString(key, capacity) = Absent
                          ELSE CASE f.kind = "bool"   -> GetBool(key) = {f.value}
                                 [] f.kind = "u32"    -> GetU32(key) = {f.value}
                                 [] f.kind = "string" -> GetString(key, Len(f.value) + 1) = {f.value}
                                 [] f.kind = "peer"   ->
                                      GetU32(key) = {Number(f.value)} \cap 0 .. U32Max
    BY DEF FieldsReadBack, Mine
  <1>1. PICK w : Finished(w)
    BY DEF JsonInv, JsonTyped, Finished
  <1>2. CASE Mine(key) = {}
    <2>1. FindValue(key) = Len(text) + 1
      BY <1>1, <1>2, FirstFieldFound
    <2>2. text \in Seq(Characters)
      BY <1>1 DEF Finished
    <2> QED BY <1>2, <2>1, <2>2, NothingFound
  <1>3. CASE Mine(key) # {}
    <2> DEFINE m == Min(Mine(key))
               f == fields[m]
    <2>1. m \in Mine(key) /\ FindValue(key) = ValueStart(w, m)
      BY <1>1, <1>3, FirstFieldFound
    <2> HIDE DEF m
    <2>2. m \in 1 .. Len(fields) /\ f \in FieldTypes
      BY <1>1, <2>1 DEF Finished, Mine
    <2>3. \/ f.kind = "bool"
          \/ f.kind = "u32" /\ f.value \in U32s /\ ValueOf(f) = Decimal(f.value)
          \/ f.kind = "string"
          \/ f.kind = "peer" /\ f.value \in PeerDigits /\ ValueOf(f) = f.value
      BY <2>2, FieldKinds
    <2>4. CASE f.kind = "bool"
      <3>1. GetBool(key) = {f.value}
        BY <1>1, <2>1, <2>2, <2>4, BoolRead
      <3> QED BY <1>3, <2>4, <3>1 DEF m
    <2>5. CASE f.kind = "u32" /\ f.value \in U32s /\ ValueOf(f) = Decimal(f.value)
      <3>1. f.value \in Nat /\ f.value \in 0 .. U32Max
        <4>1. U32s \subseteq 0 .. U32Max /\ U32Max \in Nat
          BY JsonAssumption
        <4>2. 0 .. U32Max \subseteq Nat
          BY <4>1
        <4>3. f.value \in 0 .. U32Max
          BY <2>5, <4>1
        <4> QED BY <4>2, <4>3
      <3>2. ValueOf(f) \in Seq(DigitChars) /\ Len(ValueOf(f)) # 0 /\ Number(ValueOf(f)) = f.value
        BY <2>5, <3>1, DecimalReads
      <3>3. GetU32(key) = {Number(ValueOf(f))} \cap 0 .. U32Max
        BY <1>1, <2>1, <2>2, <3>2, NumberRead
      <3>4. GetU32(key) = {f.value}
        BY <3>1, <3>2, <3>3
      <3> QED BY <1>3, <2>5, <3>4 DEF m
    <2>6. CASE f.kind = "string"
      <3>1. GetString(key, Len(f.value) + 1) = {f.value}
        BY <1>1, <2>1, <2>2, <2>6, StringRead
      <3> QED BY <1>3, <2>6, <3>1 DEF m
    <2>7. CASE f.kind = "peer" /\ f.value \in PeerDigits /\ ValueOf(f) = f.value
      <3>1. f.value \in Seq(DigitChars) /\ Len(f.value) # 0
        <4>1. PeerDigits \subseteq Seq(DigitChars) \ {<<>>}
          BY JsonAssumption DEF DigitChars
        <4>2. \A s \in Seq(DigitChars) : Len(s) = 0 => s = <<>>
          BY EmptySeq
        <4> QED BY <2>7, <4>1, <4>2
      <3>2. GetU32(key) = {Number(f.value)} \cap 0 .. U32Max
        BY <1>1, <2>1, <2>2, <2>7, <3>1, NumberRead
      <3> QED BY <1>3, <2>7, <3>2 DEF m
    <2> QED BY <2>3, <2>4, <2>5, <2>6, <2>7
  <1> QED BY <1>2, <1>3

\* An object whose end_object() returned true reads back field by field:
\* find_value() stops at the first field of the key and nowhere else, and
\* get_bool(), get_u32() and get_string() give what was written, or fail where
\* the value does not fit.  For any number of fields, any keys that are
\* names, any strings and numbers, and buffers of any size.
THEOREM FieldsReadBackHolds == JsonSpec => []FieldsReadBack
  <1>1. JsonInit => JsonInv
    BY JsonInvInit
  <1>2. JsonInv /\ [JsonNext]_jsonVars => JsonInv'
    BY JsonInvStep
  <1>3. JsonInv => FieldsReadBack
    BY FinishedReads
  <1> QED BY <1>1, <1>2, <1>3, PTL DEF JsonSpec
==============================================================================
