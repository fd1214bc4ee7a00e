-------------------------- MODULE OtaServiceProofs ---------------------------
(***************************************************************************)
(* Proofs about OtaService, for any images, manifests and chunk size, and  *)
(* for a fetcher that may deliver anything.                                *)
(***************************************************************************)
EXTENDS OtaService, SequenceTheorems, TLAPS

\* The inductive invariant has three parts.  The download: what is stored is
\* what was digested.  The verification, which rests on it, is ReadyIsVerified
\* itself.
DownloadInv == TypeOK /\ DigestMatchesStore

\* The activation, which rests on both: only what was activated can be started.
ActivationInv ==
  /\ marked => state = "activating"
  /\ RunsOnlySigned

\* A chunk is a sequence of units.
LEMMA ChunkIsSeq == ASSUME NEW c \in Chunks PROVE c \in Seq(Units) /\ Len(c) \in Nat
  <1>1. PICK n \in 0 .. ChunkCapacity : c \in [1 .. n -> Units]
    BY DEF Chunks
  <1>2. n \in Nat
    BY OtaAssumption
  <1> QED BY <1>1, <1>2

\* A prefix as long as the sequence is the sequence.
LEMMA WholePrefix == ASSUME NEW s \in Seq(Units) PROVE SubSeq(s, 1, Len(s)) = s
  <1>1. Len(s) \in Nat /\ \A i \in 1 .. Len(s) : s[i] \in Units
    BY LenProperties, ElementOfSeq
  <1>2. /\ SubSeq(s, 1, Len(s)) \in Seq(Units)
        /\ Len(SubSeq(s, 1, Len(s))) = Len(s)
        /\ \A i \in 1 .. Len(s) : SubSeq(s, 1, Len(s))[i] = s[i]
    BY <1>1, SubSeqProperties
  <1> QED BY <1>1, <1>2, SeqEqual

\* A chunk that is written extends the staging area and the digest alike.
LEMMA TakeExtends ==
  ASSUME DownloadInv, state = "downloading", NEW c \in Chunks
  PROVE  /\ SubSeq(staged, 1, received) \o c = digested \o c
         /\ digested \o c \in Images
         /\ Len(digested \o c) = received + Len(c)
  <1>1. staged \in Seq(Units) /\ staged = digested /\ Len(staged) = received
    BY DEF DownloadInv, TypeOK, DigestMatchesStore, Images
  <1>2. SubSeq(staged, 1, received) = digested
    BY <1>1, WholePrefix
  <1> QED BY <1>1, <1>2, ChunkIsSeq, ConcatProperties DEF Images

\* The types of the state, stated once for the proofs of the steps.
LEMMA Sizes == ASSUME TypeOK PROVE manifest.size \in Nat /\ received \in Nat
  BY OtaAssumption DEF TypeOK, NoManifest

-----------------------------------------------------------------------------
\* The download.

\* offer() preserves the invariant of the download.
LEMMA OfferStep == ASSUME DownloadInv, NEW m \in Manifests, Offer(m) PROVE DownloadInv'
  <1>1. <<>> \in Images
    BY DEF Images
  <1>2. CASE Fail /\ UNCHANGED <<manifest, received, digested>>
    BY <1>1, <1>2 DEF DownloadInv, Offer, TypeOK, Fail, States, DigestMatchesStore
  <1>3. CASE /\ staged' = <<>> /\ digested' = <<>>
             /\ manifest' = m /\ received' = 0 /\ requested' = FALSE
             /\ state' = "downloading"
    <2>1. m.size \in Nat /\ m.size # 0
      BY OtaAssumption DEF Offer
    <2>2. received' \in 0 .. manifest'.size /\ received' < manifest'.size
      BY <1>3, <2>1
    <2>3. TypeOK'
      BY <1>1, <1>3, <2>2 DEF DownloadInv, Offer, TypeOK, States
    <2>4. DigestMatchesStore'
      BY <1>3, <2>2 DEF DigestMatchesStore
    <2> QED BY <2>3, <2>4 DEF DownloadInv
  <1> QED BY <1>2, <1>3 DEF Offer

\* The poll() that requests a chunk preserves it.
LEMMA RequestStep == ASSUME DownloadInv, PollRequest PROVE DownloadInv'
  <1>1. <<>> \in Images
    BY DEF Images
  <1> QED BY <1>1 DEF DownloadInv, PollRequest, TypeOK, Fail, States, DigestMatchesStore

\* The poll() that takes a chunk preserves it.
LEMMA TakeStep == ASSUME DownloadInv, NEW c \in Chunks, PollTake(c) PROVE DownloadInv'
  <1> DEFINE stored == SubSeq(staged, 1, received) \o c
             fed == digested \o c
  <1>1. state = "downloading" /\ UNCHANGED <<manifest, marked, running>>
    BY DEF PollTake
  <1>2. stored = fed /\ fed \in Images /\ Len(fed) = received + Len(c)
    BY <1>1, TakeExtends
  <1>3. <<>> \in Images
    BY DEF Images
  <1>4. manifest.size \in Nat /\ received \in Nat /\ Len(c) \in Nat
    BY Sizes, ChunkIsSeq DEF DownloadInv
  <1>5. CASE Fail /\ UNCHANGED <<received, digested>>
    BY <1>1, <1>3, <1>5 DEF DownloadInv, TypeOK, Fail, States, DigestMatchesStore
  <1>6. CASE Acceptable(c) /\ received' = received + Len(c) /\ digested' = fed
    <2>1. received' \in 0 .. manifest'.size
      BY <1>1, <1>4, <1>6 DEF Acceptable
    <2>2. CASE /\ received + Len(c) # manifest.size
               /\ staged' = stored /\ requested' = FALSE /\ UNCHANGED state
      <3>1. TypeOK'
        BY <1>1, <1>2, <1>6, <2>1, <2>2 DEF DownloadInv, TypeOK
      <3>2. received' < manifest'.size
        BY <1>1, <1>4, <1>6, <2>2 DEF Acceptable
      <3> QED BY <1>2, <1>6, <2>2, <3>1, <3>2 DEF DownloadInv, DigestMatchesStore
    <2>3. CASE /\ staged' = stored /\ requested' = FALSE
               /\ state' = "ready_to_activate"
      BY <1>1, <1>2, <1>6, <2>1, <2>3 DEF DownloadInv, TypeOK, States, DigestMatchesStore
    <2>4. CASE Fail
      <3>1. TypeOK'
        BY <1>1, <1>2, <1>3, <1>6, <2>1, <2>4 DEF DownloadInv, TypeOK, Fail, States
      <3> QED BY <2>4, <3>1 DEF DownloadInv, Fail, DigestMatchesStore
    <2> QED BY <1>6, <2>2, <2>3, <2>4 DEF PollTake
  <1> QED BY <1>5, <1>6 DEF PollTake

\* activate() and cancel() preserve it: neither leaves a download.
LEMMA ActivateStep == ASSUME DownloadInv, Activate PROVE DownloadInv'
  <1>1. <<>> \in Images
    BY DEF Images
  <1>2. marked' \in BOOLEAN
    BY Zenon DEF DownloadInv, TypeOK, Activate
  <1> QED BY <1>1, <1>2
    DEF DownloadInv, Activate, TypeOK, Fail, States, DigestMatchesStore

\* See ActivateStep.
LEMMA CancelStep == ASSUME DownloadInv, Cancel PROVE DownloadInv'
  <1>1. <<>> \in Images
    BY DEF Images
  <1>2. received' \in 0 .. manifest'.size
    BY Sizes DEF DownloadInv, Cancel
  <1> QED BY <1>1, <1>2 DEF DownloadInv, Cancel, TypeOK, States, DigestMatchesStore

\* A restart preserves it, whatever is started.
LEMMA RestartStep == ASSUME DownloadInv, Restart PROVE DownloadInv'
  <1>1. <<>> \in Images
    BY DEF Images
  <1>2. running' \in Images
    BY DEF DownloadInv, TypeOK, Restart
  <1>3. NoManifest.size = 0 /\ 0 \in 0 .. 0
    BY DEF NoManifest
  <1> QED BY <1>1, <1>2, <1>3 DEF DownloadInv, Restart, TypeOK, States, DigestMatchesStore

\* The invariant of the download holds in every reachable state, whatever the
\* clients call and the fetcher delivers.
LEMMA DownloadInvariant == Spec => []DownloadInv
  <1>1. Init => DownloadInv
    <2>1. Factory \in Images /\ <<>> \in Images
      BY OtaAssumption DEF Images
    <2>2. NoManifest.size = 0 /\ 0 \in 0 .. 0
      BY DEF NoManifest
    <2> QED BY <2>1, <2>2 DEF Init, DownloadInv, TypeOK, States, DigestMatchesStore
  <1>2. DownloadInv /\ [Next]_vars => DownloadInv'
    <2> SUFFICES ASSUME DownloadInv, [Next]_vars PROVE DownloadInv'
      OBVIOUS
    <2>1. CASE UNCHANGED vars
      BY <2>1 DEF vars, DownloadInv, TypeOK, DigestMatchesStore
    <2> QED BY <2>1, OfferStep, RequestStep, TakeStep, ActivateStep, CancelStep,
               RestartStep DEF Next
  <1> QED BY <1>1, <1>2, PTL DEF Spec

\* Types, and a download never holds more than its manifest announced.
THEOREM OtaTypeCorrect == Spec => []TypeOK
  BY DownloadInvariant, PTL DEF DownloadInv

\* The digest that is compared is that of what is stored: both have seen the
\* same units, in the same order.
THEOREM DigestMatchesStoreHolds == Spec => []DigestMatchesStore
  BY DownloadInvariant, PTL DEF DownloadInv

-----------------------------------------------------------------------------
\* The verification.

\* Every step keeps what may be activated verified.
LEMMA ReadyStep ==
  ASSUME DownloadInv, ReadyIsVerified, [Next]_vars PROVE ReadyIsVerified'
  <1>1. ASSUME NEW m \in Manifests, Offer(m) PROVE ReadyIsVerified'
    BY <1>1 DEF Offer, Fail, ReadyIsVerified
  <1>2. ASSUME NEW c \in Chunks, PollTake(c) PROVE ReadyIsVerified'
    <2> DEFINE stored == SubSeq(staged, 1, received) \o c
               fed == digested \o c
    <2>1. state = "downloading" /\ UNCHANGED manifest
      BY <1>2 DEF PollTake
    <2>2. stored = fed
      BY <2>1, TakeExtends
    <2>3. CASE state' \in {"downloading", "failed"}
      BY <2>3 DEF ReadyIsVerified
    <2>4. CASE Verified(fed) /\ staged' = stored
      BY <2>1, <2>2, <2>4 DEF Verified, ReadyIsVerified
    <2> QED BY <1>2, <2>1, <2>3, <2>4 DEF PollTake, Fail
  <1>3. CASE PollRequest \/ Activate
    BY <1>3 DEF PollRequest, Activate, Fail, ReadyIsVerified
  <1>4. CASE Cancel \/ Restart
    BY <1>4 DEF Cancel, Restart, ReadyIsVerified
  <1>5. CASE UNCHANGED vars
    BY <1>5 DEF vars, ReadyIsVerified
  <1> QED BY <1>1, <1>2, <1>3, <1>4, <1>5 DEF Next

\* Whatever the fetcher delivers and whichever port fails, an image that may
\* be activated is the one offered, whole, and signed.
THEOREM ReadyIsVerifiedHolds == Spec => []ReadyIsVerified
  <1>1. Init => ReadyIsVerified
    BY DEF Init, ReadyIsVerified
  <1> QED BY <1>1, ReadyStep, DownloadInvariant, PTL DEF Spec

-----------------------------------------------------------------------------
\* The activation.

\* Every step preserves the invariant of the activation, if clients do not
\* cancel() between a successful activate() and the restart.
LEMMA ActivationStep ==
  ASSUME ~ReuseAfterActivate, ReadyIsVerified, ActivationInv, [Next]_vars
  PROVE  ActivationInv'
  <1>1. ASSUME NEW m \in Manifests, Offer(m) PROVE ActivationInv'
    BY <1>1 DEF ActivationInv, Offer, Fail, RunsOnlySigned
  <1>2. ASSUME NEW c \in Chunks, PollTake(c) PROVE ActivationInv'
    BY <1>2 DEF ActivationInv, PollTake, Fail, RunsOnlySigned
  <1>3. CASE PollRequest
    BY <1>3 DEF ActivationInv, PollRequest, Fail, RunsOnlySigned
  <1>4. CASE Activate
    <2>1. marked' => state' = "activating"
      BY <1>4 DEF ActivationInv, Activate, Fail
    <2> QED BY <1>4, <2>1 DEF ActivationInv, Activate, RunsOnlySigned
  <1>5. CASE Cancel
    BY <1>5 DEF ActivationInv, Cancel, RunsOnlySigned
  <1>6. CASE Restart
    <2>1. running' \in Signed
      BY <1>6 DEF ActivationInv, Restart, ReadyIsVerified, RunsOnlySigned
    <2> QED BY <1>6, <2>1 DEF Restart, ActivationInv, RunsOnlySigned
  <1>7. CASE UNCHANGED vars
    BY <1>7 DEF vars, ActivationInv, RunsOnlySigned
  <1> QED BY <1>1, <1>2, <1>3, <1>4, <1>5, <1>6, <1>7 DEF Next

\* The device never runs an unsigned image, if clients do not cancel() between
\* a successful activate() and the restart.
THEOREM RunsOnlySignedHolds ==
  ASSUME ~ReuseAfterActivate PROVE Spec => []RunsOnlySigned
  <1>1. Init => ActivationInv
    BY OtaAssumption DEF Init, ActivationInv, RunsOnlySigned
  <1>2. ActivationInv => RunsOnlySigned
    BY DEF ActivationInv
  <1> QED BY <1>1, <1>2, ActivationStep, ReadyIsVerifiedHolds, PTL DEF Spec
==============================================================================
