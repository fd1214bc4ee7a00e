----------------------------- MODULE OtaService ------------------------------
(***************************************************************************)
(* OtaService: download, verification and activation of a firmware image   *)
(* over injected ports.  An image is a sequence of units (a unit stands    *)
(* for a run of bytes).  The digest is modelled as collision free: the     *)
(* digest of a sequence is the sequence.  A signature is the digest it     *)
(* was made for, and verifies only for an image of Signed.                 *)
(*                                                                         *)
(* The fetcher is not trusted and not told of cancel(): take() may deliver *)
(* any content, the late answer to a request of a cancelled offer among    *)
(* it.  A poll() whose take() is busy changes nothing and is a stutter.    *)
(***************************************************************************)
EXTENDS Naturals, Sequences

CONSTANTS
  Units,                \* contents of a unit
  Signed,               \* images the signer has signed
  Factory,              \* the image the device runs at first
  Manifests,            \* what clients offer: [size, digest, signature]
  ChunkCapacity,        \* kOtaChunkBytes, in units
  ReuseAfterActivate    \* clients may cancel() after activate() returned ok

Images == Seq(Units)
Chunks == UNION {[1 .. n -> Units] : n \in 0 .. ChunkCapacity}

ASSUME OtaAssumption ==
  /\ ChunkCapacity \in Nat
  /\ Signed \subseteq Images /\ Factory \in Signed
  /\ Manifests \subseteq [size : Nat, digest : Images, signature : Images]
  /\ ReuseAfterActivate \in BOOLEAN

VARIABLES
  state,      \* state_
  manifest,   \* manifest_
  received,   \* received_
  requested,  \* requested_
  staged,     \* content of the firmware store's staging area
  digested,   \* what the digest calculator has been fed
  marked,     \* boot control will start the staging area
  running     \* the image the device runs

vars == <<state, manifest, received, requested, staged, digested, marked, running>>

NoManifest == [size |-> 0, digest |-> <<>>, signature |-> <<>>]

Init ==
  /\ state = "idle" /\ manifest = NoManifest
  /\ received = 0 /\ requested = FALSE
  /\ staged = <<>> /\ digested = <<>>
  /\ marked = FALSE /\ running = Factory

-----------------------------------------------------------------------------
\* fail(): store_.abort() discards the staging area.
Fail ==
  /\ staged' = <<>>
  /\ state' = "failed" /\ requested' = FALSE

\* Mutant: offer() keeps the progress of a cancelled download.
OfferKeepsProgress(m) ==
  /\ state = "idle" /\ m.size # 0
  /\ staged' = <<>> /\ digested' = digested
  /\ manifest' = m /\ requested' = FALSE
  /\ state' = "downloading"
  /\ UNCHANGED <<received, marked, running>>

\* offer(): an offer in another state, or of size 0, changes nothing.
Offer(m) ==
  /\ state = "idle" /\ m.size # 0
  /\ \/ /\ Fail    \* store_.begin or digest_.begin refused
        /\ UNCHANGED <<manifest, received, digested>>
     \/ /\ staged' = <<>> /\ digested' = <<>>
        /\ manifest' = m /\ received' = 0 /\ requested' = FALSE
        /\ state' = "downloading"
  /\ UNCHANGED <<marked, running>>

\* The poll() that requests the next chunk; ok and busy both count as accepted.
PollRequest ==
  /\ state = "downloading" /\ ~requested
  /\ \/ requested' = TRUE /\ UNCHANGED <<state, staged>>
     \/ Fail
  /\ UNCHANGED <<manifest, received, digested, marked, running>>

\* Mutant: an empty chunk counts as progress.
AcceptableEmpty(c) == received + Len(c) <= manifest.size

\* The size checks on a chunk that was taken.
Acceptable(c) == Len(c) # 0 /\ received + Len(c) <= manifest.size

\* Mutant: the signature is not verified.
VerifiedDigestOnly(d) == d = manifest.digest

\* The comparison with the manifest's digest, then verifier_.verify.
Verified(d) == d = manifest.digest /\ d = manifest.signature /\ d \in Signed

\* The poll() that takes chunk c.  Any port may fail: fetcher_.take,
\* store_.write, digest_.update, and at the end digest_.finish,
\* verifier_.verify and store_.finish.
PollTake(c) ==
  LET stored == SubSeq(staged, 1, received) \o c
      fed    == digested \o c
  IN  /\ state = "downloading" /\ requested
      /\ \/ /\ Fail
            /\ UNCHANGED <<received, digested>>
         \/ /\ Acceptable(c)
            /\ received' = received + Len(c)
            /\ digested' = fed
            /\ \/ /\ received + Len(c) # manifest.size
                  /\ staged' = stored /\ requested' = FALSE
                  /\ UNCHANGED state
               \/ /\ received + Len(c) = manifest.size
                  /\ Verified(fed)
                  /\ staged' = stored /\ requested' = FALSE
                  /\ state' = "ready_to_activate"
               \/ /\ received + Len(c) = manifest.size
                  /\ Fail    \* the mismatch, or a port that fails
      /\ UNCHANGED <<manifest, marked, running>>

\* Mutant: activate() does not look at the state.
ActivateUnchecked ==
  /\ state \in {"downloading", "ready_to_activate"}
  /\ state' = "activating" /\ marked' = TRUE
  /\ UNCHANGED <<manifest, received, requested, staged, digested, running>>

\* activate(): in any other state it returns not_ready.
Activate ==
  /\ state = "ready_to_activate"
  /\ \/ /\ state' = "activating" /\ marked' = TRUE
        /\ UNCHANGED <<requested, staged>>
     \/ Fail /\ UNCHANGED marked
  /\ UNCHANGED <<manifest, received, digested, running>>

\* cancel(), accepted in every state; the fetcher is not told.
Cancel ==
  /\ ReuseAfterActivate \/ ~marked
  /\ staged' = <<>>
  /\ state' = "idle" /\ received' = 0 /\ requested' = FALSE
  /\ UNCHANGED <<manifest, digested, marked, running>>

\* The device restarts, at any moment, and boot control starts what it was
\* told to.
Restart ==
  /\ running' = IF marked THEN staged ELSE running
  /\ marked' = FALSE
  /\ state' = "idle" /\ manifest' = NoManifest
  /\ received' = 0 /\ requested' = FALSE
  /\ staged' = <<>> /\ digested' = <<>>

Next ==
  \/ \E m \in Manifests : Offer(m)
  \/ PollRequest
  \/ \E c \in Chunks : PollTake(c)
  \/ Activate
  \/ Cancel
  \/ Restart

Spec == Init /\ [][Next]_vars

\* The main loop keeps calling poll(), and a request is eventually answered,
\* by a chunk or by an error.
FairSpec ==
  Spec /\ WF_vars(PollRequest) /\ WF_vars(\E c \in Chunks : PollTake(c))

-----------------------------------------------------------------------------
\* Properties.

States == {"idle", "downloading", "ready_to_activate", "activating", "failed"}

\* Every variable has its type, and a download never holds more than the
\* manifest announced.
TypeOK ==
  /\ state \in States
  /\ manifest \in Manifests \cup {NoManifest}
  /\ received \in 0 .. manifest.size
  /\ requested \in BOOLEAN
  /\ staged \in Images /\ digested \in Images
  /\ marked \in BOOLEAN /\ running \in Images

\* The device only ever runs a signed image, whatever the fetcher delivers
\* and whenever it is cancelled or restarted (README.md of the service: "no
\* unsigned activation path exists").
RunsOnlySigned == running \in Signed

\* An image that may be activated is in the staging area, whole, signed, and
\* the one that was offered.
ReadyIsVerified ==
  state \in {"ready_to_activate", "activating"} =>
    staged = manifest.digest /\ staged \in Signed

\* The store and the digest calculator have seen the same units, in the same
\* order, as many as received_ says: the digest that is compared is that of
\* what is stored.
DigestMatchesStore ==
  state = "downloading" =>
    staged = digested /\ Len(staged) = received /\ received < manifest.size

\* Every download ends, in an image to activate, a failure or a cancellation,
\* if the fetcher answers every request.
DownloadEnds == state = "downloading" ~> state # "downloading"
==============================================================================
