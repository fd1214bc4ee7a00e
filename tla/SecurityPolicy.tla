---------------------------- MODULE SecurityPolicy ---------------------------
(***************************************************************************)
(* SecurityPolicy: the roles that commands require, the life cycle of the  *)
(* credentials, and the verdict on an image.  The signature verifier is    *)
(* external and answers anything.                                          *)
(***************************************************************************)
EXTENDS Naturals, SequencesExt

CONSTANTS
  Commands,            \* names that fit kConfigKeyCapacity and are not empty
  GrantCapacity        \* kCommandHandlerCapacity

ASSUME PolicyAssumption == GrantCapacity \in Nat

Roles == 0 .. 2    \* guest, operator_role, administrator

VARIABLES
  grants,        \* the authorizations_ in use
  credential,    \* credential_state_
  verdict,       \* what verify_image() returned last
  verified,      \* external: what the verifier said for it
  required,      \* history: the role of the last register_command() that was ok
  staged         \* history: credentials were staged since the last rotation or revocation

policyVars == <<grants, credential, verdict, verified, required, staged>>

NoRole == 3

PolicyInit ==
  /\ grants = <<>> /\ credential = "unset" /\ verdict = "none" /\ verified = "none"
  /\ required = [c \in Commands |-> NoRole] /\ staged = FALSE

\* Mutant: a command that is registered again gets another slot.
SlotOfNone(command) == 0

\* The slot of a command, 0 without one.
SlotOf(command) == SelectInSeq(grants, LAMBDA g : g.command = command)

\* register_command(): a command that has a slot gets the new role, another one
\* a free slot; without one, and for a name that is empty or too long, nothing
\* changes.
RegisterCommand(command, role) ==
  LET slot == SlotOf(command)
  IN  /\ slot # 0 \/ Len(grants) < GrantCapacity
      /\ grants' = IF slot # 0 THEN [grants EXCEPT ![slot].role = role]
                   ELSE Append(grants, [command |-> command, role |-> role])
      /\ required' = [required EXCEPT ![command] = role]
      /\ UNCHANGED <<credential, verdict, verified, staged>>

\* authorize()
Authorize(command, role) ==
  LET slot == SelectInSeq(grants, LAMBDA g : g.command = command)
  IN  IF slot = 0 THEN "not_found" ELSE IF role >= grants[slot].role THEN "ok" ELSE "denied"

Lifecycle(from, to, isStaged) ==
  /\ credential \in from /\ credential' = to /\ staged' = isStaged
  /\ UNCHANGED <<grants, verdict, verified, required>>

\* stage_credentials() and activate_credentials(); in any other state they
\* return busy and not_ready and change nothing.
StageCredentials == Lifecycle({"unset", "rotating"}, "staged", TRUE)
ActivateCredentials == Lifecycle({"staged"}, "active", staged)

CredentialStates == {"unset", "staged", "active", "rotating", "revoked"}
BeginRotation == Lifecycle(CredentialStates, "rotating", FALSE)
RevokeCredentials == Lifecycle(CredentialStates, "revoked", FALSE)

\* verify_image(), when the verifier says status.
VerifyImage(status) ==
  /\ verified' = status
  /\ verdict' = IF status = "unsupported" THEN "denied" ELSE status
  /\ UNCHANGED <<grants, credential, required, staged>>

PolicyNext ==
  \/ \E c \in Commands, r \in Roles : RegisterCommand(c, r)
  \/ StageCredentials \/ ActivateCredentials \/ BeginRotation \/ RevokeCredentials
  \/ \E s \in {"ok", "corrupt", "unsupported"} : VerifyImage(s)

PolicySpec == PolicyInit /\ [][PolicyNext]_policyVars

-----------------------------------------------------------------------------
\* Properties.

\* What is allowed is what was registered last and accepted, for every command
\* and role, through any order of registrations, re-registrations and full
\* tables; credentials are active only when they were staged after the last
\* rotation or revocation; and a verifier that is missing rejects the image.
PolicyIsCurrent ==
  /\ \A c \in Commands, r \in Roles :
       Authorize(c, r) = IF required[c] = NoRole THEN "not_found"
                         ELSE IF r >= required[c] THEN "ok" ELSE "denied"
  /\ credential = "active" => staged
  /\ verdict = "ok" => verified = "ok"
==============================================================================
