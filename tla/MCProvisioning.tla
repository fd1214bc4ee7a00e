--------------------------- MODULE MCProvisioning ----------------------------
(* Provisioning with one acceptable and one unacceptable set of credentials. *)
EXTENDS Provisioning

CONSTANTS good, wrong

MCCredentials == {good, wrong}
MCValid == {good}
==============================================================================
