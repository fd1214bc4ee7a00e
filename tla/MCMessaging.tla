----------------------------- MODULE MCMessaging -----------------------------
(* Messaging with symmetric command ids. *)
EXTENDS Messaging, TLC

MCSymmetry == Permutations(Ids)
==============================================================================
