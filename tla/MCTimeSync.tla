----------------------------- MODULE MCTimeSync ------------------------------
(* The time service alone, with two retry delays instead of five. *)
EXTENDS TimeSync

MCRetryDelays == <<1, 2>>
==============================================================================
