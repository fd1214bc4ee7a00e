-------------------------- MODULE MCNetworkManager ---------------------------
(* NetworkManager with three delays instead of five, in ticks of the first,  *)
(* and five attempts, so that the last delay is used more than once.         *)
EXTENDS NetworkManager

MCDelays == <<1, 2, 3>>
==============================================================================
