--------------------------- MODULE MCConfigService ---------------------------
(* ConfigService with three keys, one of them too long, and three values,  *)
(* one of them too large; the capacities are those of services/Limits.hpp. *)
EXTENDS ConfigService

CONSTANTS k1, k2, kLong, yes, no, big

MCKeys == {k1, k2, kLong}
MCKeyLength == [k \in MCKeys |-> IF k = kLong THEN 24 ELSE 7]
MCValues == {yes, no, big}
MCValueSize == [v \in MCValues |-> IF v = big THEN 65 ELSE 1]
==============================================================================
