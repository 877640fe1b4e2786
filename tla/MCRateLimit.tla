---------------------------- MODULE MCRateLimit ----------------------------
(* Instances of RateLimit for TLC: every address in a shard of its own.     *)
EXTENDS RateLimit, TLC

CONSTANTS a1, a2, s1, s2

Addresses == {a1, a2}
TwoShards == {s1, s2}
Hash == a1 :> s1 @@ a2 :> s2
=============================================================================
