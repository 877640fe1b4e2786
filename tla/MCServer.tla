------------------------------ MODULE MCServer ------------------------------
(* Instances of Server for TLC: one address, hence one shard.               *)
EXTENDS Server, TLC

CONSTANTS a1, s1

OneAddress == {a1}
OneShard == {s1}
Hash == a1 :> s1
EveryMode == {"tcp", "tls", "unix"}
=============================================================================
