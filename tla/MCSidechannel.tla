--------------------------- MODULE MCSidechannel ---------------------------
(* Instances of Sidechannel for TLC. *)
EXTENDS Sidechannel

\* Every fault at once.
AllFaults == FaultKinds
\* Gitaly refuses the call; nothing else goes wrong.
CallRefused == {"rpc"}
=============================================================================
