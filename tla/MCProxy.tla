------------------------------ MODULE MCProxy ------------------------------
(* Instances of Proxy for TLC. *)
EXTENDS Proxy, TLC

AllOps == Operations
GetsAndUpdates == {"get", "update"}
AllFaults == FaultKinds
Failing == {"connection", "body", "file", "server"}
NoFaults == {}

\* Slots and keys are interchangeable (safety runs only).
Interchangeable == Permutations(Requests) \cup Permutations(Keys)
=============================================================================
