----------------------------- MODULE MCHotTrace -----------------------------
(* Instances of HotTrace for TLC. *)
EXTENDS HotTrace

\* A public project that keeps its builds for members.
SomeProjects == {[visibility |-> 20, builds |-> 10, public |-> TRUE]}

\* Nobody, and a guest.
SomeLevels == {0, 10}
=============================================================================
