---------------------------- MODULE PackResponse ----------------------------
(***************************************************************************)
(* What an HTTP client is promised of a fetch: it is answered at most      *)
(* once, it receives the pack in order and without a gap, and the body     *)
(* neither ends early nor breaks unless something outside the program went *)
(* wrong.  Nothing is said of sessions, streams or tasks.                  *)
(***************************************************************************)
EXTENDS Naturals, Sequences

CONSTANT PackLen   \* chunks in the whole pack

VARIABLES
    state,    \* what the client sees: "waiting", "reading" or how it ended
    body,     \* the chunks it has read
    excused   \* Gitaly or the connection to it has failed

vars == <<state, body, excused>>

Init ==
    /\ state = "waiting"
    /\ body = <<>>
    /\ excused = FALSE

Reply ==
    /\ state = "waiting"
    /\ state' = "reading"
    /\ UNCHANGED <<body, excused>>

Refuse ==
    /\ state = "waiting"
    /\ state' = "refused"
    /\ UNCHANGED <<body, excused>>

Deliver ==
    /\ state = "reading"
    /\ Len(body) < PackLen
    /\ body' = Append(body, Len(body) + 1)
    /\ UNCHANGED <<state, excused>>

End ==
    /\ state = "reading"
    /\ Len(body) = PackLen \/ excused
    /\ state' = "ended"
    /\ UNCHANGED <<body, excused>>

Break ==
    /\ state = "reading"
    /\ excused
    /\ state' = "aborted"
    /\ UNCHANGED <<body, excused>>

Leave ==
    /\ state \in {"waiting", "reading"}
    /\ state' = "gone"
    /\ UNCHANGED <<body, excused>>

Fail ==
    /\ excused' = TRUE
    /\ UNCHANGED <<state, body>>

Next == Reply \/ Refuse \/ Deliver \/ End \/ Break \/ Leave \/ Fail

Spec == Init /\ [][Next]_vars
=============================================================================
