------------------------------ MODULE MCHotRead ------------------------------
(* An instance of HotRead for TLC: two projects, one to a page, and a branch  *)
(* that passes through every kind of entry that matters.                      *)
EXTENDS HotRead

Two == {1, 2}

\* Another site's cookie, then the session's; its record is what Ruby writes
\* between the key's name and the user's id, 70000, in three bytes.
MCCookies == <<[session |-> FALSE, value |-> "en"], [session |-> TRUE, value |-> "s1"]>>
MCSessions ==
    [k \in {<<"session:gitlab:2::", "s1">>} |->
        [key |-> 0, id |-> 0,
         rest |-> <<6, 58, 6, 69, 84, 91, 7, 91, 6, 105, 3, 112, 17, 1, 73, 34>>]]

Private == [visibility |-> 0, repository |-> 20, level |-> 0,
            archived |-> FALSE, dropped |-> FALSE]
Own == [Private EXCEPT !.level = 50]

\* Private, the user's own, the user's own but hidden, archived and shown to
\* internal users, and one whose repository is switched off.
MCRows == {Private, Own, [Own EXCEPT !.dropped = TRUE],
           [Private EXCEPT !.visibility = 10, !.archived = TRUE],
           [Private EXCEPT !.visibility = 10, !.repository = 0, !.level = 20]}

Member == [admin |-> FALSE, active |-> TRUE, external |-> FALSE]
MCUsers == {Member, [Member EXCEPT !.external = TRUE], [Member EXCEPT !.admin = TRUE]}

MCEntries == [s \in 0..3 |-> CASE s = 0 -> "whole" [] s = 1 -> "short"
                               [] s = 2 -> "big" [] OTHER -> "gone"]

MCFilters == {[NoFilter EXCEPT !.archived = FALSE], [NoFilter EXCEPT !.owned = TRUE]}
=============================================================================
