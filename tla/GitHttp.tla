------------------------------- MODULE GitHttp -------------------------------
(***************************************************************************)
(* Git over HTTP (proxy): a smart HTTP request is authorized by Rails and  *)
(* then served from Gitaly with what Rails' answer names; any other path   *)
(* under a repository goes to one of three backends, of which the direct   *)
(* one to Gitaly would act without asking Rails.                           *)
(*                                                                         *)
(* A push is the request that carries it: Gitaly takes it over at most     *)
(* once, whichever attempt brings it, and may do so after its handler is   *)
(* gone.  A fetch's pack is Sidechannel's matter.                          *)
(***************************************************************************)
EXTENDS Integers, FiniteSets

CONSTANTS
    Requests,    \* clients' requests, each with its own user
    Ops,         \* what they may ask for
    Backends,    \* how paths that are not smart HTTP may be configured
    MaxAttempts  \* bound on the times a request is made

ASSUME ConstantsOK ==
    /\ Ops \subseteq {"refs", "fetch", "push", "bare", "other"}
    /\ Backends \subseteq {"gitaly", "sidecar", "rails"}
    /\ MaxAttempts \in Nat \ {0}

VARIABLES
    backend,  \* where this process sends what is not smart HTTP
    op,       \* what each request asks for
    pc,       \* where its handler is
    outcome,  \* how the last attempt was answered
    attempt,
    verdict,  \* Rails' answer to git_pre_authorize, on its way or read
    flight,   \* calls Gitaly may still receive
    effects,  \* what Gitaly took over: pushes, with the user they were made as
    report,   \* Gitaly's answer to the call
    known,    \* history: pushes reported successful when the attempt began
    shown     \* the pushes the advertised references contain

vars == <<backend, op, pc, outcome, attempt, verdict, flight, effects,
          report, known, shown>>
gitaly == <<flight, effects, report, shown>>
request == <<backend, op, attempt, known>>

\* is_git_smart_http; the others have .git/ in their path or end with .git.
Smart(r) == op[r] \in {"refs", "fetch", "push"}

\* extract_repo_path finds a repository in the path.
HasRepository(r) == op[r] # "other"

Busy == {"reading", "asking", "deciding", "connecting", "calling", "direct",
         "forwarding"}
Outcomes == {"none", "200", "passed", "400", "404", "502", "gone"}
Verdicts == {"none", "granted", "advertised", "refused", "useless"}

Users == Requests \cup {"user-1"}
Call(r, user) == [req |-> r, attempt |-> attempt[r], as |-> user]
Calls == [req : {r \in Requests : Smart(r)}, attempt : 1..MaxAttempts, as : Users]

Pushed == {e.req : e \in effects}
Reported == {r \in Requests : op[r] = "push" /\ outcome[r] = "200"
                                /\ report[r] = "ok"}

Init ==
    /\ backend \in Backends
    /\ op \in [Requests -> Ops]
    /\ pc = [r \in Requests |-> "idle"]
    /\ outcome = [r \in Requests |-> "none"]
    /\ attempt = [r \in Requests |-> 0]
    /\ verdict = [r \in Requests |-> "none"]
    /\ flight = {}
    /\ effects = {}
    /\ report = [r \in Requests |-> "none"]
    /\ known = [r \in Requests |-> {}]
    /\ shown = [r \in Requests |-> {}]

Goto(r, place) == pc' = [pc EXCEPT ![r] = place] /\ UNCHANGED outcome

Answer(r, status) ==
    /\ pc' = [pc EXCEPT ![r] = "idle"]
    /\ outcome' = [outcome EXCEPT ![r] = status]

\* Mutant: the direct route to Gitaly is tried before the smart HTTP check.
RouteToGitaly(r) == Goto(r, "direct")

\* proxy_request_streaming: smart HTTP first, then the configured backend.
Route(r) ==
    \/ Smart(r) /\ Goto(r, "reading")
    \/ ~Smart(r) /\ backend = "gitaly" /\ Goto(r, "direct")
    \/ ~Smart(r) /\ backend # "gitaly" /\ Goto(r, "forwarding")

\* A request arrives, the first time or once more after a failure.
Begin(r) ==
    /\ pc[r] = "idle"
    /\ outcome[r] \in {"none", "502", "gone", "passed"}
    /\ attempt[r] < MaxAttempts
    /\ attempt' = [attempt EXCEPT ![r] = @ + 1]
    /\ known' = [known EXCEPT ![r] = IF op[r] = "refs" THEN Reported ELSE {}]
    /\ verdict' = [verdict EXCEPT ![r] = "none"]
    /\ report' = [report EXCEPT ![r] = "none"]
    /\ shown' = [shown EXCEPT ![r] = {}]
    /\ Route(r)
    /\ UNCHANGED <<backend, op, flight, effects>>

\* handle_git_smart_http collects the whole body before it asks Rails ...
ReadBody(r) ==
    /\ pc[r] = "reading"
    /\ Goto(r, "asking") \/ Answer(r, "400")
    /\ UNCHANGED <<request, verdict, gitaly>>

\* ... which answers with what the user may do at that moment.  A success may
\* be the references themselves, or lack what repo_from_auth needs.
RailsDecides(r) ==
    /\ pc[r] = "asking"
    /\ Goto(r, "deciding")
    /\ \E v \in {"granted", "refused", "useless"} \cup
              (IF op[r] = "refs" THEN {"advertised"} ELSE {}) :
          verdict' = [verdict EXCEPT ![r] = v]
    /\ shown' = [shown EXCEPT ![r] = IF op[r] = "refs" THEN Pushed ELSE {}]
    /\ UNCHANGED <<request, flight, effects, report>>

\* git_pre_authorize fails: no connection, or over a unix socket no body.
AuthorizeFails(r) ==
    /\ pc[r] \in {"asking", "deciding"}
    /\ Answer(r, "502")
    /\ UNCHANGED <<request, verdict, gitaly>>

\* Mutant: the call is made while Rails is still thinking.
CallMeanwhile(r) ==
    /\ pc[r] = "deciding"
    /\ flight' = flight \cup {Call(r, r)}
    /\ \/ verdict[r] = "refused" /\ Answer(r, "passed")
       \/ verdict[r] # "refused" /\ Goto(r, "calling")
    /\ UNCHANGED <<request, verdict, effects, report, shown>>

\* The answer is read.  Over TCP a body that breaks off is an empty one, which
\* is neither references nor JSON.
ReadVerdict(r) ==
    /\ pc[r] = "deciding"
    /\ \/ verdict[r] = "refused" /\ Answer(r, "passed")
       \/ verdict[r] = "advertised" /\ Answer(r, "200")
       \/ verdict[r] = "granted" /\ Goto(r, "connecting")
       \/ verdict[r] = "useless" /\ Answer(r, "502")
    /\ UNCHANGED <<request, verdict, gitaly>>

\* Mutant: when Gitaly cannot be reached Rails is asked again for another.
ConnectAgain(r) ==
    /\ pc[r] = "connecting"
    /\ \/ Goto(r, "asking") /\ UNCHANGED flight
       \/ Goto(r, "calling") /\ flight' = flight \cup {Call(r, r)}
    /\ UNCHANGED <<request, verdict, effects, report, shown>>

\* serve_git_from_gitaly: GitalyClient::connect, then the call the path asks for
\* as the user of Rails' answer.
Connect(r) ==
    /\ pc[r] = "connecting"
    /\ \/ Answer(r, "502") /\ UNCHANGED flight
       \/ Goto(r, "calling") /\ flight' = flight \cup {Call(r, r)}
    /\ UNCHANGED <<request, verdict, effects, report, shown>>

\* proxy_via_gitaly asks nobody: a call would be made as whoever the request's
\* headers name, or as user-1.  Only Route keeps smart requests from it.
ViaGitaly(r) ==
    /\ pc[r] = "direct"
    /\ \/ ~HasRepository(r) /\ Answer(r, "400") /\ UNCHANGED flight
       \/ HasRepository(r) /\ Answer(r, "502") /\ UNCHANGED flight
       \/ op[r] = "bare" /\ Answer(r, "404") /\ UNCHANGED flight
       \/ op[r] = "refs" /\ Answer(r, "400") /\ UNCHANGED flight
       \/ /\ Smart(r) /\ Goto(r, "calling")
          /\ \E user \in Users : flight' = flight \cup {Call(r, user)}
    /\ UNCHANGED <<request, verdict, effects, report, shown>>

Current(r, c) == c.req = r /\ c.attempt = attempt[r] /\ pc[r] = "calling"

\* Mutant: references are those an earlier request was shown.
ServeCachedRefs(c) ==
    /\ c \in flight
    /\ flight' = flight \ {c}
    /\ effects' = IF op[c.req] = "push" /\ c.req \notin Pushed
                  THEN effects \cup {c} ELSE effects
    /\ report' = [report EXCEPT ![c.req] =
                     IF ~Current(c.req, c) THEN @
                     ELSE IF op[c.req] = "push" /\ c.req \in Pushed
                     THEN "rejected" ELSE "ok"]
    /\ \E q \in Requests : shown' = [shown EXCEPT ![c.req] = shown[q]]
    /\ UNCHANGED <<request, pc, outcome, verdict>>

\* Gitaly serves a call: it lists the references it has, or moves them for a
\* push that was not applied yet.
GitalyServes(c) ==
    /\ c \in flight
    /\ flight' = flight \ {c}
    /\ effects' = IF op[c.req] = "push" /\ c.req \notin Pushed
                  THEN effects \cup {c} ELSE effects
    /\ report' = [report EXCEPT ![c.req] =
                     IF ~Current(c.req, c) THEN @
                     ELSE IF op[c.req] = "push" /\ c.req \in Pushed
                     THEN "rejected" ELSE "ok"]
    /\ shown' = [shown EXCEPT ![c.req] =
                    IF Current(c.req, c) /\ op[c.req] = "refs"
                    THEN Pushed ELSE @]
    /\ UNCHANGED <<request, pc, outcome, verdict>>

\* A cancelled call may be lost on its way.
GitalyForgets(c) ==
    /\ c \in flight
    /\ ~Current(c.req, c)
    /\ flight' = flight \ {c}
    /\ UNCHANGED <<request, pc, outcome, verdict, effects, report, shown>>

\* The chunks of the answer are collected to the last one.
ReadAnswer(r) ==
    /\ pc[r] = "calling"
    /\ report[r] # "none"
    /\ Answer(r, "200")
    /\ UNCHANGED <<request, verdict, gitaly>>

\* The call fails or its answer breaks off, whatever Gitaly did with it.
CallFails(r) ==
    /\ pc[r] = "calling"
    /\ Answer(r, "502")
    /\ UNCHANGED <<request, verdict, gitaly>>

\* proxy_via_git_backend or one of the Rails routes: the backend answers.
Forward(r) ==
    /\ pc[r] = "forwarding"
    /\ \E status \in {"200", "passed", "502"} : Answer(r, status)
    /\ UNCHANGED <<request, verdict, gitaly>>

\* The client leaves and its handler is dropped.
Leave(r) ==
    /\ pc[r] \in Busy
    /\ Answer(r, "gone")
    /\ UNCHANGED <<request, verdict, gitaly>>

Step(r) ==
    ReadBody(r) \/ RailsDecides(r) \/ AuthorizeFails(r) \/ ReadVerdict(r)
    \/ Connect(r) \/ ViaGitaly(r) \/ ReadAnswer(r) \/ CallFails(r) \/ Forward(r)

Next ==
    \/ \E r \in Requests : Begin(r) \/ Step(r) \/ Leave(r)
    \/ \E c \in flight : GitalyServes(c) \/ GitalyForgets(c)

Spec == Init /\ [][Next]_vars

(***************************************************************************)
(* Handlers go on while they can.  Rails, and Gitaly in a call of one      *)
(* stream, answer what they are asked or hang up: an assumption, for the   *)
(* code sets no limit of its own to either wait.  A fetch is different:    *)
(* its handler waits for a side channel, and an answer or the end of the   *)
(* call do not end that wait (Sidechannel).  A client may keep its body    *)
(* back, stay away or not.                                                 *)
(***************************************************************************)
Fairness ==
    \A r \in Requests :
        /\ WF_vars(RailsDecides(r) \/ AuthorizeFails(r))
        /\ WF_vars(ReadVerdict(r)) /\ WF_vars(Connect(r))
        /\ WF_vars(op[r] # "fetch" /\ (CallFails(r) \/ ReadAnswer(r)))
        /\ WF_vars(ViaGitaly(r)) /\ WF_vars(Forward(r))

FairSpec == Spec /\ Fairness

-----------------------------------------------------------------------------

TypeOK ==
    /\ backend \in Backends
    /\ op \in [Requests -> Ops]
    /\ pc \in [Requests -> Busy \cup {"idle"}]
    /\ outcome \in [Requests -> Outcomes]
    /\ attempt \in [Requests -> 0..MaxAttempts]
    /\ verdict \in [Requests -> Verdicts]
    /\ flight \subseteq Calls
    /\ effects \subseteq Calls
    /\ report \in [Requests -> {"none", "ok", "rejected"}]
    /\ known \in [Requests -> SUBSET Requests]
    /\ shown \in [Requests -> SUBSET Requests]

\* Nothing is changed in a repository in the name of anybody but the user Rails
\* granted this very request to, whatever path it came by.
ActsAsGranted == \A e \in effects : e.as = e.req

\* A push that was refused or not even read has no effect, then or later: only
\* the attempts that reached Gitaly can, and a refusal is final for its attempt.
RefusedHasNoEffect ==
    \A r \in Requests :
        pc[r] = "idle" /\ outcome[r] \in {"passed", "400", "404"} =>
            \A c \in flight \cup effects : c.req = r => c.attempt # attempt[r]

\* An advertisement contains every push that had been reported successful when
\* it was asked for: no cache stands between a client and the references.
RefsFresh ==
    \A r \in Requests :
        op[r] = "refs" /\ outcome[r] = "200" /\ pc[r] = "idle" =>
            known[r] \subseteq shown[r]

\* A request past its body comes to an answer, whatever fails on the way, or is
\* a fetch that waits for its side channel.
Answered ==
    \A r \in Requests :
        pc[r] \in Busy \ {"reading"} ~>
            pc[r] = "idle" \/ (op[r] = "fetch" /\ pc[r] = "calling")
=============================================================================
