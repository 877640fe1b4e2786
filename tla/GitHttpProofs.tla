---------------------------- MODULE GitHttpProofs ----------------------------
(* Theorems about GitHttp, for any number of requests and attempts: nothing   *)
(* is done in another's name or after a refusal, and references that are      *)
(* advertised are current.                                                    *)
EXTENDS GitHttp, TLAPS

\* What a handler's place says about its request: only smart HTTP is read,
\* decided and called, and with Gitaly is only what Rails granted.
Places == Busy \cup {"idle"}
Entitled ==
    \A r \in Requests :
        /\ pc[r] \in {"reading", "asking", "deciding", "connecting", "calling"} => Smart(r)
        /\ pc[r] \in {"direct", "forwarding"} => ~Smart(r)
        /\ pc[r] \in {"connecting", "calling"} => verdict[r] = "granted"
        /\ pc[r] = "deciding" => verdict[r] # "none"
        /\ pc[r] # "idle" => attempt[r] >= 1
Typed == TypeOK /\ Entitled

Kept(r) == /\ Smart(r)' = Smart(r)
           /\ \A q \in Requests \ {r} : /\ Smart(q)' = Smart(q)
                                        /\ verdict'[q] = verdict[q]
                                        /\ attempt'[q] = attempt[q]

\* A handler's move, and its end, leave the others' places what they are.
LEMMA Moves ==
    ASSUME Typed, NEW r \in Requests, NEW place \in Busy, Goto(r, place), Kept(r),
           attempt'[r] >= 1,
           place \in {"reading", "asking", "deciding", "connecting", "calling"} => Smart(r),
           place \in {"direct", "forwarding"} => ~Smart(r),
           place \in {"connecting", "calling"} => verdict'[r] = "granted",
           place = "deciding" => verdict'[r] # "none"
    PROVE  pc' \in [Requests -> Places] /\ outcome' \in [Requests -> Outcomes] /\ Entitled'
<1>1. pc \in [Requests -> Places] /\ outcome \in [Requests -> Outcomes]
  BY DEF Typed, TypeOK, Places
<1>2. pc' = [pc EXCEPT ![r] = place] /\ outcome' = outcome
  BY DEF Goto
<1>3. pc' \in [Requests -> Places]
  BY <1>1, <1>2 DEF Places
<1>4. ASSUME NEW q \in Requests \ {r} PROVE pc'[q] = pc[q]
  BY <1>1, <1>2
<1>5. pc'[r] = place
  BY <1>1, <1>2
<1> QED
  BY <1>1, <1>2, <1>3, <1>4, <1>5 DEF Typed, Entitled, Kept

LEMMA Ends ==
    ASSUME Typed, NEW r \in Requests, NEW status \in Outcomes, Answer(r, status), Kept(r)
    PROVE  pc' \in [Requests -> Places] /\ outcome' \in [Requests -> Outcomes] /\ Entitled'
<1>1. pc \in [Requests -> Places] /\ outcome \in [Requests -> Outcomes]
  BY DEF Typed, TypeOK, Places
<1>2. pc' = [pc EXCEPT ![r] = "idle"] /\ outcome' = [outcome EXCEPT ![r] = status]
  BY DEF Answer
<1>3. pc' \in [Requests -> Places] /\ outcome' \in [Requests -> Outcomes]
  BY <1>1, <1>2 DEF Places
<1>4. ASSUME NEW q \in Requests \ {r} PROVE pc'[q] = pc[q]
  BY <1>1, <1>2
<1>5. pc'[r] = "idle"
  BY <1>1, <1>2
<1> QED
  BY <1>3, <1>4, <1>5 DEF Typed, Entitled, Kept

LEMMA InitTyped == Init => Typed
  BY ConstantsOK DEF Init, Typed, TypeOK, Entitled, Outcomes, Verdicts

-----------------------------------------------------------------------------
(* Types and places. *)

LEMMA NextTyped == Typed /\ [Next]_vars => Typed'
<1> SUFFICES ASSUME Typed, [Next]_vars PROVE Typed'
  OBVIOUS
<1>1. ASSUME NEW r \in Requests, Begin(r) PROVE Typed'
  <2>1. /\ attempt' \in [Requests -> 0..MaxAttempts] /\ attempt'[r] >= 1
        /\ verdict' \in [Requests -> Verdicts] /\ Kept(r)
        /\ UNCHANGED <<backend, op, flight, effects>>
    BY <1>1, ConstantsOK DEF Begin, Typed, TypeOK, Verdicts, Kept, Smart
  <2>2. known' \in [Requests -> SUBSET Requests]
    BY <1>1 DEF Begin, Typed, TypeOK, Reported
  <2>3. /\ report' \in [Requests -> {"none", "ok", "rejected"}]
        /\ shown' \in [Requests -> SUBSET Requests]
    BY <1>1 DEF Begin, Typed, TypeOK
  <2>4. /\ pc' \in [Requests -> Places] /\ outcome' \in [Requests -> Outcomes]
        /\ Entitled'
    <3>1. CASE Smart(r) /\ Goto(r, "reading")
      BY <2>1, <3>1, Moves DEF Busy
    <3>2. CASE ~Smart(r) /\ Goto(r, "direct")
      BY <2>1, <3>2, Moves DEF Busy
    <3>3. CASE ~Smart(r) /\ Goto(r, "forwarding")
      BY <2>1, <3>3, Moves DEF Busy
    <3> QED
      BY <1>1, <3>1, <3>2, <3>3 DEF Begin, Route
  <2> QED
    BY <2>1, <2>2, <2>3, <2>4 DEF Typed, TypeOK, Places, Calls, Smart
<1>2. ASSUME NEW r \in Requests, ReadBody(r) PROVE Typed'
  <2>1. Kept(r) /\ UNCHANGED <<request, verdict, gitaly>> /\ pc[r] \in Busy /\ attempt'[r] >= 1
    BY <1>2 DEF ReadBody, Kept, Smart, request, Typed, Entitled, Busy
  <2>2. /\ pc' \in [Requests -> Places] /\ outcome' \in [Requests -> Outcomes]
        /\ Entitled'
    <3> HIDE DEF Kept
    <3> QED
      BY <1>2, <2>1, Moves, Ends DEF ReadBody, Busy, Outcomes, Typed, Entitled, request
  <2> QED
    BY <2>1, <2>2 DEF Typed, TypeOK, Places, request, gitaly, Calls, Smart
<1>3. ASSUME NEW r \in Requests, RailsDecides(r) PROVE Typed'
  <2>1. /\ verdict' \in [Requests -> Verdicts] /\ verdict'[r] # "none"
        /\ Smart(r) /\ Kept(r) /\ attempt'[r] >= 1
        /\ UNCHANGED <<request, flight, effects, report>>
    BY <1>3 DEF RailsDecides, Typed, TypeOK, Entitled, Verdicts, Kept, Smart, request
  <2>2. shown' \in [Requests -> SUBSET Requests]
    BY <1>3 DEF RailsDecides, Typed, TypeOK, Pushed, Calls
  <2>3. /\ pc' \in [Requests -> Places] /\ outcome' \in [Requests -> Outcomes]
        /\ Entitled'
    <3>1. Goto(r, "deciding")
      BY <1>3 DEF RailsDecides
    <3> QED
      BY <2>1, <3>1, Moves DEF Busy
  <2> QED
    BY <2>1, <2>2, <2>3 DEF Typed, TypeOK, Places, request, Calls, Smart
<1>4. ASSUME NEW r \in Requests, AuthorizeFails(r) PROVE Typed'
  <2>1. Kept(r) /\ UNCHANGED <<request, verdict, gitaly>> /\ pc[r] \in Busy /\ attempt'[r] >= 1
    BY <1>4 DEF AuthorizeFails, Kept, Smart, request, Typed, Entitled, Busy
  <2>2. /\ pc' \in [Requests -> Places] /\ outcome' \in [Requests -> Outcomes]
        /\ Entitled'
    <3> HIDE DEF Kept
    <3> QED
      BY <1>4, <2>1, Moves, Ends DEF AuthorizeFails, Busy, Outcomes, Typed, Entitled, request
  <2> QED
    BY <2>1, <2>2 DEF Typed, TypeOK, Places, request, gitaly, Calls, Smart
<1>5. ASSUME NEW r \in Requests, ReadVerdict(r) PROVE Typed'
  <2>1. Kept(r) /\ UNCHANGED <<request, verdict, gitaly>> /\ pc[r] \in Busy /\ attempt'[r] >= 1
    BY <1>5 DEF ReadVerdict, Kept, Smart, request, Typed, Entitled, Busy
  <2>2. /\ pc' \in [Requests -> Places] /\ outcome' \in [Requests -> Outcomes]
        /\ Entitled'
    <3> HIDE DEF Kept
    <3> QED
      BY <1>5, <2>1, Moves, Ends DEF ReadVerdict, Busy, Outcomes, Typed, Entitled, request
  <2> QED
    BY <2>1, <2>2 DEF Typed, TypeOK, Places, request, gitaly, Calls, Smart
<1>6. ASSUME NEW r \in Requests, Connect(r) PROVE Typed'
  <2>1. /\ Kept(r) /\ pc[r] = "connecting" /\ attempt[r] >= 1 /\ attempt'[r] >= 1
        /\ UNCHANGED <<request, verdict, effects, report, shown>>
    BY <1>6 DEF Connect, Kept, Smart, request, Typed, Entitled
  <2>2. Smart(r) /\ verdict[r] = "granted" /\ Call(r, r) \in Calls
    BY <2>1 DEF Typed, TypeOK, Entitled, Call, Calls, Users
  <2>3. flight' \subseteq Calls
    BY <1>6, <2>2 DEF Connect, Typed, TypeOK
  <2>4. /\ pc' \in [Requests -> Places] /\ outcome' \in [Requests -> Outcomes]
        /\ Entitled'
    <3>1. CASE Answer(r, "502")
      BY <2>1, <3>1, Ends DEF Outcomes
    <3>2. CASE Goto(r, "calling")
      BY <2>1, <2>2, <3>2, Moves DEF Busy
    <3> QED
      BY <1>6, <3>1, <3>2 DEF Connect
  <2> QED
    BY <2>1, <2>3, <2>4 DEF Typed, TypeOK, Places, request, Calls, Smart
<1>7. ASSUME NEW r \in Requests, ViaGitaly(r) PROVE Typed'
  <2>1. /\ Kept(r) /\ ~Smart(r) /\ pc[r] = "direct"
        /\ UNCHANGED <<request, verdict, effects, report, shown>>
    BY <1>7 DEF ViaGitaly, Kept, Smart, request, Typed, Entitled
  <2>2. UNCHANGED flight /\ \E status \in {"400", "404", "502"} : Answer(r, status)
    BY <1>7, <2>1 DEF ViaGitaly, Smart
  <2>3. /\ pc' \in [Requests -> Places] /\ outcome' \in [Requests -> Outcomes]
        /\ Entitled'
    BY <2>1, <2>2, Ends DEF Outcomes
  <2> QED
    BY <2>1, <2>2, <2>3 DEF Typed, TypeOK, Places, request, Calls, Smart
<1>8. ASSUME NEW r \in Requests, ReadAnswer(r) PROVE Typed'
  <2>1. Kept(r) /\ UNCHANGED <<request, verdict, gitaly>> /\ pc[r] \in Busy /\ attempt'[r] >= 1
    BY <1>8 DEF ReadAnswer, Kept, Smart, request, Typed, Entitled, Busy
  <2>2. /\ pc' \in [Requests -> Places] /\ outcome' \in [Requests -> Outcomes]
        /\ Entitled'
    <3> HIDE DEF Kept
    <3> QED
      BY <1>8, <2>1, Moves, Ends DEF ReadAnswer, Busy, Outcomes, Typed, Entitled, request
  <2> QED
    BY <2>1, <2>2 DEF Typed, TypeOK, Places, request, gitaly, Calls, Smart
<1>9. ASSUME NEW r \in Requests, CallFails(r) PROVE Typed'
  <2>1. Kept(r) /\ UNCHANGED <<request, verdict, gitaly>> /\ pc[r] \in Busy /\ attempt'[r] >= 1
    BY <1>9 DEF CallFails, Kept, Smart, request, Typed, Entitled, Busy
  <2>2. /\ pc' \in [Requests -> Places] /\ outcome' \in [Requests -> Outcomes]
        /\ Entitled'
    <3> HIDE DEF Kept
    <3> QED
      BY <1>9, <2>1, Moves, Ends DEF CallFails, Busy, Outcomes, Typed, Entitled, request
  <2> QED
    BY <2>1, <2>2 DEF Typed, TypeOK, Places, request, gitaly, Calls, Smart
<1>10. ASSUME NEW r \in Requests, Forward(r) PROVE Typed'
  <2>1. Kept(r) /\ UNCHANGED <<request, verdict, gitaly>> /\ pc[r] \in Busy /\ attempt'[r] >= 1
    BY <1>10 DEF Forward, Kept, Smart, request, Typed, Entitled, Busy
  <2>2. /\ pc' \in [Requests -> Places] /\ outcome' \in [Requests -> Outcomes]
        /\ Entitled'
    <3> HIDE DEF Kept
    <3> QED
      BY <1>10, <2>1, Moves, Ends DEF Forward, Busy, Outcomes, Typed, Entitled, request
  <2> QED
    BY <2>1, <2>2 DEF Typed, TypeOK, Places, request, gitaly, Calls, Smart
<1>11. ASSUME NEW r \in Requests, Leave(r) PROVE Typed'
  <2>1. Kept(r) /\ UNCHANGED <<request, verdict, gitaly>> /\ pc[r] \in Busy /\ attempt'[r] >= 1
    BY <1>11 DEF Leave, Kept, Smart, request, Typed, Entitled, Busy
  <2>2. /\ pc' \in [Requests -> Places] /\ outcome' \in [Requests -> Outcomes]
        /\ Entitled'
    <3> HIDE DEF Kept
    <3> QED
      BY <1>11, <2>1, Moves, Ends DEF Leave, Busy, Outcomes, Typed, Entitled, request
  <2> QED
    BY <2>1, <2>2 DEF Typed, TypeOK, Places, request, gitaly, Calls, Smart
<1>12. ASSUME NEW c \in flight, GitalyServes(c) PROVE Typed'
  <2>1. /\ c \in Calls /\ c.req \in Requests
        /\ UNCHANGED <<request, pc, outcome, verdict>>
    BY <1>12 DEF GitalyServes, Typed, TypeOK, Calls
  <2>2. flight' \subseteq Calls /\ effects' \subseteq Calls
    BY <1>12, <2>1 DEF GitalyServes, Typed, TypeOK
  <2>3. report' \in [Requests -> {"none", "ok", "rejected"}]
    BY <1>12, <2>1 DEF GitalyServes, Typed, TypeOK
  <2>4. shown' \in [Requests -> SUBSET Requests]
    <3>1. Pushed \subseteq Requests
      BY DEF Typed, TypeOK, Pushed, Calls
    <3> QED
      BY <1>12, <2>1, <3>1 DEF GitalyServes, Typed, TypeOK
  <2> QED
    BY <2>1, <2>2, <2>3, <2>4 DEF Typed, TypeOK, Entitled, request, Calls, Smart
<1>13. ASSUME NEW c \in flight, GitalyForgets(c) PROVE Typed'
  BY <1>13 DEF GitalyForgets, Typed, TypeOK, Entitled, request, Calls, Smart
<1>14. CASE UNCHANGED vars
  BY <1>14 DEF vars, Typed, TypeOK, Entitled, Calls, Smart, request, gitaly
<1> QED
  BY <1>1, <1>2, <1>3, <1>4, <1>5, <1>6, <1>7, <1>8, <1>9, <1>10, <1>11, <1>12, <1>13, <1>14 DEF Next, Step

THEOREM TypeCorrect == Spec => []TypeOK
<1>1. Spec => []Typed
  BY InitTyped, NextTyped, PTL DEF Spec
<1> QED
  BY <1>1, PTL DEF Typed

-----------------------------------------------------------------------------
(* Every call carries the user its own request was granted to, and belongs to *)
(* an attempt already made.                                                   *)
Named == \A c \in flight \cup effects :
            c.as = c.req /\ c.attempt <= attempt[c.req]

LEMMA InitNamed == Init => Named
  BY DEF Init, Named

LEMMA NextNamed == Typed /\ Named /\ [Next]_vars => Named'
<1> SUFFICES ASSUME Typed, Named, [Next]_vars PROVE Named'
  OBVIOUS
<1>1. ASSUME NEW r \in Requests, Begin(r) PROVE Named'
  <2>1. flight' = flight /\ effects' = effects
    BY <1>1 DEF Begin
  <2>2. ASSUME NEW q \in Requests PROVE attempt[q] \in Int /\ attempt[q] <= attempt'[q]
    <3>1. attempt \in [Requests -> 0..MaxAttempts]
      BY DEF Typed, TypeOK
    <3> QED
      BY <1>1, <3>1, ConstantsOK DEF Begin
  <2>3. ASSUME NEW c \in flight \cup effects PROVE c.req \in Requests /\ c.attempt \in Int
    BY DEF Typed, TypeOK, Calls
  <2>4. ASSUME NEW q \in Requests PROVE attempt'[q] \in Int
    BY <1>1, ConstantsOK DEF Begin, Typed, TypeOK
  <2> QED
    BY <2>1, <2>2, <2>3, <2>4 DEF Named
<1>2. ASSUME NEW r \in Requests, ReadBody(r) PROVE Named'
  <2>1. flight' = flight /\ effects' = effects /\ attempt' = attempt
    BY <1>2 DEF ReadBody, request, gitaly
  <2> QED
    BY <2>1 DEF Named
<1>3. ASSUME NEW r \in Requests, RailsDecides(r) PROVE Named'
  <2>1. flight' = flight /\ effects' = effects /\ attempt' = attempt
    BY <1>3 DEF RailsDecides, request, gitaly
  <2> QED
    BY <2>1 DEF Named
<1>4. ASSUME NEW r \in Requests, AuthorizeFails(r) PROVE Named'
  <2>1. flight' = flight /\ effects' = effects /\ attempt' = attempt
    BY <1>4 DEF AuthorizeFails, request, gitaly
  <2> QED
    BY <2>1 DEF Named
<1>5. ASSUME NEW r \in Requests, ReadVerdict(r) PROVE Named'
  <2>1. flight' = flight /\ effects' = effects /\ attempt' = attempt
    BY <1>5 DEF ReadVerdict, request, gitaly
  <2> QED
    BY <2>1 DEF Named
<1>6. ASSUME NEW r \in Requests, Connect(r) PROVE Named'
  <2>1. effects' = effects /\ attempt' = attempt
    BY <1>6 DEF Connect, request
  <2>2. flight' = flight \/ flight' = flight \cup {Call(r, r)}
    BY <1>6 DEF Connect
  <2>3. /\ Call(r, r).as = r /\ Call(r, r).req = r
        /\ Call(r, r).attempt = attempt[r] /\ attempt[r] \in Int
    BY ConstantsOK DEF Call, Typed, TypeOK
  <2> QED
    BY <2>1, <2>2, <2>3 DEF Named
<1>7. ASSUME NEW r \in Requests, ViaGitaly(r) PROVE Named'
  <2>1. flight' = flight /\ effects' = effects /\ attempt' = attempt
    BY <1>7 DEF ViaGitaly, request, Typed, Entitled
  <2> QED
    BY <2>1 DEF Named
<1>8. ASSUME NEW r \in Requests, ReadAnswer(r) PROVE Named'
  <2>1. flight' = flight /\ effects' = effects /\ attempt' = attempt
    BY <1>8 DEF ReadAnswer, request, gitaly
  <2> QED
    BY <2>1 DEF Named
<1>9. ASSUME NEW r \in Requests, CallFails(r) PROVE Named'
  <2>1. flight' = flight /\ effects' = effects /\ attempt' = attempt
    BY <1>9 DEF CallFails, request, gitaly
  <2> QED
    BY <2>1 DEF Named
<1>10. ASSUME NEW r \in Requests, Forward(r) PROVE Named'
  <2>1. flight' = flight /\ effects' = effects /\ attempt' = attempt
    BY <1>10 DEF Forward, request, gitaly
  <2> QED
    BY <2>1 DEF Named
<1>11. ASSUME NEW r \in Requests, Leave(r) PROVE Named'
  <2>1. flight' = flight /\ effects' = effects /\ attempt' = attempt
    BY <1>11 DEF Leave, request, gitaly
  <2> QED
    BY <2>1 DEF Named
<1>12. ASSUME NEW c \in flight, GitalyServes(c) PROVE Named'
  <2>1. attempt' = attempt /\ flight' \cup effects' \subseteq flight \cup effects
    BY <1>12 DEF GitalyServes, request
  <2> QED
    BY <2>1 DEF Named
<1>13. ASSUME NEW c \in flight, GitalyForgets(c) PROVE Named'
  <2>1. attempt' = attempt /\ flight' \cup effects' \subseteq flight \cup effects
    BY <1>13 DEF GitalyForgets, request
  <2> QED
    BY <2>1 DEF Named
<1>14. CASE UNCHANGED vars
  BY <1>14 DEF vars, Named
<1> QED
  BY <1>1, <1>2, <1>3, <1>4, <1>5, <1>6, <1>7, <1>8, <1>9, <1>10, <1>11, <1>12, <1>13, <1>14 DEF Next, Step

\* ActsAsGranted for every number of requests: no path but the one Rails
\* granted reaches Gitaly.
THEOREM OnlyAsGranted == Spec => []ActsAsGranted
<1>1. Init => Typed /\ Named
  BY InitTyped, InitNamed
<1>2. Typed /\ Named /\ [Next]_vars => (Typed /\ Named)'
  BY NextTyped, NextNamed
<1>3. Typed /\ Named => ActsAsGranted
  BY DEF Named, ActsAsGranted
<1> QED
  BY <1>1, <1>2, <1>3, PTL DEF Spec

-----------------------------------------------------------------------------
(* Before its call is sent, and when it ended in a refusal, an attempt has no *)
(* call anywhere.                                                             *)
Silent(r) == \/ pc[r] \in {"reading", "asking", "deciding", "connecting", "direct", "forwarding"}
             \/ pc[r] = "idle" /\ outcome[r] \in {"passed", "400", "404"}
Uncalled(r) == \A c \in flight \cup effects : c.req = r => c.attempt # attempt[r]
Unsent == \A r \in Requests : Silent(r) => Uncalled(r)

LEMMA InitUnsent == Init => Unsent
  BY DEF Init, Unsent, Uncalled

LEMMA NextUnsent == Typed /\ Named /\ Unsent /\ [Next]_vars => Unsent'
<1> SUFFICES ASSUME Typed, Named, Unsent, [Next]_vars PROVE Unsent'
  OBVIOUS
<1>1. ASSUME NEW r \in Requests, Begin(r) PROVE Unsent'
  <2>1. flight' = flight /\ effects' = effects
    BY <1>1 DEF Begin
  <2>2. attempt \in [Requests -> Int] /\ attempt' = [attempt EXCEPT ![r] = attempt[r] + 1]
    BY <1>1, ConstantsOK DEF Begin, Typed, TypeOK
  <2>3. pc \in [Requests -> Places] /\ outcome \in [Requests -> Outcomes]
    BY DEF Typed, TypeOK, Places
  <2>4. \A q \in Requests \ {r} : Silent(q)' => Silent(q)
    BY <1>1, <2>3 DEF Begin, Route, Goto, Answer, Silent
  <2>5. Uncalled(r)'
    <3>1. ASSUME NEW c \in flight \cup effects, c.req = r
          PROVE  c.attempt \in Int /\ c.attempt <= attempt[r]
      BY <3>1 DEF Named, Typed, TypeOK, Calls
    <3>2. attempt'[r] = attempt[r] + 1 /\ attempt[r] \in Int
      BY <2>2
    <3> QED
      BY <2>1, <3>1, <3>2 DEF Uncalled
  <2>6. \A q \in Requests \ {r} : Uncalled(q) => Uncalled(q)'
    BY <2>1, <2>2 DEF Uncalled
  <2> QED
    BY <2>4, <2>5, <2>6 DEF Unsent
<1>2. ASSUME NEW r \in Requests, ReadBody(r) PROVE Unsent'
  <2>1. flight' = flight /\ effects' = effects /\ attempt' = attempt
    BY <1>2 DEF ReadBody, request, gitaly
  <2>2. pc \in [Requests -> Places] /\ outcome \in [Requests -> Outcomes]
    BY DEF Typed, TypeOK, Places
  <2>3. \A q \in Requests : Silent(q)' => Silent(q)
    BY <1>2, <2>2 DEF ReadBody, Goto, Answer, Silent
  <2> QED
    BY <2>1, <2>3 DEF Unsent, Uncalled
<1>3. ASSUME NEW r \in Requests, RailsDecides(r) PROVE Unsent'
  <2>1. flight' = flight /\ effects' = effects /\ attempt' = attempt
    BY <1>3 DEF RailsDecides, request, gitaly
  <2>2. pc \in [Requests -> Places] /\ outcome \in [Requests -> Outcomes]
    BY DEF Typed, TypeOK, Places
  <2>3. \A q \in Requests : Silent(q)' => Silent(q)
    BY <1>3, <2>2 DEF RailsDecides, Goto, Answer, Silent
  <2> QED
    BY <2>1, <2>3 DEF Unsent, Uncalled
<1>4. ASSUME NEW r \in Requests, AuthorizeFails(r) PROVE Unsent'
  <2>1. flight' = flight /\ effects' = effects /\ attempt' = attempt
    BY <1>4 DEF AuthorizeFails, request, gitaly
  <2>2. pc \in [Requests -> Places] /\ outcome \in [Requests -> Outcomes]
    BY DEF Typed, TypeOK, Places
  <2>3. \A q \in Requests : Silent(q)' => Silent(q)
    BY <1>4, <2>2 DEF AuthorizeFails, Goto, Answer, Silent
  <2> QED
    BY <2>1, <2>3 DEF Unsent, Uncalled
<1>5. ASSUME NEW r \in Requests, ReadVerdict(r) PROVE Unsent'
  <2>1. flight' = flight /\ effects' = effects /\ attempt' = attempt
    BY <1>5 DEF ReadVerdict, request, gitaly
  <2>2. pc \in [Requests -> Places] /\ outcome \in [Requests -> Outcomes]
    BY DEF Typed, TypeOK, Places
  <2>3. \A q \in Requests : Silent(q)' => Silent(q)
    BY <1>5, <2>2 DEF ReadVerdict, Goto, Answer, Silent
  <2> QED
    BY <2>1, <2>3 DEF Unsent, Uncalled
<1>6. ASSUME NEW r \in Requests, Connect(r) PROVE Unsent'
  <2>1. effects' = effects /\ attempt' = attempt /\ pc[r] = "connecting"
    BY <1>6 DEF Connect, request
  <2>2. pc \in [Requests -> Places] /\ outcome \in [Requests -> Outcomes]
    BY DEF Typed, TypeOK, Places
  <2>3. \A q \in Requests \ {r} : Silent(q)' => Silent(q)
    BY <1>6, <2>2 DEF Connect, Goto, Answer, Silent
  <2>4. Call(r, r).req = r
    BY DEF Call
  <2>5. \A q \in Requests \ {r} : Uncalled(q) => Uncalled(q)'
    BY <1>6, <2>1, <2>4 DEF Connect, Uncalled
  <2>6. CASE Goto(r, "calling")
    <3>1. pc'[r] = "calling"
      BY <2>2, <2>6 DEF Goto
    <3>2. ~Silent(r)'
      BY <3>1 DEF Silent
    <3> QED
      BY <2>3, <2>5, <3>2 DEF Unsent
  <2>7. CASE flight' = flight
    <3>1. Uncalled(r) /\ (Uncalled(r) => Uncalled(r)')
      BY <2>1, <2>7 DEF Unsent, Silent, Uncalled
    <3> QED
      BY <2>3, <2>5, <3>1 DEF Unsent
  <2> QED
    BY <1>6, <2>6, <2>7 DEF Connect
<1>7. ASSUME NEW r \in Requests, ViaGitaly(r) PROVE Unsent'
  <2>1. flight' = flight /\ effects' = effects /\ attempt' = attempt
    BY <1>7 DEF ViaGitaly, request, Typed, Entitled
  <2>2. pc \in [Requests -> Places] /\ outcome \in [Requests -> Outcomes]
    BY DEF Typed, TypeOK, Places
  <2>3. \A q \in Requests : Silent(q)' => Silent(q)
    BY <1>7, <2>2 DEF ViaGitaly, Goto, Answer, Silent
  <2> QED
    BY <2>1, <2>3 DEF Unsent, Uncalled
<1>8. ASSUME NEW r \in Requests, ReadAnswer(r) PROVE Unsent'
  <2>1. flight' = flight /\ effects' = effects /\ attempt' = attempt
    BY <1>8 DEF ReadAnswer, request, gitaly
  <2>2. pc \in [Requests -> Places] /\ outcome \in [Requests -> Outcomes]
    BY DEF Typed, TypeOK, Places
  <2>3. \A q \in Requests : Silent(q)' => Silent(q)
    BY <1>8, <2>2 DEF ReadAnswer, Goto, Answer, Silent
  <2> QED
    BY <2>1, <2>3 DEF Unsent, Uncalled
<1>9. ASSUME NEW r \in Requests, CallFails(r) PROVE Unsent'
  <2>1. flight' = flight /\ effects' = effects /\ attempt' = attempt
    BY <1>9 DEF CallFails, request, gitaly
  <2>2. pc \in [Requests -> Places] /\ outcome \in [Requests -> Outcomes]
    BY DEF Typed, TypeOK, Places
  <2>3. \A q \in Requests : Silent(q)' => Silent(q)
    BY <1>9, <2>2 DEF CallFails, Goto, Answer, Silent
  <2> QED
    BY <2>1, <2>3 DEF Unsent, Uncalled
<1>10. ASSUME NEW r \in Requests, Forward(r) PROVE Unsent'
  <2>1. flight' = flight /\ effects' = effects /\ attempt' = attempt
    BY <1>10 DEF Forward, request, gitaly
  <2>2. pc \in [Requests -> Places] /\ outcome \in [Requests -> Outcomes]
    BY DEF Typed, TypeOK, Places
  <2>3. \A q \in Requests : Silent(q)' => Silent(q)
    BY <1>10, <2>2 DEF Forward, Goto, Answer, Silent
  <2> QED
    BY <2>1, <2>3 DEF Unsent, Uncalled
<1>11. ASSUME NEW r \in Requests, Leave(r) PROVE Unsent'
  <2>1. flight' = flight /\ effects' = effects /\ attempt' = attempt
    BY <1>11 DEF Leave, request, gitaly
  <2>2. pc \in [Requests -> Places] /\ outcome \in [Requests -> Outcomes]
    BY DEF Typed, TypeOK, Places
  <2>3. \A q \in Requests : Silent(q)' => Silent(q)
    BY <1>11, <2>2 DEF Leave, Goto, Answer, Silent, Busy
  <2> QED
    BY <2>1, <2>3 DEF Unsent, Uncalled
<1>12. ASSUME NEW c \in flight, GitalyServes(c) PROVE Unsent'
  <2>1. attempt' = attempt /\ pc' = pc /\ outcome' = outcome
        /\ flight' \cup effects' \subseteq flight \cup effects
    BY <1>12 DEF GitalyServes, request
  <2> QED
    BY <2>1 DEF Unsent, Silent, Uncalled
<1>13. ASSUME NEW c \in flight, GitalyForgets(c) PROVE Unsent'
  <2>1. attempt' = attempt /\ pc' = pc /\ outcome' = outcome
        /\ flight' \cup effects' \subseteq flight \cup effects
    BY <1>13 DEF GitalyForgets, request
  <2> QED
    BY <2>1 DEF Unsent, Silent, Uncalled
<1>14. CASE UNCHANGED vars
  BY <1>14 DEF vars, Unsent, Silent, Uncalled, request, gitaly
<1> QED
  BY <1>1, <1>2, <1>3, <1>4, <1>5, <1>6, <1>7, <1>8, <1>9, <1>10, <1>11, <1>12, <1>13, <1>14 DEF Next, Step

\* RefusedHasNoEffect for every number of requests and attempts.
THEOREM RefusalsAreFinal == Spec => []RefusedHasNoEffect
<1>1. Init => Typed /\ Named /\ Unsent
  BY InitTyped, InitNamed, InitUnsent
<1>2. Typed /\ Named /\ Unsent /\ [Next]_vars => (Typed /\ Named /\ Unsent)'
  BY NextTyped, NextNamed, NextUnsent
<1>3. Unsent => RefusedHasNoEffect
  BY DEF Unsent, Silent, Uncalled, RefusedHasNoEffect
<1> QED
  BY <1>1, <1>2, <1>3, PTL DEF Spec

-----------------------------------------------------------------------------
(* Gitaly says "ok" only of a push it took over, and takes none back.         *)
Real == \A r \in Requests : op[r] = "push" /\ report[r] = "ok" => r \in Pushed

LEMMA InitReal == Init => Real
  BY DEF Init, Real

LEMMA NextReal == Typed /\ Real /\ [Next]_vars => Real'
<1> SUFFICES ASSUME Typed, Real, [Next]_vars PROVE Real'
  OBVIOUS
<1>1. ASSUME NEW r \in Requests, Begin(r) PROVE Real'
  <2>1. op' = op /\ effects' = effects /\ report' = [report EXCEPT ![r] = "none"]
    BY <1>1 DEF Begin
  <2> QED
    BY <2>1 DEF Real, Pushed, Typed, TypeOK
<1>2. ASSUME NEW r \in Requests, ReadBody(r) PROVE Real'
  <2>1. op' = op /\ report' = report /\ effects' = effects
    BY <1>2 DEF ReadBody, request, gitaly
  <2> QED
    BY <2>1 DEF Real, Pushed
<1>3. ASSUME NEW r \in Requests, RailsDecides(r) PROVE Real'
  <2>1. op' = op /\ report' = report /\ effects' = effects
    BY <1>3 DEF RailsDecides, request, gitaly
  <2> QED
    BY <2>1 DEF Real, Pushed
<1>4. ASSUME NEW r \in Requests, AuthorizeFails(r) PROVE Real'
  <2>1. op' = op /\ report' = report /\ effects' = effects
    BY <1>4 DEF AuthorizeFails, request, gitaly
  <2> QED
    BY <2>1 DEF Real, Pushed
<1>5. ASSUME NEW r \in Requests, ReadVerdict(r) PROVE Real'
  <2>1. op' = op /\ report' = report /\ effects' = effects
    BY <1>5 DEF ReadVerdict, request, gitaly
  <2> QED
    BY <2>1 DEF Real, Pushed
<1>6. ASSUME NEW r \in Requests, Connect(r) PROVE Real'
  <2>1. op' = op /\ report' = report /\ effects' = effects
    BY <1>6 DEF Connect, request, gitaly
  <2> QED
    BY <2>1 DEF Real, Pushed
<1>7. ASSUME NEW r \in Requests, ViaGitaly(r) PROVE Real'
  <2>1. op' = op /\ report' = report /\ effects' = effects
    BY <1>7 DEF ViaGitaly, request, gitaly
  <2> QED
    BY <2>1 DEF Real, Pushed
<1>8. ASSUME NEW r \in Requests, ReadAnswer(r) PROVE Real'
  <2>1. op' = op /\ report' = report /\ effects' = effects
    BY <1>8 DEF ReadAnswer, request, gitaly
  <2> QED
    BY <2>1 DEF Real, Pushed
<1>9. ASSUME NEW r \in Requests, CallFails(r) PROVE Real'
  <2>1. op' = op /\ report' = report /\ effects' = effects
    BY <1>9 DEF CallFails, request, gitaly
  <2> QED
    BY <2>1 DEF Real, Pushed
<1>10. ASSUME NEW r \in Requests, Forward(r) PROVE Real'
  <2>1. op' = op /\ report' = report /\ effects' = effects
    BY <1>10 DEF Forward, request, gitaly
  <2> QED
    BY <2>1 DEF Real, Pushed
<1>11. ASSUME NEW r \in Requests, Leave(r) PROVE Real'
  <2>1. op' = op /\ report' = report /\ effects' = effects
    BY <1>11 DEF Leave, request, gitaly
  <2> QED
    BY <2>1 DEF Real, Pushed
<1>12. ASSUME NEW c \in flight, GitalyServes(c) PROVE Real'
  <2>1. op' = op /\ Pushed \subseteq Pushed' /\ c.req \in Requests
    BY <1>12 DEF GitalyServes, request, Pushed, Typed, TypeOK, Calls
  <2>2. op[c.req] = "push" => c.req \in Pushed'
    BY <1>12 DEF GitalyServes, Pushed
  <2>3. \A q \in Requests \ {c.req} : report'[q] = report[q]
    BY <1>12, <2>1 DEF GitalyServes, Typed, TypeOK
  <2> QED
    BY <2>1, <2>2, <2>3 DEF Real
<1>13. ASSUME NEW c \in flight, GitalyForgets(c) PROVE Real'
  <2>1. op' = op /\ report' = report /\ effects' = effects
    BY <1>13 DEF GitalyForgets, request, gitaly
  <2> QED
    BY <2>1 DEF Real, Pushed
<1>14. CASE UNCHANGED vars
  BY <1>14 DEF vars, Real, Pushed, request, gitaly
<1> QED
  BY <1>1, <1>2, <1>3, <1>4, <1>5, <1>6, <1>7, <1>8, <1>9, <1>10, <1>11, <1>12, <1>13, <1>14 DEF Next, Step

-----------------------------------------------------------------------------
(* References are listed after the request for them began: what had been      *)
(* reported by then was taken over by then, and is shown.                     *)
Fresh ==
    \A r \in Requests :
        /\ known[r] \subseteq Pushed
        /\ op[r] = "refs" /\ verdict[r] # "none" => known[r] \subseteq shown[r]
        /\ op[r] = "refs" /\ outcome[r] = "200" => verdict[r] # "none"

LEMMA InitFresh == Init => Fresh
  BY DEF Init, Fresh

LEMMA NextFresh == Typed /\ Real /\ Fresh /\ [Next]_vars => Fresh'
<1> SUFFICES ASSUME Typed, Real, Fresh, [Next]_vars PROVE Fresh'
  OBVIOUS
<1>1. ASSUME NEW r \in Requests, Begin(r) PROVE Fresh'
  <2>1. UNCHANGED <<op, effects>> /\ Pushed' = Pushed
    BY <1>1 DEF Begin, Pushed
  <2>2. Reported \subseteq Pushed
    BY DEF Real, Reported
  <2>3. /\ verdict'[r] = "none" /\ known'[r] \subseteq Reported
        /\ \A q \in Requests \ {r} :
              known'[q] = known[q] /\ verdict'[q] = verdict[q] /\ shown'[q] = shown[q]
    BY <1>1 DEF Begin, Typed, TypeOK
  <2>4. outcome'[r] # "200" /\ \A q \in Requests \ {r} : outcome'[q] = outcome[q]
    BY <1>1 DEF Begin, Route, Goto, Answer, Typed, TypeOK
  <2> QED
    BY <2>1, <2>2, <2>3, <2>4 DEF Fresh
<1>2. ASSUME NEW r \in Requests, ReadBody(r) PROVE Fresh'
  <2>1. UNCHANGED <<op, known, verdict, effects, shown>>
    BY <1>2 DEF ReadBody, request, gitaly
  <2>2. \A q \in Requests : op[q] = "refs" /\ outcome'[q] = "200" =>
            outcome[q] = "200" \/ verdict[q] # "none"
    <3>1. outcome \in [Requests -> Outcomes] /\ (op[r] = "refs" => Smart(r))
      BY DEF Typed, TypeOK, Smart
    <3> QED
      BY <1>2, <3>1 DEF ReadBody, Goto, Answer, Typed, Entitled
  <2> QED
    BY <2>1, <2>2 DEF Fresh, Pushed
<1>3. ASSUME NEW r \in Requests, RailsDecides(r) PROVE Fresh'
  <2>1. UNCHANGED <<op, known, effects, outcome>> /\ Pushed' = Pushed
    BY <1>3 DEF RailsDecides, Goto, request, Pushed
  <2>2. op[r] = "refs" => shown'[r] = Pushed
    BY <1>3 DEF RailsDecides, Typed, TypeOK
  <2>3. /\ verdict'[r] # "none"
        /\ \A q \in Requests \ {r} : verdict'[q] = verdict[q] /\ shown'[q] = shown[q]
    BY <1>3 DEF RailsDecides, Typed, TypeOK
  <2> QED
    BY <2>1, <2>2, <2>3 DEF Fresh
<1>4. ASSUME NEW r \in Requests, AuthorizeFails(r) PROVE Fresh'
  <2>1. UNCHANGED <<op, known, verdict, effects, shown>>
    BY <1>4 DEF AuthorizeFails, request, gitaly
  <2>2. \A q \in Requests : op[q] = "refs" /\ outcome'[q] = "200" =>
            outcome[q] = "200" \/ verdict[q] # "none"
    <3>1. outcome \in [Requests -> Outcomes] /\ (op[r] = "refs" => Smart(r))
      BY DEF Typed, TypeOK, Smart
    <3> QED
      BY <1>4, <3>1 DEF AuthorizeFails, Goto, Answer, Typed, Entitled
  <2> QED
    BY <2>1, <2>2 DEF Fresh, Pushed
<1>5. ASSUME NEW r \in Requests, ReadVerdict(r) PROVE Fresh'
  <2>1. UNCHANGED <<op, known, verdict, effects, shown>>
    BY <1>5 DEF ReadVerdict, request, gitaly
  <2>2. \A q \in Requests : op[q] = "refs" /\ outcome'[q] = "200" =>
            outcome[q] = "200" \/ verdict[q] # "none"
    <3>1. outcome \in [Requests -> Outcomes] /\ (op[r] = "refs" => Smart(r))
      BY DEF Typed, TypeOK, Smart
    <3> QED
      BY <1>5, <3>1 DEF ReadVerdict, Goto, Answer, Typed, Entitled
  <2> QED
    BY <2>1, <2>2 DEF Fresh, Pushed
<1>6. ASSUME NEW r \in Requests, Connect(r) PROVE Fresh'
  <2>1. UNCHANGED <<op, known, verdict, effects, shown>>
    BY <1>6 DEF Connect, request, gitaly
  <2>2. \A q \in Requests : op[q] = "refs" /\ outcome'[q] = "200" =>
            outcome[q] = "200" \/ verdict[q] # "none"
    <3>1. outcome \in [Requests -> Outcomes] /\ (op[r] = "refs" => Smart(r))
      BY DEF Typed, TypeOK, Smart
    <3> QED
      BY <1>6, <3>1 DEF Connect, Goto, Answer, Typed, Entitled
  <2> QED
    BY <2>1, <2>2 DEF Fresh, Pushed
<1>7. ASSUME NEW r \in Requests, ViaGitaly(r) PROVE Fresh'
  <2>1. UNCHANGED <<op, known, verdict, effects, shown>>
    BY <1>7 DEF ViaGitaly, request, gitaly
  <2>2. \A q \in Requests : op[q] = "refs" /\ outcome'[q] = "200" =>
            outcome[q] = "200" \/ verdict[q] # "none"
    <3>1. outcome \in [Requests -> Outcomes] /\ (op[r] = "refs" => Smart(r))
      BY DEF Typed, TypeOK, Smart
    <3> QED
      BY <1>7, <3>1 DEF ViaGitaly, Goto, Answer, Typed, Entitled
  <2> QED
    BY <2>1, <2>2 DEF Fresh, Pushed
<1>8. ASSUME NEW r \in Requests, ReadAnswer(r) PROVE Fresh'
  <2>1. UNCHANGED <<op, known, verdict, effects, shown>>
    BY <1>8 DEF ReadAnswer, request, gitaly
  <2>2. \A q \in Requests : op[q] = "refs" /\ outcome'[q] = "200" =>
            outcome[q] = "200" \/ verdict[q] # "none"
    <3>1. outcome \in [Requests -> Outcomes] /\ (op[r] = "refs" => Smart(r))
      BY DEF Typed, TypeOK, Smart
    <3> QED
      BY <1>8, <3>1 DEF ReadAnswer, Goto, Answer, Typed, Entitled
  <2> QED
    BY <2>1, <2>2 DEF Fresh, Pushed
<1>9. ASSUME NEW r \in Requests, CallFails(r) PROVE Fresh'
  <2>1. UNCHANGED <<op, known, verdict, effects, shown>>
    BY <1>9 DEF CallFails, request, gitaly
  <2>2. \A q \in Requests : op[q] = "refs" /\ outcome'[q] = "200" =>
            outcome[q] = "200" \/ verdict[q] # "none"
    <3>1. outcome \in [Requests -> Outcomes] /\ (op[r] = "refs" => Smart(r))
      BY DEF Typed, TypeOK, Smart
    <3> QED
      BY <1>9, <3>1 DEF CallFails, Goto, Answer, Typed, Entitled
  <2> QED
    BY <2>1, <2>2 DEF Fresh, Pushed
<1>10. ASSUME NEW r \in Requests, Forward(r) PROVE Fresh'
  <2>1. UNCHANGED <<op, known, verdict, effects, shown>>
    BY <1>10 DEF Forward, request, gitaly
  <2>2. \A q \in Requests : op[q] = "refs" /\ outcome'[q] = "200" =>
            outcome[q] = "200" \/ verdict[q] # "none"
    <3>1. outcome \in [Requests -> Outcomes] /\ (op[r] = "refs" => Smart(r))
      BY DEF Typed, TypeOK, Smart
    <3> QED
      BY <1>10, <3>1 DEF Forward, Goto, Answer, Typed, Entitled
  <2> QED
    BY <2>1, <2>2 DEF Fresh, Pushed
<1>11. ASSUME NEW r \in Requests, Leave(r) PROVE Fresh'
  <2>1. UNCHANGED <<op, known, verdict, effects, shown>>
    BY <1>11 DEF Leave, request, gitaly
  <2>2. \A q \in Requests : op[q] = "refs" /\ outcome'[q] = "200" =>
            outcome[q] = "200" \/ verdict[q] # "none"
    <3>1. outcome \in [Requests -> Outcomes] /\ (op[r] = "refs" => Smart(r))
      BY DEF Typed, TypeOK, Smart
    <3> QED
      BY <1>11, <3>1 DEF Leave, Goto, Answer, Typed, Entitled
  <2> QED
    BY <2>1, <2>2 DEF Fresh, Pushed
<1>12. ASSUME NEW c \in flight, GitalyServes(c) PROVE Fresh'
  <2>1. UNCHANGED <<op, known, verdict, outcome>> /\ c.req \in Requests
    BY <1>12 DEF GitalyServes, request, Typed, TypeOK, Calls
  <2>2. Pushed \subseteq Pushed'
    BY <1>12 DEF GitalyServes, Pushed
  <2>3. \A q \in Requests : shown'[q] = shown[q] \/ shown'[q] = Pushed
    BY <1>12, <2>1 DEF GitalyServes, Typed, TypeOK
  <2> QED
    BY <2>1, <2>2, <2>3 DEF Fresh
<1>13. ASSUME NEW c \in flight, GitalyForgets(c) PROVE Fresh'
  BY <1>13 DEF GitalyForgets, request, Fresh, Pushed
<1>14. CASE UNCHANGED vars
  BY <1>14 DEF vars, Fresh, Pushed, request, gitaly
<1> QED
  BY <1>1, <1>2, <1>3, <1>4, <1>5, <1>6, <1>7, <1>8, <1>9, <1>10, <1>11, <1>12, <1>13, <1>14 DEF Next, Step

\* RefsFresh for every number of requests and attempts.
THEOREM AdvertisedAreFresh == Spec => []RefsFresh
<1>1. Init => Typed /\ Real /\ Fresh
  BY InitTyped, InitReal, InitFresh
<1>2. Typed /\ Real /\ Fresh /\ [Next]_vars => (Typed /\ Real /\ Fresh)'
  BY NextTyped, NextReal, NextFresh
<1>3. Fresh => RefsFresh
  BY DEF Fresh, RefsFresh
<1> QED
  BY <1>1, <1>2, <1>3, PTL DEF Spec

=============================================================================
