---------------------------- MODULE ProxyProofs ----------------------------
(* That updates of the picture sweep the cache clean of everything but what  *)
(* comes in behind them, for any number of requests and keys.                *)
EXTENDS Proxy, TLAPS

\* The larger of two versions is a version, and is no smaller than either.
LEMMA AtLeastFacts ==
    ASSUME NEW a \in Version, NEW b \in Version
    PROVE  AtLeast(a, b) \in Version /\ a <= AtLeast(a, b) /\ b <= AtLeast(a, b)
  BY ConstantsOK DEF AtLeast, Version

\* An answer record keeps its type when its body is lost or replaced.
LEMMA EmptiedAnswer ==
    ASSUME NEW f \in [Requests -> Answer], NEW r \in Requests,
           NEW part \in {"file", "empty"}
    PROVE  [f EXCEPT ![r].body.part = part] \in [Requests -> Answer]
  BY DEF Answer, Body

LEMMA ReplacedBody ==
    ASSUME NEW f \in [Requests -> Answer], NEW r \in Requests, NEW b \in Body
    PROVE  [f EXCEPT ![r].body = b] \in [Requests -> Answer]
  BY DEF Answer

LEMMA NoAnswerType == NoAnswer \in Answer
  BY ConstantsOK DEF NoAnswer, NoBody, Answer, Body, Version

\* Slots, breaker, cache and backend keep their types.
THEOREM TypeCorrect == Spec => []TypeOK
<1> USE ConstantsOK
<1>1. Init => TypeOK
  BY NoAnswerType DEF Init, TypeOK, Operations, Version
<1>2. TypeOK /\ [Next]_vars => TypeOK'
  <2> SUFFICES ASSUME TypeOK, [Next]_vars PROVE TypeOK'
    OBVIOUS
  <2> USE NoAnswerType DEF TypeOK, reqvars, breaker, history, Goto, Finish
  <2>1. ASSUME NEW r \in Requests, Arrive(r) PROVE TypeOK'
    BY <2>1 DEF Arrive, Operations, Version
  <2>2. ASSUME NEW r \in Requests, Admit(r) PROVE TypeOK'
    BY <2>2 DEF Admit, Operations, Version
  <2>3. ASSUME NEW r \in Requests, Lookup(r) PROVE TypeOK'
    BY <2>3 DEF Lookup, Operations, Version
  <2>4. ASSUME NEW r \in Requests, SendFails(r) PROVE TypeOK'
    BY <2>4 DEF SendFails, Operations, Version
  <2>4a. ASSUME NEW r \in Requests, RecordsFailure(r) PROVE TypeOK'
    BY <2>4a DEF RecordsFailure, RecordFailure, Operations, Version
  <2>5. ASSUME NEW r \in Requests, Receive(r) PROVE TypeOK'
    BY <2>5 DEF Receive
  <2>5a. ASSUME NEW r \in Requests, RecordsSuccess(r) PROVE TypeOK'
    BY <2>5a DEF RecordsSuccess, RecordSuccess
  <2>6. ASSUME NEW r \in Requests, ReadBody(r) PROVE TypeOK'
    BY <2>6 DEF ReadBody
  <2>7. ASSUME NEW r \in Requests, BodyFails(r) PROVE TypeOK'
    <3>1. CASE Transport = "tcp"
      <4>1. PICK part \in {"file", "empty"} :
                answer' = [answer EXCEPT ![r].body.part = part]
        BY <2>7, <3>1 DEF BodyFails
      <4>2. answer' \in [Requests -> Answer]
        BY <4>1, EmptiedAnswer
      <4> QED
        BY <2>7, <3>1, <4>2 DEF BodyFails
    <3>2. CASE Transport = "unix"
      BY <2>7, <3>2 DEF BodyFails, Operations, Version
    <3> QED
      BY <3>1, <3>2
  <2>7a. ASSUME NEW r \in Requests, LoadFile(r) PROVE TypeOK'
    <3>1. [version |-> version, part |-> "whole"] \in Body
      BY DEF Body
    <3>2. answer' \in [Requests -> Answer]
      <4>1. CASE answer' = [answer EXCEPT ![r].body =
                               [version |-> version, part |-> "whole"]]
        BY <3>1, <4>1, ReplacedBody
      <4>2. CASE answer' = [answer EXCEPT ![r].body.part = "empty"]
        BY <4>2, EmptiedAnswer
      <4> QED
        BY <2>7a, <4>1, <4>2 DEF LoadFile
    <3> QED
      BY <2>7a, <3>2 DEF LoadFile
  <2>8. ASSUME NEW r \in Requests, Store(r) PROVE TypeOK'
    <3>1. CASE key[r] \in Keys
      <4>1. [body |-> answer[r].body, after |-> swept[key[r]]] \in Entry
        BY <3>1 DEF Answer, Entry
      <4>2. cache' \in [Keys -> Entry \cup {None}]
        BY <2>8, <4>1 DEF Store
      <4> QED
        BY <2>8, <4>2 DEF Store, Operations, Version
    <3>2. CASE key[r] = None
      <4>0. \A k \in Keys : k # key[r]
        BY <3>2
      <4>1. cache' \in [Keys -> Entry \cup {None}]
        BY <2>8, <4>0 DEF Store
      <4> QED
        BY <2>8, <4>1 DEF Store, Operations, Version
    <3> QED
      BY <3>1, <3>2
  <2>9. ASSUME NEW r \in Requests, PassError(r) PROVE TypeOK'
    BY <2>9 DEF PassError, Operations, Version
  <2>10. ASSUME NEW r \in Requests, BeginSweep(r) PROVE TypeOK'
    BY <2>10 DEF BeginSweep
  <2>11. ASSUME NEW r \in Requests, Acknowledge(r) PROVE TypeOK'
    <3>1. AtLeast(acked, answer[r].body.version) \in Version
      BY AtLeastFacts DEF Answer, Body
    <3> QED
      BY <2>11, <3>1 DEF Acknowledge, Operations, Version
  <2>12. ASSUME NEW r \in Requests, NEW k \in Keys, ScanKey(r, k) PROVE TypeOK'
    <3>1. AtLeast(swept[k], answer[r].body.version) \in Version
      BY AtLeastFacts DEF Answer, Body
    <3> QED
      BY <2>12, <3>1 DEF ScanKey, Sweeping
  <2>13. ASSUME NEW r \in Requests, NEW k \in Keys, Invalidate(r, k) PROVE TypeOK'
    <3>1. AtLeast(swept[k], answer[r].body.version) \in Version
      BY AtLeastFacts DEF Answer, Body
    <3> QED
      BY <2>13, <3>1 DEF Invalidate, Sweeping
  <2>14. ASSUME NEW r \in Requests, BackendAnswers(r) PROVE TypeOK'
    <3>1. version' \in Version
      BY <2>14 DEF BackendAnswers, Version
    <3>2. PICK a : a \in Answer /\ answer' = [answer EXCEPT ![r] = a]
      <4>1. CASE \E part \in {"file", IF op[r] = "get" THEN "whole" ELSE "range"} :
                   answer' = [answer EXCEPT ![r] =
                      [status |-> "success",
                       body |-> [version |-> version, part |-> part]]]
        BY <4>1 DEF Answer, Body
      <4>2. CASE version < MaxUpdates /\ answer' = [answer EXCEPT ![r] =
                   [status |-> "success",
                    body |-> [version |-> version + 1, part |-> "whole"]]]
        <5>1. [status |-> "success",
               body |-> [version |-> version + 1, part |-> "whole"]] \in Answer
          BY <4>2 DEF Answer, Body, Version
        <5> QED
          BY <4>2, <5>1
      <4>3. CASE answer' = [answer EXCEPT ![r] = NoAnswer]
        BY <4>3
      <4> QED
        BY <2>14, <4>1, <4>2, <4>3 DEF BackendAnswers
    <3> QED
      BY <2>14, <3>1, <3>2 DEF BackendAnswers
  <2>15. ASSUME NEW r \in Requests, Leave(r) PROVE TypeOK'
    BY <2>15 DEF Leave, Operations, Version
  <2>16. ASSUME NEW k \in Keys, Expire(k) PROVE TypeOK'
    BY <2>16 DEF Expire
  <2>17. ASSUME Tick PROVE TypeOK'
    BY <2>17 DEF Tick
  <2>18. CASE UNCHANGED vars
    BY <2>18 DEF vars
  <2> QED
    BY <2>1, <2>2, <2>3, <2>4, <2>4a, <2>5, <2>5a, <2>6, <2>7, <2>7a, <2>8,
       <2>9, <2>10, <2>11, <2>12, <2>13, <2>14, <2>15, <2>16, <2>17, <2>18 DEF Next, Step
<1> QED
  BY <1>1, <1>2, PTL DEF Spec

\* Sweeps: the argument above StaleOnlyFromStraddler, step by step.
THEOREM SweepsCorrect == Spec => []Sweeps
<1>1. Init => Sweeps
  BY ConstantsOK DEF Init, Sweeps
<1>2. TypeOK /\ Sweeps /\ [Next]_vars => Sweeps'
  <2> SUFFICES ASSUME TypeOK, Sweeps, [Next]_vars PROVE Sweeps'
    OBVIOUS
  <2> USE DEF Sweeps, reqvars, breaker, history, Goto, Finish
  <2>t. /\ pc \in [Requests -> {"idle", "admit", "lookup", "send", "answered", "failed",
                                "received", "body", "pipeline", "sweep"}]
        /\ scan \in [Requests -> SUBSET Keys]
        /\ doomed \in [Requests -> SUBSET Keys]
        /\ answer \in [Requests -> Answer]
        /\ cache \in [Keys -> Entry \cup {None}]
        /\ swept \in [Keys -> Version]
        /\ acked \in Version
    BY DEF TypeOK
  <2>v. \A r \in Requests : answer[r].body.version \in Version
    BY <2>t DEF Answer, Body
  <2>i. Version \subseteq Nat
    BY ConstantsOK DEF Version
  <2>1. ASSUME NEW r \in Requests, Arrive(r) PROVE Sweeps'
    BY <2>t, <2>1 DEF Arrive
  <2>2. ASSUME NEW r \in Requests, Admit(r) PROVE Sweeps'
    BY <2>t, <2>2 DEF Admit
  <2>3. ASSUME NEW r \in Requests, Lookup(r) PROVE Sweeps'
    BY <2>t, <2>3 DEF Lookup
  <2>4. ASSUME NEW r \in Requests, SendFails(r) PROVE Sweeps'
    BY <2>t, <2>4 DEF SendFails
  <2>5. ASSUME NEW r \in Requests, Receive(r) PROVE Sweeps'
    BY <2>t, <2>5 DEF Receive
  <2>4a. ASSUME NEW r \in Requests, RecordsFailure(r) PROVE Sweeps'
    BY <2>t, <2>4a DEF RecordsFailure
  <2>5a. ASSUME NEW r \in Requests, RecordsSuccess(r) PROVE Sweeps'
    BY <2>t, <2>5a DEF RecordsSuccess
  <2>6. ASSUME NEW r \in Requests, ReadBody(r) PROVE Sweeps'
    BY <2>t, <2>6 DEF ReadBody
  <2>7. ASSUME NEW r \in Requests, BodyFails(r) PROVE Sweeps'
    BY <2>t, <2>7 DEF BodyFails
  <2>7a. ASSUME NEW r \in Requests, LoadFile(r) PROVE Sweeps'
    BY <2>t, <2>7a DEF LoadFile
  <2>8. ASSUME NEW r \in Requests, Store(r) PROVE Sweeps'
    <3>1. /\ swept' = swept /\ acked' = acked
          /\ scan' = scan /\ doomed' = doomed
      BY <2>8 DEF Store
    <3>2. \A q \in Requests : pc'[q] = "sweep" =>
              pc[q] = "sweep" /\ answer'[q] = answer[q]
      BY <2>t, <2>8 DEF Store
    <3>3. CASE cache' = cache
      BY <3>1, <3>2, <3>3
    <3>4. CASE cache' = [cache EXCEPT ![key[r]] =
                            [body |-> answer[r].body, after |-> swept[key[r]]]]
      <4>1. /\ \A k \in Keys \ {key[r]} : cache'[k] = cache[k]
            /\ key[r] \in Keys => cache'[key[r]].after = swept[key[r]]
        BY <2>t, <3>4
      <4>2. \A k \in Keys : cache'[k] # None /\ cache'[k].body.version < swept[k] =>
                cache'[k].after > cache'[k].body.version
        BY <4>1
      <4> QED
        BY <3>1, <3>2, <4>2
    <3> QED
      BY <2>8, <3>3, <3>4 DEF Store
  <2>9. ASSUME NEW r \in Requests, PassError(r) PROVE Sweeps'
    BY <2>t, <2>9 DEF PassError
  <2>10. ASSUME NEW r \in Requests, BeginSweep(r) PROVE Sweeps'
    BY <2>t, <2>10 DEF BeginSweep
  <2>11. ASSUME NEW r \in Requests, Acknowledge(r) PROVE Sweeps'
    <3>1. \A k \in Keys : AtLeast(acked, answer[r].body.version) <= swept[k]
      BY <2>t, <2>v, <2>i, <2>11 DEF Acknowledge, AtLeast
    <3> QED
      BY <2>t, <2>11, <3>1 DEF Acknowledge
  <2>12. ASSUME NEW r \in Requests, NEW k \in Keys,
                ScanKey(r, k) \/ Invalidate(r, k)
         PROVE  Sweeps'
    <3> DEFINE u == answer[r].body.version
    <3>1. UNCHANGED <<pc, answer, acked>>
      BY <2>12 DEF ScanKey, Invalidate
    <3>2. CASE /\ cache'[k] = None
               /\ swept' = [swept EXCEPT ![k] = AtLeast(@, u)]
               /\ \A j \in Keys \ {k} : cache'[j] = cache[j]
      <4>1. /\ swept'[k] \in Version /\ swept[k] <= swept'[k] /\ u <= swept'[k]
            /\ \A j \in Keys \ {k} : swept'[j] = swept[j]
        BY <2>t, <2>v, <3>2, AtLeastFacts
      <4>2. \A q \in Requests : \A j \in Keys :
                j \notin scan'[q] \cup doomed'[q] =>
                    (q = r /\ j = k) \/ j \notin scan[q] \cup doomed[q]
        BY <2>t, <2>12 DEF ScanKey, Invalidate
      <4>3. \A j \in Keys : swept[j] \in Nat /\ swept'[j] \in Nat /\ swept[j] <= swept'[j]
        BY <2>t, <2>i, <4>1
      <4>4. \A j \in Keys : acked' <= swept'[j]
        BY <2>t, <2>i, <3>1, <4>3
      <4>5. \A j \in Keys : cache'[j] # None /\ cache'[j].body.version < swept'[j] =>
                cache'[j].after > cache'[j].body.version
        BY <3>2, <4>1
      <4>6. ASSUME NEW q \in Requests, pc'[q] = "sweep",
                   NEW j \in Keys, j \notin scan'[q] \cup doomed'[q]
            PROVE  answer'[q].body.version <= swept'[j]
        <5>1. CASE q = r /\ j = k
          BY <3>1, <4>1, <5>1
        <5>2. CASE j \notin scan[q] \cup doomed[q]
          <6>1. answer[q].body.version <= swept[j]
            BY <3>1, <4>6, <5>2
          <6>2. answer[q].body.version \in Nat
            BY <2>v, <2>i
          <6> QED
            BY <3>1, <4>3, <6>1, <6>2
        <5> QED
          BY <4>2, <4>6, <5>1, <5>2
      <4> QED
        BY <4>4, <4>5, <4>6
    <3>3. CASE UNCHANGED <<cache, swept>> /\ ScanKey(r, k)
               /\ doomed' = [doomed EXCEPT ![r] = @ \cup {k}]
      <4>1. \A q \in Requests : scan[q] \cup doomed[q] \subseteq scan'[q] \cup doomed'[q]
        BY <2>t, <3>3 DEF ScanKey
      <4> QED
        BY <3>1, <3>3, <4>1
    <3> QED
      BY <2>t, <2>12, <3>2, <3>3 DEF ScanKey, Invalidate, Sweeping
  <2>13. ASSUME NEW r \in Requests, BackendAnswers(r) PROVE Sweeps'
    BY <2>t, <2>13 DEF BackendAnswers
  <2>14. ASSUME NEW r \in Requests, Leave(r) PROVE Sweeps'
    BY <2>t, <2>14 DEF Leave
  <2>15. ASSUME NEW k \in Keys, Expire(k) PROVE Sweeps'
    BY <2>t, <2>15 DEF Expire
  <2>16. ASSUME Tick PROVE Sweeps'
    BY <2>16 DEF Tick
  <2>17. CASE UNCHANGED vars
    BY <2>17 DEF vars
  <2> QED
    BY <2>1, <2>2, <2>3, <2>4, <2>4a, <2>5, <2>5a, <2>6, <2>7, <2>7a, <2>8,
       <2>9, <2>10, <2>11, <2>12, <2>13, <2>14, <2>15, <2>16, <2>17 DEF Next, Step
<1> QED
  BY <1>1, <1>2, TypeCorrect, PTL DEF Spec

\* An outdated entry was stored by a request the sweep could not see.
THEOREM OnlyStraddlersAreStale == Spec => []StaleOnlyFromStraddler
<1>1. TypeOK /\ Sweeps => StaleOnlyFromStraddler
  <2> SUFFICES ASSUME TypeOK, Sweeps, NEW k \in Keys,
                      cache[k] # None, cache[k].body.version < acked
               PROVE  cache[k].after > cache[k].body.version
    BY DEF StaleOnlyFromStraddler
  <2>1. cache[k].body.version \in Nat /\ swept[k] \in Nat /\ acked \in Nat
    BY ConstantsOK DEF TypeOK, Entry, Body, Version
  <2> QED
    BY <2>1 DEF Sweeps
<1> QED
  BY <1>1, TypeCorrect, SweepsCorrect, PTL
=============================================================================
