------------------------------- MODULE Proxy -------------------------------
(***************************************************************************)
(* Requests proxied to the Rails backend (proxy_handler and                *)
(* proxy_request_streaming): the circuit breaker at the door, the response *)
(* cache, the round trip over TCP or a unix socket, the report of its      *)
(* outcome to the breaker, the response pipeline that reads the file a     *)
(* response names and fills the cache, and the sweep of the avatar entries *)
(* after an update.  Every await is a step: requests interleave between    *)
(* any two.                                                                *)
(*                                                                         *)
(* The backend holds one picture, shown at every URL of Keys and replaced  *)
(* by updates; a body is the version it shows and how much of it there is. *)
(***************************************************************************)
EXTENDS Naturals

CONSTANTS
    Requests,     \* request slots; a slot is used again and again
    Keys,         \* cache keys of the picture's URLs
    Ops,          \* what clients ask for: a subset of Operations
    Transport,    \* "tcp" or "unix"
    MaxFailures,  \* failures that open the breaker
    Timeout,      \* ticks the breaker stays open after the last failure
    MaxUpdates,   \* bound on the updates the backend applies
    Faults,       \* what may go wrong: a subset of FaultKinds
    None          \* no cache entry, or no request in a slot

Operations == {"get", "range", "update"}
FaultKinds == {"connection", "body", "file", "server", "client"}

ASSUME ConstantsOK ==
    /\ Ops \subseteq Operations
    /\ Transport \in {"tcp", "unix"}
    /\ MaxFailures \in Nat \ {0}
    /\ Timeout \in Nat \ {0}
    /\ MaxUpdates \in Nat
    /\ Faults \subseteq FaultKinds
    /\ None \notin Keys

VARIABLES
    pc,        \* where each request is
    op,        \* what it asks for
    key,       \* the cache key of its URL
    answer,    \* what the backend answered it
    scan,      \* keys its sweep has not looked at yet
    doomed,    \* keys its sweep found and will invalidate
    failures,  \* CircuitBreaker.failures, counted up to MaxFailures
    quiet,     \* ticks since last_failure, counted up to Timeout
    cache,     \* CacheState.cache: an entry or None
    version,   \* backend: the picture's version
    acked,     \* history: newest version whose update was answered with success
    swept,     \* history: per key, newest update whose sweep is done with it
    seen       \* history: newest acknowledged update when a request arrived

reqvars == <<pc, op, key, answer, scan, doomed>>
breaker == <<failures, quiet>>
history == <<acked, swept, seen>>
vars == <<pc, op, key, answer, scan, doomed, failures, quiet, cache, version,
          acked, swept, seen>>

Version == 0..MaxUpdates
\* A partial answer (206), a whole one, none but the name of a file to send
\* instead, or the empty body left where one could not be read.
Body == [version : Version, part : {"whole", "range", "file", "empty"}]
NoBody == [version |-> 0, part |-> "empty"]
\* `after` is history: how far the key had been swept when the entry came in.
Entry == [body : Body, after : Version]
Answer == [status : {"success", "error"}, body : Body]
NoAnswer == [status |-> "error", body |-> NoBody]
IsGet(r) == op[r] \in {"get", "range"}
AtLeast(a, b) == IF a < b THEN b ELSE a

\* Mutant: an open breaker never closes by itself.
OpenForGood == failures >= MaxFailures

\* CircuitBreaker::is_open.  record_failure sets last_failure while it holds
\* the lock on `failures`, which is_open takes first: the pair is read as one.
IsOpen == failures >= MaxFailures /\ quiet < Timeout

\* Mutant: failures count as such only while the last one is recent.
CountAfresh ==
    /\ failures' = IF quiet = Timeout THEN 1
                   ELSE IF failures < MaxFailures THEN failures + 1 ELSE failures
    /\ quiet' = 0

RecordFailure ==
    /\ failures' = IF failures < MaxFailures THEN failures + 1 ELSE failures
    /\ quiet' = 0

RecordSuccess == failures' = 0 /\ UNCHANGED quiet

Init ==
    /\ pc = [r \in Requests |-> "idle"]
    /\ op = [r \in Requests |-> "get"]
    /\ key = [r \in Requests |-> None]
    /\ answer = [r \in Requests |-> NoAnswer]
    /\ scan = [r \in Requests |-> {}]
    /\ doomed = [r \in Requests |-> {}]
    /\ failures = 0
    /\ quiet = Timeout
    /\ cache = [k \in Keys |-> None]
    /\ version = 0
    /\ acked = 0
    /\ swept = [k \in Keys |-> 0]
    /\ seen = [r \in Requests |-> 0]

-----------------------------------------------------------------------------

Goto(r, l) == pc' = [pc EXCEPT ![r] = l]

\* The request is over, with a reply or without; the slot is free again.
Finish(r) ==
    /\ Goto(r, "idle")
    /\ op' = [op EXCEPT ![r] = "get"]
    /\ key' = [key EXCEPT ![r] = None]
    /\ answer' = [answer EXCEPT ![r] = NoAnswer]
    /\ seen' = [seen EXCEPT ![r] = 0]

Arrive(r) ==
    /\ pc[r] = "idle"
    /\ \E o \in Ops, k \in Keys :
          /\ op' = [op EXCEPT ![r] = o]
          /\ key' = [key EXCEPT ![r] = k]
    /\ Goto(r, "admit")
    /\ seen' = [seen EXCEPT ![r] = acked]
    /\ UNCHANGED <<answer, scan, doomed, breaker, cache, version, acked, swept>>

\* 503 while the breaker is open, before the cache is looked at.
Admit(r) ==
    /\ pc[r] = "admit"
    /\ \/ /\ IsOpen
          /\ Finish(r)
       \/ /\ ~IsOpen
          /\ Goto(r, IF IsGet(r) THEN "lookup" ELSE "send")
          /\ UNCHANGED <<op, key, answer, seen>>
    /\ UNCHANGED <<scan, doomed, breaker, cache, version, acked, swept>>

\* A hit is answered 200 with the entry, whatever part of the URL it holds.
Lookup(r) ==
    /\ pc[r] = "lookup"
    /\ \/ /\ cache[key[r]] # None
          /\ Finish(r)
       \/ /\ cache[key[r]] = None
          /\ Goto(r, "send")
          /\ UNCHANGED <<op, key, answer, seen>>
    /\ UNCHANGED <<scan, doomed, breaker, cache, version, acked, swept>>

\* The backend handles the request (external).
BackendAnswers(r) ==
    /\ pc[r] = "send"
    /\ Goto(r, "answered")
    /\ \/ /\ IsGet(r)
          /\ \E part \in {"file", IF op[r] = "get" THEN "whole" ELSE "range"} :
             answer' = [answer EXCEPT ![r] =
                [status |-> "success",
                 body |-> [version |-> version, part |-> part]]]
          /\ UNCHANGED version
       \/ /\ op[r] = "update" /\ version < MaxUpdates
          /\ version' = version + 1
          /\ answer' = [answer EXCEPT ![r] =
                [status |-> "success",
                 body |-> [version |-> version + 1, part |-> "whole"]]]
       \/ /\ "server" \in Faults \/ (op[r] = "update" /\ version = MaxUpdates)
          /\ answer' = [answer EXCEPT ![r] = NoAnswer]
          /\ UNCHANGED version
    /\ UNCHANGED <<op, key, scan, doomed, breaker, cache, history>>

\* Mutant: the client waits for an answer without a timeout.
NoTimeout(r) ==
    /\ pc[r] = "answered"
    /\ "connection" \in Faults
    /\ Goto(r, "failed")
    /\ UNCHANGED <<op, key, answer, seen, scan, doomed, breaker, cache, version,
                   acked, swept>>

\* The connection is refused, breaks or times out.  Only the TCP path goes on
\* to tell the breaker, and only the TCP client has a timeout.
SendFails(r) ==
    /\ pc[r] \in {"send", "answered"}
    /\ "connection" \in Faults
    /\ \/ /\ Transport = "tcp"
          /\ Goto(r, "failed")
          /\ UNCHANGED <<op, key, answer, seen>>
       \/ /\ Transport = "unix"
          /\ Finish(r)
    /\ UNCHANGED <<scan, doomed, breaker, cache, version, acked, swept>>

\* The breaker's lock is awaited: outcomes are recorded in any order.
RecordsFailure(r) ==
    /\ pc[r] = "failed"
    /\ RecordFailure
    /\ Finish(r)
    /\ UNCHANGED <<scan, doomed, cache, version, acked, swept>>

\* The response head arrives, whatever its status.
Receive(r) ==
    /\ pc[r] = "answered"
    /\ Goto(r, "received")
    /\ UNCHANGED <<op, key, answer, scan, doomed, breaker, cache, version,
                   history>>

RecordsSuccess(r) ==
    /\ pc[r] = "received"
    /\ RecordSuccess
    /\ Goto(r, "body")
    /\ UNCHANGED <<op, key, answer, scan, doomed, cache, version, history>>

ReadBody(r) ==
    /\ pc[r] = "body"
    /\ Goto(r, "pipeline")
    /\ UNCHANGED <<op, key, answer, scan, doomed, breaker, cache, version,
                   history>>

\* The body breaks off.  Over TCP unwrap_or_default carries on with an empty
\* one, and with the file if the headers name one; over the unix socket the
\* request fails.
BodyFails(r) ==
    /\ pc[r] = "body"
    /\ "body" \in Faults
    /\ \/ /\ Transport = "tcp"
          /\ Goto(r, "pipeline")
          /\ answer' = [answer EXCEPT ![r].body.part =
                            IF @ = "file" THEN "file" ELSE "empty"]
          /\ UNCHANGED <<op, key, seen>>
       \/ /\ Transport = "unix"
          /\ Finish(r)
    /\ UNCHANGED <<scan, doomed, breaker, cache, version, acked, swept>>

Succeeded(r) == answer[r].status = "success"

\* The headers name a file (X-Sendfile), or ask to look for one under the URL's
\* path because the body is empty.  It is read now: what an update put there in
\* the meantime, or nothing if an update or a cleanup has taken it away, and
\* the answer goes on with the empty body it came with.
LoadFile(r) ==
    /\ pc[r] = "pipeline"
    /\ IsGet(r) /\ answer[r].body.part = "file"
    /\ \/ answer' = [answer EXCEPT ![r].body =
                        [version |-> version, part |-> "whole"]]
       \/ /\ "file" \in Faults
          /\ answer' = [answer EXCEPT ![r].body.part = "empty"]
    /\ UNCHANGED <<pc, op, key, scan, doomed, breaker, cache, version, history>>

\* process_response_pipeline stores a successful GET, unless the body exceeds
\* the cache's limit or is replaced by what a send-data header asks for, then
\* the client is answered; a successful update goes on to sweep the entries.
Store(r) ==
    /\ pc[r] = "pipeline"
    /\ IsGet(r) /\ Succeeded(r) /\ answer[r].body.part # "file"
    /\ \/ cache' = [cache EXCEPT ![key[r]] =
                       [body |-> answer[r].body, after |-> swept[key[r]]]]
       \/ UNCHANGED cache
    /\ Finish(r)
    /\ UNCHANGED <<scan, doomed, breaker, version, acked, swept>>

\* Other statuses pass; a body that only workhorse may see becomes a 502.
PassError(r) ==
    /\ pc[r] = "pipeline"
    /\ ~Succeeded(r)
    /\ Finish(r)
    /\ UNCHANGED <<scan, doomed, breaker, cache, version, acked, swept>>

\* Mutant: only the updated URL is swept, not those that share its prefix.
SweepOwnKey(r) ==
    /\ pc[r] = "pipeline"
    /\ op[r] = "update" /\ Succeeded(r)
    /\ Goto(r, "sweep")
    /\ scan' = [scan EXCEPT ![r] = {key[r]}]
    /\ UNCHANGED <<op, key, answer, doomed, breaker, cache, version, history>>

BeginSweep(r) ==
    /\ pc[r] = "pipeline"
    /\ op[r] = "update" /\ Succeeded(r)
    /\ Goto(r, "sweep")
    /\ scan' = [scan EXCEPT ![r] = Keys]
    /\ UNCHANGED <<op, key, answer, doomed, breaker, cache, version, history>>

\* remove_by_prefix: the iterator visits the keys one by one, in any order,
\* while other requests use the cache; a key that is absent is not collected.
Sweeping(r, k, newest) ==
    swept' = [swept EXCEPT ![k] = AtLeast(@, newest)]

ScanKey(r, k) ==
    /\ pc[r] = "sweep"
    /\ k \in scan[r]
    /\ scan' = [scan EXCEPT ![r] = @ \ {k}]
    /\ \/ /\ cache[k] # None
          /\ doomed' = [doomed EXCEPT ![r] = @ \cup {k}]
          /\ UNCHANGED swept
       \/ /\ cache[k] = None
          /\ Sweeping(r, k, answer[r].body.version)
          /\ UNCHANGED doomed
    /\ UNCHANGED <<pc, op, key, answer, breaker, cache, version, acked,
                   seen>>

Invalidate(r, k) ==
    /\ pc[r] = "sweep"
    /\ scan[r] = {}
    /\ k \in doomed[r]
    /\ doomed' = [doomed EXCEPT ![r] = @ \ {k}]
    /\ cache' = [cache EXCEPT ![k] = None]
    /\ Sweeping(r, k, answer[r].body.version)
    /\ UNCHANGED <<pc, op, key, answer, scan, breaker, version, acked,
                   seen>>

\* The sweep is over and the update is answered.
Acknowledge(r) ==
    /\ pc[r] = "sweep"
    /\ scan[r] = {} /\ doomed[r] = {}
    /\ acked' = AtLeast(acked, answer[r].body.version)
    /\ Finish(r)
    /\ UNCHANGED <<scan, doomed, breaker, cache, version, swept>>

\* The client disconnects: the future is dropped where it stands.
Leave(r) ==
    /\ "client" \in Faults
    /\ pc[r] # "idle"
    /\ Finish(r)
    /\ scan' = [scan EXCEPT ![r] = {}]
    /\ doomed' = [doomed EXCEPT ![r] = {}]
    /\ UNCHANGED <<breaker, cache, version, acked, swept>>

\* Mutant: an entry only leaves to make room for another.
ExpireUnderPressure(k) ==
    /\ cache[k] # None
    /\ \E q \in Keys \ {k} : cache[q] # None
    /\ cache' = [cache EXCEPT ![k] = None]
    /\ UNCHANGED <<reqvars, breaker, version, history>>

\* An entry leaves the cache: its ten minutes are over, or it is evicted.
Expire(k) ==
    /\ cache[k] # None
    /\ cache' = [cache EXCEPT ![k] = None]
    /\ UNCHANGED <<reqvars, breaker, version, history>>

Tick ==
    /\ quiet < Timeout
    /\ quiet' = quiet + 1
    /\ UNCHANGED <<reqvars, failures, cache, version, history>>

Step(r) ==
    \/ Admit(r) \/ Lookup(r) \/ SendFails(r) \/ RecordsFailure(r)
    \/ Receive(r) \/ RecordsSuccess(r) \/ ReadBody(r) \/ BodyFails(r)
    \/ LoadFile(r) \/ Store(r) \/ PassError(r) \/ BeginSweep(r) \/ Acknowledge(r)
    \/ \E k \in Keys : ScanKey(r, k) \/ Invalidate(r, k)

Next ==
    \/ \E r \in Requests : Arrive(r) \/ Step(r) \/ BackendAnswers(r) \/ Leave(r)
    \/ \E k \in Keys : Expire(k)
    \/ Tick

Spec == Init /\ [][Next]_vars

(***************************************************************************)
(* The runtime polls every request, time passes, and moka drops an entry   *)
(* that has been there for its time to live.  Over TCP the client's        *)
(* request timeout makes a send that is not answered fail; over the unix   *)
(* socket nothing does.  The backend owes no answer.                       *)
(***************************************************************************)
Fairness ==
    /\ \A r \in Requests :
          /\ WF_vars(Admit(r)) /\ WF_vars(Lookup(r)) /\ WF_vars(Receive(r))
          /\ WF_vars(RecordsSuccess(r)) /\ WF_vars(RecordsFailure(r))
          /\ WF_vars(ReadBody(r)) /\ WF_vars(LoadFile(r)) /\ WF_vars(Store(r))
          /\ WF_vars(PassError(r)) /\ WF_vars(BeginSweep(r))
          /\ WF_vars(Acknowledge(r))
          /\ \A k \in Keys : WF_vars(ScanKey(r, k)) /\ WF_vars(Invalidate(r, k))
          /\ Transport = "tcp" => WF_vars(SendFails(r))
    /\ \A k \in Keys : WF_vars(Expire(k))
    /\ WF_vars(Tick)

FairSpec == Spec /\ Fairness

-----------------------------------------------------------------------------

TypeOK ==
    /\ pc \in [Requests -> {"idle", "admit", "lookup", "send", "answered",
                            "failed", "received", "body", "pipeline", "sweep"}]
    /\ op \in [Requests -> Operations]
    /\ key \in [Requests -> Keys \cup {None}]
    /\ answer \in [Requests -> Answer]
    /\ scan \in [Requests -> SUBSET Keys]
    /\ doomed \in [Requests -> SUBSET Keys]
    /\ failures \in 0..MaxFailures
    /\ quiet \in 0..Timeout
    /\ cache \in [Keys -> Entry \cup {None}]
    /\ version \in Version
    /\ acked \in Version
    /\ swept \in [Keys -> Version]
    /\ seen \in [Requests -> Version]

\* What a request in this state is about to be answered 200 with.
Replies(r) ==
    CASE pc[r] = "lookup" /\ cache[key[r]] # None -> {cache[key[r]].body}
      [] pc[r] = "pipeline" /\ Succeeded(r) /\ answer[r].body.part # "file" ->
            {answer[r].body}
      [] OTHER -> {}

\* An outdated entry can only come from a request that was already on its way
\* when the update was swept: it was stored after the sweep had passed its key.
\* Nothing that was in the cache when an update began survives the update's
\* acknowledgement, however sweeps, fills and cancellations interleave.
StaleOnlyFromStraddler ==
    \A k \in Keys :
        cache[k] # None /\ cache[k].body.version < acked =>
            cache[k].after > cache[k].body.version

\* The promise of the avatar cache: once a profile update was answered with
\* success, a picture asked for after that is not an older one.
AckedUpdateVisible ==
    \A r \in Requests : \A b \in Replies(r) : b.version >= seen[r]

\* Why it holds, inductively: an entry older than the last finished sweep of its
\* key came in after that sweep; a sweep is done with every key it will neither
\* scan nor invalidate any more; only finished sweeps are acknowledged.
Sweeps ==
    /\ \A k \in Keys :
          /\ cache[k] # None /\ cache[k].body.version < swept[k] =>
                cache[k].after > cache[k].body.version
          /\ acked <= swept[k]
    /\ \A r \in Requests : pc[r] = "sweep" =>
          \A k \in Keys \ (scan[r] \cup doomed[r]) :
              answer[r].body.version <= swept[k]

\* A backend that stays silent is found out: over TCP, if from some time on no
\* answer arrives while sends go on failing, the breaker opens again and again,
\* although the outcomes of overlapping requests are recorded late, in any order
\* and with pauses in between.
BreakerOpens ==
    /\ <>[](\A r \in Requests : pc[r] # "received")
    /\ []<>(\E r \in Requests : pc[r] = "failed")
    => []<>IsOpen

\* The breaker never locks the backend out for good: requests admitted before
\* it opened may still fail and prolong it, but while it is open no others
\* are sent, so the pause passes and requests are let through again.
BreakerReopens == IsOpen ~> ~IsOpen

\* Over TCP every request ends: a silent backend runs into the client's timeout.
\* Over the unix socket this does not hold, since nothing bounds the wait.
Answered == \A r \in Requests : pc[r] # "idle" ~> pc[r] = "idle"

\* A body is lost on the way: in transit, or with the file it should come from.
Loses(r) == BodyFails(r) \/ (LoadFile(r) /\ answer'[r].body.part = "empty")

\* Once updates stop, and bodies stop getting lost, the cache settles on the
\* current picture, and on the whole of it: outdated and empty entries expire
\* and no request that could store another is left.
Current(k) == cache[k] # None =>
    cache[k].body = [version |-> version, part |-> "whole"]
Converges ==
    <>[][\A r \in Requests : ~Loses(r)]_vars => <>[](\A k \in Keys : Current(k))
=============================================================================
