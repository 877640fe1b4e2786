------------------------------- MODULE Server -------------------------------
(***************************************************************************)
(* The process around the components: the listeners of main.rs, the layers *)
(* every request passes before its handler, and how the process ends.      *)
(*                                                                         *)
(* Outermost first a request meets the rate limiter, the load shedder, the *)
(* body limit and method filter, and the handler.  The limiter is          *)
(* RateLimit itself: a step of a request that concerns it is a step of     *)
(* RateLimit conjoined with the request's own progress, every other step   *)
(* leaves it alone.                                                        *)
(***************************************************************************)
EXTENDS RateLimit

CONSTANTS
    Requests,   \* connections, each with one request at a time
    Modes,      \* how the process may be configured to listen
    MaxActive,  \* LoadShedder.max_connections
    Threads     \* worker threads of the runtime

ASSUME ServerConstantsOK ==
    /\ Modes \subseteq {"tcp", "tls", "unix"}
    /\ MaxActive \in Nat
    /\ Threads \in Nat \ {0}
    /\ IsFiniteSet(Requests)

VARIABLES
    mode,     \* how this process listens
    phase,    \* "serving", "draining" or "exited"
    pc,       \* where each request is, or how it was answered
    via,      \* the listener its connection came in by
    from,     \* the address of its client
    kind,     \* what the inner layers and the router make of it
    active,   \* LoadShedder.active_requests
    leaked,   \* history: requests dropped while they were counted
    probe,    \* the start-up task: "asleep", "asking" or "done"
    ready     \* HealthState.is_ready

limiter == <<now, log, entry, started, todo>>
content == <<via, from, kind>>
process == <<mode, phase, probe, ready>>
serverVars == <<limiter, content, process, pc, active, leaked>>

\* The listeners a configuration opens: TLS and a unix socket exclude all
\* others, plain TCP comes with Gitaly's callback socket.
Listeners == [tcp |-> {"tcp", "callback"}, tls |-> {"tls"}, unix |-> {"unix"}]

\* Only axum::serve's make-service records the peer's address in the request.
HasPeer(r) == via[r] = "tcp"

\* Refused by body_limit_middleware or reject_methods_middleware, or routed to
\* a handler: one of health's or another.
Kinds == {"refused", "routed"}

Waiting == {"limiter", "shedder", "counting", "inner", "handling"}
Counted == {"inner", "handling"}
Answers == {"200", "429", "500", "shed", "unready", "4xx"}
Over == Answers \cup {"idle", "gone", "cut"}

CountedRequests == {r \in Requests : pc[r] \in Counted}
\* Requests between should_shed and increment_active.
Between == {r \in Requests : pc[r] = "counting"}

ServerInit ==
    /\ Init
    /\ mode \in Modes
    /\ phase = "serving"
    /\ pc = [r \in Requests |-> "idle"]
    /\ via \in [Requests -> Listeners[mode]]
    /\ from \in [Requests -> Clients]
    /\ kind \in [Requests -> Kinds]
    /\ active = 0
    /\ leaked = 0
    /\ probe = "asleep"
    /\ ready = FALSE

Goto(r, place) == pc' = [pc EXCEPT ![r] = place]

\* The listener accepts; a draining server only on the callback socket, whose
\* task nobody tells of the shutdown.
Accept(r) ==
    /\ pc[r] \in Over
    /\ phase = "serving" \/ (phase = "draining" /\ via[r] = "callback")
    /\ Goto(r, "limiter")
    /\ UNCHANGED <<limiter, content, process, active, leaked>>

\* ConnectInfo is extracted whether or not it is needed, and rejects with 500.
NoPeer(r) ==
    /\ pc[r] = "limiter"
    /\ ~HasPeer(r)
    /\ Goto(r, "500")
    /\ UNCHANGED <<limiter, content, process, active, leaked>>

Pass(r) ==
    /\ pc[r] = "limiter"
    /\ HasPeer(r)
    /\ \/ Admit(from[r]) /\ Goto(r, "shedder")
       \/ Refuse(from[r]) /\ Goto(r, "429")
    /\ UNCHANGED <<content, process, active, leaked>>

\* Mutant: one request too many.
ShedLate(r) ==
    /\ pc[r] = "shedder"
    /\ Cardinality(Between) < Threads
    /\ \/ active > MaxActive /\ Goto(r, "shed")
       \/ active <= MaxActive /\ Goto(r, "counting")
    /\ UNCHANGED <<limiter, content, process, active, leaked>>

\* Mutant: a request the shedder has no room for waits until there is.
WaitForRoom(r) ==
    /\ pc[r] = "shedder"
    /\ Cardinality(Between) < Threads
    /\ active < MaxActive /\ Goto(r, "counting")
    /\ UNCHANGED <<limiter, content, process, active, leaked>>

\* should_shed, on a thread of its own until increment_active.
ShouldShed(r) ==
    /\ pc[r] = "shedder"
    /\ Cardinality(Between) < Threads
    /\ \/ active >= MaxActive /\ Goto(r, "shed")
       \/ active < MaxActive /\ Goto(r, "counting")
    /\ UNCHANGED <<limiter, content, process, active, leaked>>

Increment(r) ==
    /\ pc[r] = "counting"
    /\ Goto(r, "inner")
    /\ active' = active + 1
    /\ UNCHANGED <<limiter, content, process, leaked>>

\* Mutant: an early answer of an inner layer leaves the counter alone.
InnerWithoutDecrement(r) ==
    /\ pc[r] = "inner"
    /\ \/ kind[r] = "refused" /\ Goto(r, "4xx") /\ UNCHANGED active
       \/ kind[r] # "refused" /\ Goto(r, "handling") /\ UNCHANGED active
    /\ UNCHANGED <<limiter, content, process, leaked>>

\* The body limit and the method filter answer at once or let it through.
Inner(r) ==
    /\ pc[r] = "inner"
    /\ \/ kind[r] = "refused" /\ Goto(r, "4xx") /\ active' = active - 1
       \/ kind[r] # "refused" /\ Goto(r, "handling") /\ UNCHANGED active
    /\ UNCHANGED <<limiter, content, process, leaked>>

\* The handler returns its response head, the readiness endpoint
\* according to the flag, and decrement_active runs.
Handle(r) ==
    /\ pc[r] = "handling"
    /\ Goto(r, "200") \/ (~ready /\ Goto(r, "unready"))
    /\ active' = active - 1
    /\ UNCHANGED <<limiter, content, process, leaked>>

\* The client disconnects and hyper drops the future where it awaits: the lock
\* of the limiter's shard or the handler.  What follows next.run is not run.
Drop(r) ==
    /\ pc[r] \in {"limiter", "handling"}
    /\ Goto(r, "gone")
    /\ leaked' = IF pc[r] = "handling" THEN leaked + 1 ELSE leaked
    /\ UNCHANGED <<limiter, content, process, active>>

\* Two seconds after the start the backend is asked whether it is healthy,
\* without a timeout; any answer and any error makes the process ready.
AskBackend ==
    /\ phase # "exited"
    /\ probe = "asleep"
    /\ probe' = "asking"
    /\ UNCHANGED <<limiter, content, mode, phase, ready, pc, active, leaked>>

SetReady ==
    /\ phase # "exited"
    /\ probe = "asking"
    /\ probe' = "done"
    /\ ready' = TRUE
    /\ UNCHANGED <<limiter, content, mode, phase, pc, active, leaked>>

\* The rate limiter's own task, and the clock.
Background ==
    /\ phase # "exited"
    /\ BeginCleanup \/ (\E s \in Shards : CleanShard(s)) \/ Tick
    /\ UNCHANGED <<content, process, pc, active, leaked>>

\* The process ends: whatever it still works on is cut off.
Exit ==
    /\ phase' = "exited"
    /\ pc' = [r \in Requests |-> IF pc[r] \in Waiting THEN "cut" ELSE pc[r]]
    /\ UNCHANGED <<limiter, content, mode, probe, ready, active, leaked>>

\* SIGTERM: axum::serve begins to drain, the TLS loop breaks and main returns,
\* and the unix socket server has no handler for the signal at all.
Terminate ==
    /\ phase = "serving"
    /\ \/ /\ mode = "tcp"
          /\ phase' = "draining"
          /\ UNCHANGED <<limiter, content, mode, probe, ready, pc, active, leaked>>
       \/ mode # "tcp" /\ Exit


\* The drain is over with the last request of the TCP listener; it waits as long
\* as that takes: the argument shutdown_timeout is parsed and never read.
Drained ==
    /\ phase = "draining"
    /\ \A r \in Requests : via[r] = "tcp" => pc[r] \notin Waiting
    /\ Exit

ServerNext ==
    \/ \E r \in Requests :
          Accept(r) \/ NoPeer(r) \/ Pass(r) \/ ShouldShed(r) \/ Increment(r)
          \/ Inner(r) \/ Handle(r) \/ Drop(r)
    \/ AskBackend \/ SetReady \/ Background \/ Terminate \/ Drained

ServerSpec == ServerInit /\ [][ServerNext]_serverVars

(***************************************************************************)
(* The runtime polls every task that can go on.  Nothing makes a handler   *)
(* end, whose backend may never answer, nor a client come or leave, the    *)
(* signal arrive, or the start-up probe be answered.                       *)
(***************************************************************************)
ServerFairness ==
    /\ \A r \in Requests :
          WF_serverVars(NoPeer(r)) /\ WF_serverVars(Pass(r))
          /\ WF_serverVars(ShouldShed(r)) /\ WF_serverVars(Increment(r))
          /\ WF_serverVars(Inner(r))
    /\ WF_serverVars(AskBackend) /\ WF_serverVars(Drained)

ServerFairSpec == ServerSpec /\ ServerFairness

-----------------------------------------------------------------------------

ServerTypeOK ==
    /\ mode \in Modes
    /\ phase \in {"serving", "draining", "exited"}
    /\ pc \in [Requests -> Waiting \cup Over]
    /\ via \in [Requests -> Listeners[mode]]
    /\ from \in [Requests -> Clients]
    /\ kind \in [Requests -> Kinds]
    /\ active \in Nat
    /\ leaked \in Nat
    /\ probe \in {"asleep", "asking", "done"}
    /\ ready \in BOOLEAN

\* The counter that decides who is shed is the number of requests being worked
\* on plus every one whose client left meanwhile: those are never given back.
Accounted ==
    phase # "exited" => active = Cardinality(CountedRequests) + leaked

\* Check and increment are two steps, so the limit may be overshot, but by no
\* more than the threads that can be between the two at once.
OvershootBounded ==
    active + Cardinality(Between) <= MaxActive + Threads - 1

\* The listener and the counter cannot be fooled into shedding: a request is
\* turned away only while as many others are being worked on, or leaked.
ShedOnlyWhenFull ==
    [][\A r \in Requests : pc[r] # "shed" /\ pc'[r] = "shed" =>
          Cardinality(CountedRequests) + leaked >= MaxActive]_serverVars

\* Inside the server the rate limiter behaves as it does by itself, so what is
\* proved of RateLimit holds of the server.
LimitsRate == Spec

\* Requests on their way through the layers to the handler.
OnTheWay == Waiting \ {"handling"}

\* No handler that hangs, no counter that leaked and no probe without an answer
\* holds up another request: every request gets to its handler, or to an answer
\* or its end before it.
NobodyHeldUp == \A r \in Requests : pc[r] \in OnTheWay ~> pc[r] \notin OnTheWay


\* Nothing is under way in a process that is no more: the inductive part.
NothingAfterExit ==
    phase = "exited" => \A r \in Requests : pc[r] \notin Waiting
=============================================================================
