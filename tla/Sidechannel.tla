---------------------------- MODULE Sidechannel ----------------------------
(***************************************************************************)
(* One `git fetch` served from Gitaly: the request handler                 *)
(* (GitalyClient::post_upload_pack_with_sidechannel), the yamux connection *)
(* driver and the inbound-stream tasks it spawns (YamuxSession::connect),  *)
(* the spawned gRPC call, and the spawned task that pumps the pack to the  *)
(* HTTP response.  All five run concurrently and meet only in one-shot     *)
(* channels, a bounded mpsc channel and the yamux session.                 *)
(*                                                                         *)
(* Gitaly, the connection and the HTTP client are the environment.  Bytes  *)
(* are abstracted to numbered chunks of the pack; what is kept is which    *)
(* task owns which end of which channel, because everything here ends by   *)
(* an owner going away.                                                    *)
(***************************************************************************)
EXTENDS Naturals, Sequences

CONSTANTS
    Streams,   \* yamux streams Gitaly may open towards this session
    PackLen,   \* chunks in the pack Gitaly wants to send
    Window,    \* chunks a yamux stream buffers before its sender must wait
    ChanCap,   \* capacity of the mpsc channel that feeds the response body
    Faults     \* what may go wrong: a subset of FaultKinds

FaultKinds == {"rpc", "link", "client", "handshake"}

ASSUME ConstantsOK ==
    /\ PackLen \in Nat
    /\ Window \in Nat \ {0}
    /\ ChanCap \in Nat \ {0}
    /\ Faults \subseteq FaultKinds
    /\ "none" \notin Streams

VARIABLES
    hpc,      \* where the handler is
    driver,   \* the spawned yamux driver task: "off", "running", "stopped"
    opener,   \* the connector's request for an outbound stream
    waiter,   \* session.sidechannel_waiter holds the sender of the one-shot
    given,    \* the stream sent through that one-shot, or "none"
    inbound,  \* the task the driver spawned for each inbound stream
    grpc,     \* the spawned gRPC call: "idle", "running", "ok", "failed"
    request,  \* what the handler wrote to the side channel
    gitaly,   \* Gitaly's side of the call
    sent,     \* chunks Gitaly wrote so far
    scEnd,    \* Gitaly closed its end of the side channel
    window,   \* chunks buffered by the yamux stream
    pump,     \* the spawned pump task
    hand,     \* what the pump read and not yet sent: a chunk or ReadError
    chan,     \* the mpsc channel feeding the response body
    client,   \* the HTTP client
    got,      \* the chunks the client read from the response body
    lost      \* the connection to Gitaly broke

hvars == <<hpc, opener, waiter, given>>
gvars == <<gitaly, sent, scEnd>>
cvars == <<client, got>>
pvars == <<pump, hand>>
vars == <<hpc, driver, opener, waiter, given, inbound, grpc, request, gitaly,
          sent, scEnd, window, pump, hand, chan, client, got, lost>>

\* The item pump and body use for an io::Error.
ReadError == 0
Chunk == 1..PackLen
Frame == "frame"    \* pkt-line frame that carries the request body
Flush == "flush"    \* "0000"
WholeRequest == <<Frame, Flush>>

HandlerBusy == {"connect", "register", "dial", "await", "write", "close"}
PumpLive == {"reading", "sending", "joining"}

\* Mutant: the pump does not take the session along.
SessionLeftBehind == hpc \in {"register", "dial", "await", "write", "close"}
\* `session` is a local of the handler until the pump's `_session` takes it.
SessionHeld ==
    hpc \in {"register", "dial", "await", "write", "close"} \/ pump \in PumpLive
\* The connector's clone of stream_req_tx lives in the tonic channel, which is
\* moved into the spawned gRPC call.
ChannelHeld == hpc = "dial" \/ grpc = "running"

Linked == driver = "running" /\ ~lost

Init ==
    /\ hpc = "connect"
    /\ driver = "off"
    /\ opener = "none"
    /\ waiter = FALSE
    /\ given = "none"
    /\ inbound = [s \in Streams |-> "none"]
    /\ grpc = "idle"
    /\ request = <<>>
    /\ gitaly = "idle"
    /\ sent = 0
    /\ scEnd = FALSE
    /\ window = <<>>
    /\ pump = "none"
    /\ hand = ReadError
    /\ chan = <<>>
    /\ client = "waiting"
    /\ got = <<>>
    /\ lost = FALSE

-----------------------------------------------------------------------------
(* The handler. *)

\* The handler returns Err: every local is dropped, the client reads a 502.
Refuse ==
    /\ hpc' = "failed"
    /\ client' = "refused"
    /\ UNCHANGED got

\* YamuxSession::connect: dial, send the magic, spawn the driver.
Connect ==
    /\ hpc = "connect"
    /\ \/ /\ hpc' = "register"
          /\ driver' = "running"
          /\ UNCHANGED cvars
       \/ /\ "link" \in Faults
          /\ Refuse
          /\ UNCHANGED driver
    /\ UNCHANGED <<opener, waiter, given, inbound, grpc, request, gvars,
                   window, pvars, chan, lost>>

\* register_sidechannel stores the one-shot sender, then the connector asks
\* the driver for a stream; the ask fails when the driver is gone.
Register ==
    /\ hpc = "register"
    /\ waiter' = TRUE
    /\ \/ /\ driver = "running"
          /\ hpc' = "dial"
          /\ opener' = "queued"
          /\ UNCHANGED cvars
       \/ /\ driver = "stopped"
          /\ Refuse
          /\ UNCHANGED opener
    /\ UNCHANGED <<driver, given, inbound, grpc, request, gvars, window,
                   pvars, chan, lost>>

\* create_grpc_channel returns and the gRPC call is spawned.
Dialed ==
    /\ hpc = "dial"
    /\ opener = "given"
    /\ hpc' = "await"
    /\ grpc' = "running"
    /\ UNCHANGED <<driver, opener, waiter, given, inbound, request, gvars,
                   window, pvars, chan, cvars, lost>>

DialFails ==
    /\ hpc = "dial"
    /\ opener = "dropped" \/ (opener = "given" /\ ~Linked)
    /\ Refuse
    /\ UNCHANGED <<driver, opener, waiter, given, inbound, grpc, request,
                   gvars, window, pvars, chan, lost>>

\* rx.await: there is no timeout, and `session` keeps the sender alive.
Receive ==
    /\ hpc = "await"
    /\ given # "none"
    /\ hpc' = "write"
    /\ UNCHANGED <<driver, opener, waiter, given, inbound, grpc, request,
                   gvars, window, pvars, chan, cvars, lost>>

\* write_pktline_framed and flush.
WriteBody ==
    /\ hpc = "write"
    /\ Linked
    /\ request' = Append(request, Frame)
    /\ hpc' = "close"
    /\ UNCHANGED <<driver, opener, waiter, given, inbound, grpc, gvars,
                   window, pvars, chan, cvars, lost>>

\* Mutant: the flush packet is forgotten.
CloseWithoutFlush ==
    /\ hpc = "close"
    /\ Linked
    /\ hpc' = "replied"
    /\ pump' = "reading"
    /\ client' = "reading"
    /\ UNCHANGED <<driver, opener, waiter, given, inbound, grpc, request,
                   gvars, window, hand, chan, got, lost>>

\* close_write, then the pump is spawned and the response is returned.
CloseWrite ==
    /\ hpc = "close"
    /\ Linked
    /\ request' = Append(request, Flush)
    /\ hpc' = "replied"
    /\ pump' = "reading"
    /\ client' = "reading"
    /\ UNCHANGED <<driver, opener, waiter, given, inbound, grpc, gvars,
                   window, hand, chan, got, lost>>

\* A write to a side channel that is gone.
WriteFails ==
    /\ hpc \in {"write", "close"}
    /\ ~Linked \/ gitaly = "failed"
    /\ Refuse
    /\ UNCHANGED <<driver, opener, waiter, given, inbound, grpc, request,
                   gvars, window, pvars, chan, lost>>

-----------------------------------------------------------------------------
(* The driver task and the tasks it spawns for inbound streams. *)

TakeRequest ==
    /\ driver = "running"
    /\ opener = "queued"
    /\ opener' = "pending"
    /\ UNCHANGED <<hpc, driver, waiter, given, inbound, grpc, request, gvars,
                   window, pvars, chan, cvars, lost>>

\* The stream is opened, or opening fails and the one-shot is dropped.
OpenOutbound ==
    /\ driver = "running"
    /\ opener = "pending"
    /\ opener' = IF lost THEN "dropped" ELSE "given"
    /\ UNCHANGED <<hpc, driver, waiter, given, inbound, grpc, request, gvars,
                   window, pvars, chan, cvars, lost>>

\* Mutant: the loop stops accepting once the outbound stream is open.
AcceptBeforeOpen(s) ==
    /\ Linked
    /\ inbound[s] = "arrived"
    /\ opener # "given"
    /\ inbound' = [inbound EXCEPT ![s] = "handshake"]
    /\ UNCHANGED <<hvars, driver, grpc, request, gvars, window, pvars, chan,
                   cvars, lost>>

AcceptInbound(s) ==
    /\ Linked
    /\ inbound[s] = "arrived"
    /\ inbound' = [inbound EXCEPT ![s] = "handshake"]
    /\ UNCHANGED <<hvars, driver, grpc, request, gvars, window, pvars, chan,
                   cvars, lost>>

\* The loop ends when the connection does or when every stream_req_tx is gone;
\* a request still queued or pending loses its one-shot sender.
StopDriver ==
    /\ driver = "running"
    /\ lost \/ (~SessionHeld /\ ~ChannelHeld)
    /\ driver' = "stopped"
    /\ opener' = IF opener \in {"queued", "pending"} THEN "dropped" ELSE opener
    /\ UNCHANGED <<hpc, waiter, given, inbound, grpc, request, gvars, window,
                   pvars, chan, cvars, lost>>

\* Magic and id are read and "ok" is written, or the task gives up.
Handshake(s) ==
    /\ inbound[s] = "handshake"
    /\ \/ /\ Linked
          /\ inbound' = [inbound EXCEPT ![s] = "offering"]
       \/ /\ ~Linked \/ gitaly = "failed" \/ "handshake" \in Faults
          /\ inbound' = [inbound EXCEPT ![s] = "dropped"]
    /\ UNCHANGED <<hvars, driver, grpc, request, gvars, window, pvars, chan,
                   cvars, lost>>

\* Mutant: the waiter is not taken, so it can be served again.
OfferAgain(s) ==
    /\ inbound[s] = "offering"
    /\ hpc = "await" /\ waiter = TRUE
    /\ given' = s
    /\ inbound' = [inbound EXCEPT ![s] = "held"]
    /\ UNCHANGED <<hpc, opener, waiter, driver, grpc, request, gvars, window,
                   pvars, chan, cvars, lost>>

\* The task takes the waiter and sends the stream; without a waiter, or when
\* the handler no longer awaits it, the stream is dropped.
Offer(s) ==
    /\ inbound[s] = "offering"
    /\ waiter' = FALSE
    /\ \/ /\ waiter = TRUE /\ hpc = "await"
          /\ given' = s
          /\ inbound' = [inbound EXCEPT ![s] = "held"]
       \/ /\ waiter = FALSE \/ hpc # "await"
          /\ inbound' = [inbound EXCEPT ![s] = "dropped"]
          /\ given' = given
    /\ UNCHANGED <<hpc, opener, driver, grpc, request, gvars, window, pvars,
                   chan, cvars, lost>>

-----------------------------------------------------------------------------
(* Gitaly (external).  It opens a side channel while it handles the call,   *)
(* reads the request up to the flush packet, writes the pack, closes its    *)
(* end and completes the call.  The session copes with more streams than    *)
(* the one Gitaly needs, so the environment may open every stream.          *)

\* The task that owns the side channel stream is still there.
StreamOwned ==
    given # "none" /\ (hpc \in {"await", "write", "close"} \/ pump \in PumpLive)

ReceiveCall ==
    /\ gitaly = "idle"
    /\ grpc = "running"
    /\ Linked
    /\ gitaly' = "called"
    /\ UNCHANGED <<hvars, driver, inbound, grpc, request, sent, scEnd, window,
                   pvars, chan, cvars, lost>>

OpenStream(s) ==
    /\ gitaly \in {"called", "serving"}
    /\ request = <<>>
    /\ inbound[s] = "none"
    /\ Linked
    /\ gitaly' = "serving"
    /\ inbound' = [inbound EXCEPT ![s] = "arrived"]
    /\ UNCHANGED <<hvars, driver, grpc, request, sent, scEnd, window, pvars,
                   chan, cvars, lost>>

WriteChunk ==
    /\ gitaly = "serving"
    /\ request = WholeRequest
    /\ StreamOwned /\ Linked
    /\ sent < PackLen
    /\ Len(window) < Window
    /\ sent' = sent + 1
    /\ window' = Append(window, sent + 1)
    /\ UNCHANGED <<hvars, driver, inbound, grpc, request, gitaly, scEnd, pvars,
                   chan, cvars, lost>>

FinishPack ==
    /\ gitaly = "serving"
    /\ request = WholeRequest
    /\ StreamOwned /\ Linked
    /\ sent = PackLen
    /\ gitaly' = "finished"
    /\ scEnd' = TRUE
    /\ UNCHANGED <<hvars, driver, inbound, grpc, request, sent, window, pvars,
                   chan, cvars, lost>>

\* Gitaly gives up on its own (a hook, a corrupt repository, a limit) ...
GitalyFails ==
    /\ "rpc" \in Faults
    /\ gitaly \in {"called", "serving"}
    /\ gitaly' = "failed"
    /\ scEnd' = TRUE
    /\ UNCHANGED <<hvars, driver, inbound, grpc, request, sent, window, pvars,
                   chan, cvars, lost>>

\* ... or because the stream it works on, or the session, has gone away.
GitalyBroken ==
    /\ \/ gitaly = "called" /\ ~Linked
       \/ /\ gitaly = "serving"
          /\ \/ ~Linked
             \/ given # "none" /\ ~StreamOwned
             \/ given = "none" /\ \A s \in Streams : inbound[s] \in {"none", "dropped"}
    /\ gitaly' = "failed"
    /\ scEnd' = TRUE
    /\ UNCHANGED <<hvars, driver, inbound, grpc, request, sent, window, pvars,
                   chan, cvars, lost>>

-----------------------------------------------------------------------------
(* The spawned gRPC call and the pump. *)

\* The call's result waits in its JoinHandle; only the pump ever looks at it.
EndCall ==
    /\ grpc = "running"
    /\ \/ gitaly = "finished" /\ Linked /\ grpc' = "ok"
       \/ (gitaly = "failed" \/ ~Linked) /\ grpc' = "failed"
    /\ UNCHANGED <<hvars, driver, inbound, request, gvars, window, pvars, chan,
                   cvars, lost>>

ReadChunk ==
    /\ pump = "reading"
    /\ window # <<>>
    /\ hand' = Head(window)
    /\ window' = Tail(window)
    /\ pump' = "sending"
    /\ UNCHANGED <<hvars, driver, inbound, grpc, request, gvars, chan, cvars,
                   lost>>

\* Mutant: the far end's close overtakes what is still buffered.
EofOvertakes ==
    /\ pump = "reading"
    /\ scEnd \/ ~Linked
    /\ pump' = "joining"
    /\ UNCHANGED <<hvars, driver, inbound, grpc, request, gvars, window, hand,
                   chan, cvars, lost>>

\* read returns Ok(0): the far end closed, or the session did.
ReadEof ==
    /\ pump = "reading"
    /\ window = <<>>
    /\ scEnd \/ ~Linked
    /\ pump' = "joining"
    /\ UNCHANGED <<hvars, driver, inbound, grpc, request, gvars, window, hand,
                   chan, cvars, lost>>

ReadFails ==
    /\ pump = "reading"
    /\ window = <<>>
    /\ ~Linked
    /\ hand' = ReadError
    /\ pump' = "sending"
    /\ UNCHANGED <<hvars, driver, inbound, grpc, request, gvars, window, chan,
                   cvars, lost>>

\* tx.send waits for room in the channel; an error item is the last one.
Send ==
    /\ pump = "sending"
    /\ client = "reading"
    /\ Len(chan) < ChanCap
    /\ chan' = Append(chan, hand)
    /\ hand' = ReadError
    /\ pump' = IF hand = ReadError THEN "joining" ELSE "reading"
    /\ UNCHANGED <<hvars, driver, inbound, grpc, request, gvars, window, cvars,
                   lost>>

\* The response body was dropped.  The side channel is not: it lives as long
\* as the task, which goes on to wait for the call.
SendFails ==
    /\ pump = "sending"
    /\ client # "reading"
    /\ hand' = ReadError
    /\ pump' = "joining"
    /\ UNCHANGED <<hvars, driver, inbound, grpc, request, gvars, window, chan,
                   cvars, lost>>

\* Mutant: only a call that succeeded lets the task end.
JoinSuccess ==
    /\ pump = "joining"
    /\ grpc = "ok"
    /\ pump' = "done"
    /\ UNCHANGED <<hvars, driver, inbound, grpc, request, gvars, window, hand,
                   chan, cvars, lost>>

\* grpc_handle.await; then the task ends and drops tx, session and stream.
Join ==
    /\ pump = "joining"
    /\ grpc \in {"ok", "failed"}
    /\ pump' = "done"
    /\ UNCHANGED <<hvars, driver, inbound, grpc, request, gvars, window, hand,
                   chan, cvars, lost>>

-----------------------------------------------------------------------------
(* The HTTP client and the connection (external). *)

ReadBody ==
    /\ client = "reading"
    /\ chan # <<>>
    /\ \/ /\ Head(chan) = ReadError
          /\ client' = "aborted"
          /\ chan' = <<>>
          /\ got' = got
       \/ /\ Head(chan) # ReadError
          /\ got' = Append(got, Head(chan))
          /\ chan' = Tail(chan)
          /\ client' = client
    /\ UNCHANGED <<hvars, driver, inbound, grpc, request, gvars, window, pvars,
                   lost>>

\* The sender is gone and the channel is drained: the body ends normally.
EndBody ==
    /\ client = "reading"
    /\ chan = <<>>
    /\ pump = "done"
    /\ client' = "ended"
    /\ UNCHANGED <<hvars, driver, inbound, grpc, request, gvars, window, pvars,
                   chan, got, lost>>

\* The client disconnects: the handler's future, or the response body, is
\* dropped wherever it stands.
Leave ==
    /\ "client" \in Faults
    /\ client \in {"waiting", "reading"}
    /\ client' = "gone"
    /\ chan' = <<>>
    /\ hpc' = IF hpc \in HandlerBusy THEN "cancelled" ELSE hpc
    /\ UNCHANGED <<opener, waiter, given, driver, inbound, grpc, request,
                   gvars, window, pvars, got, lost>>

LoseLink ==
    /\ "link" \in Faults
    /\ driver = "running"
    /\ ~lost
    /\ lost' = TRUE
    /\ UNCHANGED <<hvars, driver, inbound, grpc, request, gvars, window, pvars,
                   chan, cvars>>

\* Everything the request started has ended.
Settled == client \in {"refused", "ended", "aborted", "gone"}
Released ==
    /\ driver \in {"off", "stopped"}
    /\ pump \in {"none", "done"}
    /\ grpc # "running"
Finished == Settled /\ Released /\ UNCHANGED vars

Next ==
    \/ Connect \/ Register \/ Dialed \/ DialFails \/ Receive
    \/ WriteBody \/ CloseWrite \/ WriteFails
    \/ TakeRequest \/ OpenOutbound \/ StopDriver
    \/ \E s \in Streams : AcceptInbound(s) \/ Handshake(s) \/ Offer(s)
    \/ ReceiveCall \/ WriteChunk \/ FinishPack \/ GitalyFails \/ GitalyBroken
    \/ \E s \in Streams : OpenStream(s)
    \/ EndCall \/ ReadChunk \/ ReadEof \/ ReadFails \/ Send \/ SendFails \/ Join
    \/ ReadBody \/ EndBody \/ Leave \/ LoseLink
    \/ Finished

Spec == Init /\ [][Next]_vars

(***************************************************************************)
(* Every task is scheduled by tokio, Gitaly works on a call it accepted,   *)
(* and a client that stays reads what it is sent.  Nothing makes a fault   *)
(* or a disconnect happen.                                                 *)
(***************************************************************************)
Fairness ==
    /\ WF_vars(Connect) /\ WF_vars(Register) /\ WF_vars(Dialed)
    /\ WF_vars(DialFails) /\ WF_vars(Receive)
    /\ WF_vars(WriteBody) /\ WF_vars(CloseWrite) /\ WF_vars(WriteFails)
    /\ WF_vars(TakeRequest) /\ WF_vars(OpenOutbound) /\ WF_vars(StopDriver)
    /\ \A s \in Streams :
         WF_vars(AcceptInbound(s)) /\ WF_vars(Handshake(s)) /\ WF_vars(Offer(s))
    /\ WF_vars(ReceiveCall) /\ WF_vars(WriteChunk) /\ WF_vars(FinishPack)
    /\ WF_vars(GitalyBroken) /\ WF_vars(\E s \in Streams : OpenStream(s))
    /\ WF_vars(EndCall) /\ WF_vars(ReadChunk) /\ WF_vars(ReadEof)
    /\ WF_vars(Send) /\ WF_vars(SendFails) /\ WF_vars(Join)
    /\ WF_vars(ReadBody) /\ WF_vars(EndBody)

FairSpec == Spec /\ Fairness

-----------------------------------------------------------------------------

\* The values each variable ranges over.
TypeOK ==
    /\ hpc \in HandlerBusy \cup {"replied", "failed", "cancelled"}
    /\ driver \in {"off", "running", "stopped"}
    /\ opener \in {"none", "queued", "pending", "given", "dropped"}
    /\ waiter \in BOOLEAN
    /\ given \in Streams \cup {"none"}
    /\ inbound \in [Streams -> {"none", "arrived", "handshake", "offering",
                                "held", "dropped"}]
    /\ grpc \in {"idle", "running", "ok", "failed"}
    /\ request \in Seq({Frame, Flush})
    /\ gitaly \in {"idle", "called", "serving", "finished", "failed"}
    /\ sent \in 0..PackLen
    /\ scEnd \in BOOLEAN
    /\ window \in Seq(Chunk)
    /\ pump \in {"none", "reading", "sending", "joining", "done"}
    /\ hand \in Chunk \cup {ReadError}
    /\ chan \in Seq(Chunk \cup {ReadError})
    /\ client \in {"waiting", "reading", "refused", "ended", "aborted", "gone"}
    /\ got \in Seq(Chunk)
    /\ lost \in BOOLEAN

\* Neither queue on the way to the client outgrows its limit, and whatever the
\* client has read so far is an unbroken prefix of what Gitaly wrote: the hops
\* stream -> pump -> mpsc -> body neither lose, repeat nor reorder a chunk.
InOrder ==
    /\ Len(window) <= Window
    /\ Len(chan) <= ChanCap
    /\ Len(got) <= sent
    /\ \A i \in 1..Len(got) : got[i] = i

\* A body that ends normally carries the whole pack, unless the connection
\* broke or Gitaly failed the call: the end of the side channel, the end of
\* the call and the end of the body cannot overtake chunks still on their way.
WholePack ==
    client = "ended" /\ ~lost /\ gitaly # "failed" =>
        Len(got) = PackLen

\* The driver, which moves every byte of the session, does not stop under a
\* pump that still reads, although the gRPC call and the handler that also kept
\* it alive may both be over: the pump's `_session` is what keeps it going.
DriverOutlivesPump == pump \in PumpLive /\ driver = "stopped" => lost

\* Of all the streams opened towards the session at most one becomes the side
\* channel, it is the one the handler uses, and once it is taken the session
\* no longer has a waiter to give another stream to.
OneSidechannel ==
    /\ \A s \in Streams : inbound[s] = "held" <=> given = s
    /\ given # "none" => waiter = FALSE

\* The response is only returned once Gitaly can read the whole request, its
\* terminating flush packet included, and nothing follows that packet.
RequestThenResponse == client \in {"reading", "ended"} => request = WholeRequest

(***************************************************************************)
(* The inductive strengthenings.  Ownership says which task can still hold *)
(* what, from the handler's position; Passage where in the pack each chunk *)
(* on its way to a reading client is.                                      *)
(***************************************************************************)
Ownership ==
    /\ hpc = "connect" => driver = "off"
    /\ SessionHeld => driver # "off"
    /\ driver = "stopped" => lost \/ (~SessionHeld /\ ~ChannelHeld)
    /\ pump # "none" <=> hpc = "replied"
    /\ client = "waiting" <=> hpc \in HandlerBusy
    /\ client \in {"reading", "ended", "aborted"} => hpc = "replied"
    /\ hpc \in {"connect", "register", "dial", "await", "write"} => request = <<>>
    /\ hpc = "close" => request = <<Frame>>
    /\ hpc \in {"failed", "cancelled"} => request \in {<<>>, <<Frame>>}
    /\ hpc = "replied" => request = WholeRequest
    /\ hpc \in {"connect", "register", "dial"} => grpc = "idle"
    /\ grpc = "idle" => gitaly = "idle"
    /\ gitaly = "idle" => \A s \in Streams : inbound[s] = "none"
    /\ OneSidechannel

\* No read error is on its way to the client.
Clean ==
    /\ \A i \in 1..Len(chan) : chan[i] # ReadError
    /\ ~(pump = "sending" /\ hand = ReadError)

\* Chunks between the pump and the window.
InHand == IF pump = "sending" THEN 1 ELSE 0

Passage ==
    /\ InOrder
    /\ pump = "none" => sent = 0 /\ window = <<>> /\ chan = <<>> /\ got = <<>>
    /\ scEnd => gitaly \in {"finished", "failed"}
    /\ gitaly = "finished" => sent = PackLen
    /\ client = "reading" =>
         \A i \in 1..Len(chan) :
            IF chan[i] = ReadError
            THEN pump \in {"joining", "done"}
            ELSE chan[i] = Len(got) + i /\ chan[i] <= sent
    /\ client = "reading" /\ Clean =>
         /\ sent = Len(got) + Len(chan) + InHand + Len(window)
         /\ pump = "sending" => hand = Len(got) + Len(chan) + 1
         /\ \A i \in 1..Len(window) :
               window[i] = Len(got) + Len(chan) + InHand + i
         /\ pump \in {"joining", "done"} =>
               window = <<>> /\ (lost \/ gitaly \in {"finished", "failed"})
    /\ client = "ended" => lost \/ gitaly = "failed" \/ Len(got) = PackLen

\* The stream the handler was given is never exchanged for another.
SidechannelStays == [][given # "none" => given' = given]_given

\* Every way in which a handler can be left waiting: the call is over and no
\* stream will arrive, while its own `session` keeps the one-shot sender alive.
Orphaned ==
    /\ hpc = "await" /\ waiter = TRUE
    /\ grpc # "running"
    /\ \A s \in Streams : inbound[s] \in {"none", "dropped"} \/ ~Linked

\* A handler waiting for its side channel goes on, or is orphaned.
AnswersOrOrphaned == hpc = "await" ~> (hpc # "await" \/ Orphaned)

\* The response Gitaly owes: the handler does not wait for ever.  The code has
\* an answer for a side channel that never comes ("sidechannel stream not
\* received"), but rx.await cannot fail while the handler itself owns the
\* session that owns the sender.
HandlerAnswers == hpc = "await" ~> hpc # "await"

\* The client left in mid-pack: the pump waits for a call that waits for room
\* in a stream the pump owns and no longer reads.
Stalled ==
    /\ client = "gone" /\ pump = "joining"
    /\ Len(window) = Window /\ sent < PackLen
    /\ gitaly = "serving"

\* When the exchange with the client is over, whichever way, every task it
\* started ends, except a pump stalled on a pack nobody reads.
ReleasedOrStalled == Settled ~> (Released \/ Stalled)

\* What ends an exchange early: the connection broke, Gitaly failed the call, the
\* client left or the request was refused.
Disturbed ==
    \/ lost
    \/ gitaly = "failed"
    \/ client \in {"gone", "refused"}

\* Unless the exchange is disturbed the client receives the whole pack and no
\* task is left behind: the handler, the driver, the call, the pump and the body
\* never wait for each other in a circle.
Delivers ==
    <>(Disturbed \/ (client = "ended" /\ Len(got) = PackLen /\ Released))

-----------------------------------------------------------------------------
(* What all of this amounts to for the client. *)

\* A failure outside the program: the only excuse for a short body.
Excused == lost \/ gitaly = "failed"

Response == INSTANCE PackResponse
                WITH state <- client, body <- got, excused <- Excused

\* Handler, driver, call and pump together are one pack response: answered at
\* most once, delivered in order, and cut short only with an excuse.
ServesPack == Response!Spec

\* The inductive part of it: a read error on its way to the client, or one that
\* reached it, comes from a connection that broke.
ErrorsExplained == (client = "reading" /\ ~Clean) \/ client = "aborted" => lost
=============================================================================
