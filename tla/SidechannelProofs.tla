------------------------- MODULE SidechannelProofs -------------------------
(***************************************************************************)
(* Proofs about Sidechannel for any number of streams, any pack, any       *)
(* window, any channel capacity and any set of faults.                     *)
(***************************************************************************)
EXTENDS Sidechannel, SequenceTheorems, TLAPS

\* The flush packet completes the frame to the whole request.
LEMMA FrameThenFlush == Append(<<Frame>>, Flush) = WholeRequest
<1>1. <<Frame>> \in Seq({Frame, Flush}) /\ WholeRequest \in Seq({Frame, Flush})
  BY DEF WholeRequest
<1>2. Append(<<Frame>>, Flush) \in Seq({Frame, Flush})
  BY <1>1
<1>3. Len(Append(<<Frame>>, Flush)) = 2 /\ Len(WholeRequest) = 2
  BY <1>1 DEF WholeRequest
<1>4. ASSUME NEW i \in 1..2
      PROVE  Append(<<Frame>>, Flush)[i] = WholeRequest[i]
  <2>1. CASE i = 1
    BY <1>1, <2>1 DEF WholeRequest
  <2>2. CASE i = 2
    BY <1>1, <2>2 DEF WholeRequest
  <2> QED
    BY <2>1, <2>2
<1> QED
  BY <1>1, <1>2, <1>3, <1>4, SeqEqual

\* The whole request is neither empty nor the frame alone.
LEMMA WholeRequestDistinct == WholeRequest # <<>> /\ WholeRequest # <<Frame>>
<1>1. Len(WholeRequest) = 2 /\ Len(<<Frame>>) = 1
  BY DEF WholeRequest
<1>2. WholeRequest # <<Frame>>
  BY <1>1
<1>3. WholeRequest # <<>>
  BY <1>1
<1> QED
  BY <1>2, <1>3

USE DEF ReadError

\* The spawned tasks and channels stay within their types: a chunk is never
\* anything but one of the pack's, whichever queue it waits in.
THEOREM TypeCorrect == Spec => []TypeOK
<1>1. Init => TypeOK
  <2> SUFFICES ASSUME Init PROVE TypeOK
    OBVIOUS
  <2>1. /\ request \in Seq({Frame, Flush}) /\ window \in Seq(Chunk)
        /\ got \in Seq(Chunk) /\ chan \in Seq(Chunk \cup {ReadError})
    BY DEF Init
  <2>2. inbound \in [Streams -> {"none", "arrived", "handshake", "offering",
                                 "held", "dropped"}]
    BY DEF Init
  <2>3. sent \in 0..PackLen
    BY ConstantsOK DEF Init, ConstantsOK
  <2> QED
    BY <2>1, <2>2, <2>3 DEF Init, TypeOK, HandlerBusy
<1>2. TypeOK /\ [Next]_vars => TypeOK'
  <2> SUFFICES ASSUME TypeOK, [Next]_vars PROVE TypeOK'
    OBVIOUS
  <2> USE ConstantsOK DEF TypeOK, ConstantsOK, HandlerBusy,
                          hvars, gvars, cvars, pvars
  <2>1. ASSUME Connect PROVE TypeOK'
    BY <2>1 DEF Connect, Refuse
  <2>2. ASSUME Register PROVE TypeOK'
    BY <2>2 DEF Register, Refuse
  <2>3. ASSUME Dialed PROVE TypeOK'
    BY <2>3 DEF Dialed
  <2>4. ASSUME DialFails PROVE TypeOK'
    BY <2>4 DEF DialFails, Refuse
  <2>5. ASSUME Receive PROVE TypeOK'
    BY <2>5 DEF Receive
  <2>6. ASSUME WriteBody PROVE TypeOK'
    <3>1. Append(request, Frame) \in Seq({Frame, Flush})
      BY AppendProperties
    <3> QED
      BY <2>6, <3>1 DEF WriteBody
  <2>7. ASSUME CloseWrite PROVE TypeOK'
    <3>1. Append(request, Flush) \in Seq({Frame, Flush})
      BY AppendProperties
    <3> QED
      BY <2>7, <3>1 DEF CloseWrite
  <2>8. ASSUME WriteFails PROVE TypeOK'
    BY <2>8 DEF WriteFails, Refuse
  <2>9. ASSUME TakeRequest PROVE TypeOK'
    BY <2>9 DEF TakeRequest
  <2>10. ASSUME OpenOutbound PROVE TypeOK'
    BY <2>10 DEF OpenOutbound
  <2>11. ASSUME StopDriver PROVE TypeOK'
    BY <2>11 DEF StopDriver
  <2>12. ASSUME ReceiveCall PROVE TypeOK'
    BY <2>12 DEF ReceiveCall
  <2>13. ASSUME WriteChunk PROVE TypeOK'
    <3>1. sent + 1 \in Chunk /\ sent + 1 \in 0..PackLen
      BY <2>13 DEF WriteChunk, Chunk
    <3>2. Append(window, sent + 1) \in Seq(Chunk)
      BY <3>1, AppendProperties
    <3> QED
      BY <2>13, <3>1, <3>2 DEF WriteChunk
  <2>14. ASSUME FinishPack PROVE TypeOK'
    BY <2>14 DEF FinishPack
  <2>15. ASSUME GitalyFails PROVE TypeOK'
    BY <2>15 DEF GitalyFails
  <2>16. ASSUME GitalyBroken PROVE TypeOK'
    BY <2>16 DEF GitalyBroken
  <2>17. ASSUME EndCall PROVE TypeOK'
    BY <2>17 DEF EndCall
  <2>18. ASSUME ReadChunk PROVE TypeOK'
    <3>1. Head(window) \in Chunk /\ Tail(window) \in Seq(Chunk)
      BY <2>18, HeadTailProperties DEF ReadChunk
    <3> QED
      BY <2>18, <3>1 DEF ReadChunk
  <2>19. ASSUME ReadEof PROVE TypeOK'
    BY <2>19 DEF ReadEof
  <2>20. ASSUME ReadFails PROVE TypeOK'
    BY <2>20 DEF ReadFails
  <2>21. ASSUME Send PROVE TypeOK'
    <3>1. Append(chan, hand) \in Seq(Chunk \cup {ReadError})
      BY AppendProperties
    <3> QED
      BY <2>21, <3>1 DEF Send
  <2>22. ASSUME SendFails PROVE TypeOK'
    BY <2>22 DEF SendFails
  <2>23. ASSUME Join PROVE TypeOK'
    BY <2>23 DEF Join
  <2>24. ASSUME ReadBody PROVE TypeOK'
    <3>1. /\ Head(chan) \in Chunk \cup {ReadError}
          /\ Tail(chan) \in Seq(Chunk \cup {ReadError})
      BY <2>24, HeadTailProperties DEF ReadBody
    <3>2. Head(chan) # ReadError => Append(got, Head(chan)) \in Seq(Chunk)
      BY <3>1, AppendProperties
    <3>3. <<>> \in Seq(Chunk \cup {ReadError})
      OBVIOUS
    <3>4. got' \in Seq(Chunk)
      BY <2>24, <3>1, <3>2 DEF ReadBody
    <3>5. chan' \in Seq(Chunk \cup {ReadError})
      BY <2>24, <3>1, <3>3 DEF ReadBody
    <3>6. client' \in {"waiting", "reading", "refused", "ended", "aborted", "gone"}
      BY <2>24 DEF ReadBody
    <3>7. UNCHANGED <<hvars, driver, inbound, grpc, request, gvars, window,
                      pvars, lost>>
      BY <2>24 DEF ReadBody
    <3> QED
      BY <3>4, <3>5, <3>6, <3>7
  <2>25. ASSUME EndBody PROVE TypeOK'
    BY <2>25 DEF EndBody
  <2>26. ASSUME Leave PROVE TypeOK'
    <3>1. <<>> \in Seq(Chunk \cup {ReadError})
      OBVIOUS
    <3> QED
      BY <2>26, <3>1 DEF Leave
  <2>27. ASSUME LoseLink PROVE TypeOK'
    BY <2>27 DEF LoseLink
  <2>28. ASSUME NEW s \in Streams, AcceptInbound(s) PROVE TypeOK'
    BY <2>28 DEF AcceptInbound
  <2>29. ASSUME NEW s \in Streams, Handshake(s) PROVE TypeOK'
    BY <2>29 DEF Handshake
  <2>30. ASSUME NEW s \in Streams, Offer(s) PROVE TypeOK'
    <3>1. given' \in Streams \cup {"none"}
      BY <2>30 DEF Offer
    <3>2. inbound' \in [Streams -> {"none", "arrived", "handshake", "offering",
                                    "held", "dropped"}]
      BY <2>30 DEF Offer
    <3>3. waiter' \in BOOLEAN
      BY <2>30 DEF Offer
    <3>4. UNCHANGED <<hpc, opener, driver, grpc, request, gvars, window, pvars,
                      chan, cvars, lost>>
      BY <2>30 DEF Offer
    <3> QED
      BY <3>1, <3>2, <3>3, <3>4
  <2>31. ASSUME NEW s \in Streams, OpenStream(s) PROVE TypeOK'
    BY <2>31 DEF OpenStream
  <2>32. ASSUME Finished \/ UNCHANGED vars PROVE TypeOK'
    BY <2>32 DEF Finished, vars
  <2> QED
    BY <2>1, <2>2, <2>3, <2>4, <2>5, <2>6, <2>7, <2>8, <2>9, <2>10,
       <2>11, <2>12, <2>13, <2>14, <2>15, <2>16, <2>17, <2>18, <2>19,
       <2>20, <2>21, <2>22, <2>23, <2>24, <2>25, <2>26, <2>27, <2>28,
       <2>29, <2>30, <2>31, <2>32 DEF Next
<1> QED
  BY <1>1, <1>2, PTL DEF Spec

\* Who may still hold what: in particular at most one stream becomes the side
\* channel, and the driver never stops under a pump unless the link broke.
THEOREM OwnershipCorrect == Spec => []Ownership
<1>1. Init => Ownership
  BY ConstantsOK DEF Init, Ownership, OneSidechannel, SessionHeld, ChannelHeld,
     HandlerBusy, PumpLive, ConstantsOK
<1>2. TypeOK /\ Ownership /\ [Next]_vars => Ownership'
  <2> SUFFICES ASSUME TypeOK, Ownership, [Next]_vars PROVE Ownership'
    OBVIOUS
  <2> USE ConstantsOK DEF Ownership, OneSidechannel, SessionHeld, ChannelHeld,
          HandlerBusy, PumpLive, ConstantsOK, TypeOK, hvars, gvars, cvars, pvars
  <2>1. ASSUME Connect PROVE Ownership'
    BY <2>1 DEF Connect, Refuse
  <2>2. ASSUME Register PROVE Ownership'
    BY <2>2 DEF Register, Refuse
  <2>3. ASSUME Dialed PROVE Ownership'
    BY <2>3 DEF Dialed
  <2>4. ASSUME DialFails PROVE Ownership'
    BY <2>4 DEF DialFails, Refuse
  <2>5. ASSUME Receive PROVE Ownership'
    BY <2>5 DEF Receive
  <2>6. ASSUME WriteBody PROVE Ownership'
    BY <2>6 DEF WriteBody
  <2>7. ASSUME CloseWrite PROVE Ownership'
    BY <2>7, FrameThenFlush DEF CloseWrite
  <2>8. ASSUME WriteFails PROVE Ownership'
    BY <2>8 DEF WriteFails, Refuse
  <2>9. ASSUME TakeRequest PROVE Ownership'
    BY <2>9 DEF TakeRequest
  <2>10. ASSUME OpenOutbound PROVE Ownership'
    BY <2>10 DEF OpenOutbound
  <2>11. ASSUME StopDriver PROVE Ownership'
    BY <2>11 DEF StopDriver
  <2>12. ASSUME ReceiveCall PROVE Ownership'
    BY <2>12 DEF ReceiveCall
  <2>13. ASSUME WriteChunk PROVE Ownership'
    BY <2>13 DEF WriteChunk
  <2>14. ASSUME FinishPack PROVE Ownership'
    BY <2>14 DEF FinishPack
  <2>15. ASSUME GitalyFails PROVE Ownership'
    BY <2>15 DEF GitalyFails
  <2>16. ASSUME GitalyBroken PROVE Ownership'
    BY <2>16 DEF GitalyBroken
  <2>17. ASSUME EndCall PROVE Ownership'
    BY <2>17 DEF EndCall
  <2>18. ASSUME ReadChunk PROVE Ownership'
    BY <2>18 DEF ReadChunk
  <2>19. ASSUME ReadEof PROVE Ownership'
    BY <2>19 DEF ReadEof
  <2>20. ASSUME ReadFails PROVE Ownership'
    BY <2>20 DEF ReadFails
  <2>21. ASSUME Send PROVE Ownership'
    BY <2>21 DEF Send
  <2>22. ASSUME SendFails PROVE Ownership'
    BY <2>22 DEF SendFails
  <2>23. ASSUME Join PROVE Ownership'
    BY <2>23 DEF Join
  <2>24. ASSUME ReadBody PROVE Ownership'
    BY <2>24 DEF ReadBody
  <2>25. ASSUME EndBody PROVE Ownership'
    BY <2>25 DEF EndBody
  <2>26. ASSUME Leave PROVE Ownership'
    BY <2>26 DEF Leave
  <2>27. ASSUME LoseLink PROVE Ownership'
    BY <2>27 DEF LoseLink
  <2>28. ASSUME NEW s \in Streams, AcceptInbound(s) PROVE Ownership'
    BY <2>28 DEF AcceptInbound
  <2>29. ASSUME NEW s \in Streams, Handshake(s) PROVE Ownership'
    BY <2>29 DEF Handshake
  <2>30. ASSUME NEW s \in Streams, Offer(s) PROVE Ownership'
    BY <2>30 DEF Offer
  <2>31. ASSUME NEW s \in Streams, OpenStream(s) PROVE Ownership'
    BY <2>31 DEF OpenStream
  <2>32. ASSUME Finished \/ UNCHANGED vars PROVE Ownership'
    BY <2>32 DEF Finished, vars
  <2> QED
    BY <2>1, <2>2, <2>3, <2>4, <2>5, <2>6, <2>7, <2>8, <2>9, <2>10,
       <2>11, <2>12, <2>13, <2>14, <2>15, <2>16, <2>17, <2>18, <2>19,
       <2>20, <2>21, <2>22, <2>23, <2>24, <2>25, <2>26, <2>27, <2>28,
       <2>29, <2>30, <2>31, <2>32 DEF Next
<1> QED
  BY <1>1, <1>2, TypeCorrect, PTL DEF Spec


\* Where each chunk is stays true of a step that moves no chunk and does not
\* begin or end the body.
LEMMA PassageUntouched ==
    ASSUME Passage,
           UNCHANGED <<sent, scEnd, gitaly, window, pump, hand, chan, got, lost>>,
           client' = client \/ client' \notin {"reading", "ended"}
    PROVE  Passage'
  BY DEF Passage, InOrder, Clean, InHand
\* Where each chunk is: whatever the client has read is an unbroken prefix of
\* what Gitaly wrote, and a body that ends carries the whole pack unless the
\* link broke or the call failed.
THEOREM PassageCorrect == Spec => []Passage
<1>1. Init => Passage
  BY ConstantsOK DEF Init, Passage, InOrder, ConstantsOK, Clean
<1>2. TypeOK /\ Ownership /\ Passage /\ [Next]_vars => Passage'
  <2> SUFFICES ASSUME TypeOK, Ownership, Passage, [Next]_vars PROVE Passage'
    OBVIOUS
  <2> USE ConstantsOK DEF Passage, InOrder, Clean, InHand, ConstantsOK,
          HandlerBusy, TypeOK, hvars, gvars, cvars, pvars
  <2>1. ASSUME Connect PROVE Passage'
    BY <2>1, PassageUntouched DEF Connect, Refuse
  <2>2. ASSUME Register PROVE Passage'
    BY <2>2, PassageUntouched DEF Register, Refuse
  <2>3. ASSUME Dialed PROVE Passage'
    BY <2>3 DEF Dialed
  <2>4. ASSUME DialFails PROVE Passage'
    BY <2>4 DEF DialFails, Refuse
  <2>5. ASSUME Receive PROVE Passage'
    BY <2>5 DEF Receive
  <2>6. ASSUME WriteBody PROVE Passage'
    BY <2>6 DEF WriteBody
  <2>7. ASSUME CloseWrite PROVE Passage'
    <3>1. pump = "none"
      BY <2>7 DEF CloseWrite, Ownership
    <3>2. sent = 0 /\ window = <<>> /\ chan = <<>> /\ got = <<>>
      BY <3>1
    <3>3. /\ UNCHANGED <<sent, window, chan, got, scEnd, gitaly, lost>>
          /\ pump' = "reading" /\ client' = "reading"
      BY <2>7 DEF CloseWrite
    <3> QED
      BY <3>2, <3>3
  <2>8. ASSUME WriteFails PROVE Passage'
    BY <2>8 DEF WriteFails, Refuse
  <2>9. ASSUME TakeRequest PROVE Passage'
    BY <2>9 DEF TakeRequest
  <2>10. ASSUME OpenOutbound PROVE Passage'
    BY <2>10 DEF OpenOutbound
  <2>11. ASSUME StopDriver PROVE Passage'
    BY <2>11 DEF StopDriver
  <2>12. ASSUME ReceiveCall PROVE Passage'
    BY <2>12 DEF ReceiveCall
  <2>13. ASSUME WriteChunk PROVE Passage'
    <3>1. pump # "none"
      <4>1. request # <<>> /\ request # <<Frame>>
        BY <2>13, WholeRequestDistinct DEF WriteChunk
      <4> QED
        BY <4>1 DEF Ownership
    <3>2. /\ gitaly = "serving" /\ ~lost
          /\ sent' = sent + 1 /\ window' = Append(window, sent + 1)
          /\ Len(window) < Window
          /\ UNCHANGED <<gitaly, scEnd, pump, hand, chan, client, got, lost>>
      BY <2>13 DEF WriteChunk, Linked
    <3>3. /\ Len(window') = Len(window) + 1
          /\ \A i \in 1..Len(window) : window'[i] = window[i]
          /\ window'[Len(window) + 1] = sent + 1
      <4>1. sent + 1 \in Chunk
        BY <2>13 DEF WriteChunk, Chunk
      <4> QED
        BY <3>2, <4>1, AppendProperties
    <3>4. InOrder' /\ (scEnd' => gitaly' \in {"finished", "failed"})
                  /\ (gitaly' = "finished" => sent' = PackLen)
                  /\ (pump' # "none")
                  /\ (client' = "ended" =>
                        lost' \/ gitaly' = "failed" \/ Len(got') = PackLen)
      BY <3>1, <3>2, <3>3
    <3>5. ASSUME client' = "reading", NEW i \in 1..Len(chan')
          PROVE  IF chan'[i] = ReadError
                 THEN pump' \in {"joining", "done"}
                 ELSE chan'[i] = Len(got') + i /\ chan'[i] <= sent'
      BY <3>2, <3>5
    <3>6. ASSUME client' = "reading", Clean'
          PROVE  /\ sent' = Len(got') + Len(chan') + InHand' + Len(window')
                 /\ pump' = "sending" => hand' = Len(got') + Len(chan') + 1
                 /\ \A i \in 1..Len(window') :
                       window'[i] = Len(got') + Len(chan') + InHand' + i
                 /\ pump' \notin {"joining", "done"}
      <4>1. client = "reading" /\ Clean
        BY <3>2, <3>6
      <4>2. pump \notin {"joining", "done"}
        BY <4>1, <3>2
      <4>3. sent = Len(got) + Len(chan) + InHand + Len(window)
        BY <4>1
      <4>4. \A i \in 1..Len(window) : window[i] = Len(got) +
         Len(chan) + InHand + i
        BY <4>1
      <4>5. ASSUME NEW i \in 1..Len(window')
            PROVE  window'[i] = Len(got) + Len(chan) + InHand + i
        <5>1. CASE i = Len(window) + 1
          BY <5>1, <3>3, <4>3
        <5>2. CASE i # Len(window) + 1
          BY <5>2, <3>3, <4>4, i \in 1..Len(window)
        <5> QED
          BY <5>1, <5>2
      <4> QED
        BY <3>2, <3>3, <4>1, <4>2, <4>3, <4>5
    <3> QED
      BY <3>4, <3>5, <3>6
  <2>14. ASSUME FinishPack PROVE Passage'
    BY <2>14 DEF FinishPack
  <2>15. ASSUME GitalyFails PROVE Passage'
    BY <2>15 DEF GitalyFails
  <2>16. ASSUME GitalyBroken PROVE Passage'
    BY <2>16 DEF GitalyBroken
  <2>17. ASSUME EndCall PROVE Passage'
    BY <2>17 DEF EndCall
  <2>18. ASSUME ReadChunk PROVE Passage'
    BY <2>18 DEF ReadChunk
  <2>19. ASSUME ReadEof PROVE Passage'
    <3>1. ~Linked => lost
      BY <2>19 DEF ReadEof, Linked, Ownership, SessionHeld, PumpLive
    <3> QED
      BY <2>19, <3>1 DEF ReadEof
  <2>20. ASSUME ReadFails PROVE Passage'
    BY <2>20 DEF ReadFails
  <2>21. ASSUME Send PROVE Passage'
    <3>1. /\ pump = "sending" /\ client = "reading" /\ Len(chan) < ChanCap
          /\ chan' = Append(chan, hand)
          /\ pump' = IF hand = ReadError THEN "joining" ELSE "reading"
          /\ UNCHANGED <<sent, scEnd, gitaly, window, client, got, lost>>
      BY <2>21 DEF Send
    <3>2. /\ Len(chan') = Len(chan) + 1
          /\ \A i \in 1..Len(chan) : chan'[i] = chan[i]
          /\ chan'[Len(chan) + 1] = hand
      BY <3>1, AppendProperties
    <3>3. \A i \in 1..Len(chan) : chan[i] # ReadError
      BY <3>1
    <3>4. CASE hand = ReadError
      <4>1. pump' = "joining" /\ ~Clean'
        BY <3>1, <3>2, <3>4
      <4>2. ASSUME NEW i \in 1..Len(chan')
            PROVE  IF chan'[i] = ReadError
                   THEN pump' \in {"joining", "done"}
                   ELSE chan'[i] = Len(got') + i /\ chan'[i] <= sent'
        <5>1. CASE i = Len(chan) + 1
          BY <5>1, <3>2, <3>4, <4>1
        <5>2. CASE i # Len(chan) + 1
          BY <5>2, <3>1, <3>2, i \in 1..Len(chan)
        <5> QED
          BY <5>1, <5>2
      <4> QED
        BY <3>1, <3>2, <4>1, <4>2
    <3>5. CASE hand # ReadError
      <4>1. Clean /\ Clean' /\ InHand = 1 /\ InHand' = 0 /\ pump' = "reading"
        <5>1. pump' = "reading"
          BY <3>1, <3>5
        <5>2. ASSUME NEW i \in 1..Len(chan') PROVE chan'[i] # ReadError
          <6>1. CASE i = Len(chan) + 1
            BY <6>1, <3>2, <3>5
          <6>2. CASE i # Len(chan) + 1
            BY <6>2, <3>2, <3>3, i \in 1..Len(chan)
          <6> QED
            BY <6>1, <6>2
        <5> QED
          BY <3>1, <3>3, <3>5, <5>1, <5>2
      <4>2. /\ sent = Len(got) + Len(chan) + 1 + Len(window)
            /\ hand = Len(got) + Len(chan) + 1
            /\ \A i \in 1..Len(window) : window[i] = Len(got) +
               Len(chan) + 1 + i
        BY <3>1, <4>1
      <4>3. ASSUME NEW i \in 1..Len(chan')
            PROVE  chan'[i] = Len(got') + i /\ chan'[i] <= sent'
        <5>1. CASE i = Len(chan) + 1
          BY <5>1, <3>1, <3>2, <4>2
        <5>2. CASE i # Len(chan) + 1
          BY <5>2, <3>1, <3>2, <3>3, i \in 1..Len(chan)
        <5> QED
          BY <5>1, <5>2
      <4> QED
        BY <3>1, <3>2, <4>1, <4>2, <4>3
    <3> QED
      BY <3>4, <3>5
  <2>22. ASSUME SendFails PROVE Passage'
    BY <2>22 DEF SendFails
  <2>23. ASSUME Join PROVE Passage'
    BY <2>23 DEF Join
  <2>24. ASSUME ReadBody PROVE Passage'
    <3>1. CASE Head(chan) = ReadError
      <4>1. /\ client' = "aborted" /\ chan' = <<>>
            /\ UNCHANGED <<sent, scEnd, gitaly, window, pump,
               hand, got, lost>>
        BY <2>24, <3>1, TypeOK DEF ReadBody, Chunk
      <4> QED
        BY <4>1
    <3>2. CASE Head(chan) # ReadError
      <4>1. /\ client = "reading" /\ chan # <<>>
            /\ got' = Append(got, Head(chan)) /\ chan' = Tail(chan)
            /\ UNCHANGED <<sent, scEnd, gitaly, window, pump,
               hand, client, lost>>
        BY <2>24, <3>2 DEF ReadBody
      <4>2. /\ Head(chan) = chan[1] /\ Len(chan) \in Nat \ {0}
            /\ Len(chan') = Len(chan) - 1
            /\ \A i \in 1..Len(chan') : chan'[i] = chan[i + 1]
        BY <4>1, HeadTailProperties
      <4>3. Head(chan) = Len(got) + 1 /\ Head(chan) <= sent /\
         Head(chan) \in Chunk
        <5>1. Head(chan) = Len(got) + 1 /\ Head(chan) <= sent
          BY <3>2, <4>1, <4>2, 1 \in 1..Len(chan)
        <5>2. Head(chan) \in Chunk
          BY <3>2, <4>1, HeadTailProperties
        <5> QED
          BY <5>1, <5>2
      <4>4. /\ Len(got') = Len(got) + 1
            /\ \A i \in 1..Len(got) : got'[i] = got[i]
            /\ got'[Len(got) + 1] = Head(chan)
        BY <4>1, <4>3, AppendProperties
      <4>5. InOrder' /\ pump' # "none"
        <5>1. pump # "none"
          BY <4>1
        <5>2. ASSUME NEW i \in 1..Len(got') PROVE got'[i] = i
          <6>1. CASE i = Len(got) + 1
            BY <6>1, <4>3, <4>4
          <6>2. CASE i # Len(got) + 1
            BY <6>2, <4>4, i \in 1..Len(got)
          <6> QED
            BY <6>1, <6>2
        <5> QED
          BY <4>1, <4>2, <4>3, <4>4, <5>1, <5>2
      <4>6. ASSUME NEW i \in 1..Len(chan')
            PROVE  IF chan'[i] = ReadError
                   THEN pump' \in {"joining", "done"}
                   ELSE chan'[i] = Len(got') + i /\ chan'[i] <= sent'
        <5>1. i + 1 \in 1..Len(chan) /\ chan'[i] = chan[i + 1]
          BY <4>2
        <5> QED
          BY <5>1, <4>1, <4>4
      <4>7. ASSUME Clean'
            PROVE  Clean
        <5>1. ASSUME NEW i \in 1..Len(chan) PROVE chan[i] # ReadError
          <6>1. CASE i = 1
            BY <6>1, <3>2, <4>2
          <6>2. CASE i # 1
            <7>1. i - 1 \in 1..Len(chan') /\ chan'[i - 1] = chan[i]
              BY <6>2, <4>2
            <7> QED
              BY <7>1, <4>7
          <6> QED
            BY <6>1, <6>2
        <5> QED
          BY <5>1, <4>1, <4>7
      <4>8. InHand' = InHand /\ Len(got') + Len(chan') = Len(got) + Len(chan)
        BY <4>1, <4>2, <4>4
      <4> QED
        BY <4>1, <4>5, <4>6, <4>7, <4>8
    <3> QED
      BY <3>1, <3>2
  <2>25. ASSUME EndBody PROVE Passage'
    BY <2>25 DEF EndBody
  <2>26. ASSUME Leave PROVE Passage'
    BY <2>26 DEF Leave
  <2>27. ASSUME LoseLink PROVE Passage'
    BY <2>27 DEF LoseLink
  <2>28. ASSUME NEW s \in Streams, AcceptInbound(s) PROVE Passage'
    BY <2>28 DEF AcceptInbound
  <2>29. ASSUME NEW s \in Streams, Handshake(s) PROVE Passage'
    BY <2>29 DEF Handshake
  <2>30. ASSUME NEW s \in Streams, Offer(s) PROVE Passage'
    BY <2>30 DEF Offer
  <2>31. ASSUME NEW s \in Streams, OpenStream(s) PROVE Passage'
    BY <2>31 DEF OpenStream
  <2>32. ASSUME Finished \/ UNCHANGED vars PROVE Passage'
    BY <2>32, PassageUntouched DEF Finished, vars
  <2> QED
    BY <2>1, <2>2, <2>3, <2>4, <2>5, <2>6, <2>7, <2>8, <2>9, <2>10,
       <2>11, <2>12, <2>13, <2>14, <2>15, <2>16, <2>17, <2>18, <2>19,
       <2>20, <2>21, <2>22, <2>23, <2>24, <2>25, <2>26, <2>27, <2>28,
       <2>29, <2>30, <2>31, <2>32 DEF Next
<1> QED
  BY <1>1, <1>2, TypeCorrect, OwnershipCorrect, PTL DEF Spec

-----------------------------------------------------------------------------
(* What the two invariants give. *)

\* Whatever the faults and however the tasks interleave, the client reads an
\* unbroken prefix of what Gitaly wrote to the side channel, and neither the
\* yamux window nor the mpsc channel outgrows its limit.
THEOREM PrefixDelivered == Spec => []InOrder
<1>1. Passage => InOrder
  BY DEF Passage
<1> QED
  BY <1>1, PassageCorrect, PTL

\* A response body that ends normally although neither the connection nor
\* Gitaly failed is the whole pack.
THEOREM WholePackDelivered == Spec => []WholePack
<1>1. Passage => WholePack
  BY DEF Passage, WholePack
<1> QED
  BY <1>1, PassageCorrect, PTL

\* The yamux driver runs as long as a pump reads from the session, unless the
\* connection broke: the `_session` the pump took over keeps it alive.
THEOREM DriverStays == Spec => []DriverOutlivesPump
<1>1. Ownership => DriverOutlivesPump
  BY DEF Ownership, DriverOutlivesPump, SessionHeld
<1> QED
  BY <1>1, OwnershipCorrect, PTL

\* At most one of the inbound streams becomes the side channel, and it is the
\* one the handler was given.
THEOREM OneSidechannelOnly == Spec => []OneSidechannel
<1>1. Ownership => OneSidechannel
  BY DEF Ownership
<1> QED
  BY <1>1, OwnershipCorrect, PTL

\* The handler answers 200 only after the request body and its flush packet,
\* and nothing after them, are in the side channel.
THEOREM AnswerFollowsRequest == Spec => []RequestThenResponse
<1>1. Ownership => RequestThenResponse
  BY DEF Ownership, RequestThenResponse
<1> QED
  BY <1>1, OwnershipCorrect, PTL

\* The side channel the handler was given is never replaced by another stream.
THEOREM SidechannelFixed == Spec => SidechannelStays
<1>1. OneSidechannel /\ [Next]_vars => [given # "none" => given' = given]_given
  <2> SUFFICES ASSUME OneSidechannel, [Next]_vars, given # "none"
               PROVE  given' = given
    OBVIOUS
  <2>1. ASSUME NEW s \in Streams, Offer(s) PROVE given' = given
    BY <2>1 DEF Offer, OneSidechannel
  <2> QED
    BY <2>1 DEF Next, vars, hvars, pvars, cvars, gvars, Refuse, Connect,
       Register, Dialed, DialFails, Receive, WriteBody, CloseWrite, WriteFails,
       TakeRequest, OpenOutbound, StopDriver, AcceptInbound, Handshake,
       ReceiveCall, WriteChunk, FinishPack, GitalyFails, GitalyBroken,
       OpenStream, EndCall, ReadChunk, ReadEof, ReadFails, Send, SendFails,
       Join, ReadBody, EndBody, Leave, LoseLink, Finished
<1> QED
  BY <1>1, OneSidechannelOnly, PTL DEF Spec, SidechannelStays
-----------------------------------------------------------------------------
(* Sidechannel implements PackResponse. *)

\* A read error that reaches the response body, or is on its way there, means
\* that the connection broke: pump and driver produce no other.
THEOREM ErrorsHaveCause == Spec => []ErrorsExplained
<1>1. Init => ErrorsExplained
  BY DEF Init, ErrorsExplained
<1>2. TypeOK /\ Ownership /\ Passage /\ ErrorsExplained /\ [Next]_vars
          => ErrorsExplained'
  <2> SUFFICES ASSUME TypeOK, Ownership, Passage, ErrorsExplained, [Next]_vars
               PROVE  ErrorsExplained'
    OBVIOUS
  <2>a. pump \in PumpLive /\ driver # "running" => lost
    BY DEF Ownership, SessionHeld, TypeOK, PumpLive
  <2>b. hpc = "close" => pump = "none" /\ chan = <<>>
    BY DEF Ownership, Passage
  <2> USE DEF ErrorsExplained, Clean, TypeOK, hvars, gvars, cvars, pvars
  <2>1. ASSUME Connect PROVE ErrorsExplained'
    BY <2>1 DEF Connect, Refuse
  <2>2. ASSUME Register PROVE ErrorsExplained'
    BY <2>2 DEF Register, Refuse
  <2>3. ASSUME Dialed PROVE ErrorsExplained'
    BY <2>3 DEF Dialed
  <2>4. ASSUME DialFails PROVE ErrorsExplained'
    BY <2>4 DEF DialFails, Refuse
  <2>5. ASSUME Receive PROVE ErrorsExplained'
    BY <2>5 DEF Receive
  <2>6. ASSUME WriteBody PROVE ErrorsExplained'
    BY <2>6 DEF WriteBody
  <2>7. ASSUME CloseWrite PROVE ErrorsExplained'
    BY <2>7, <2>b DEF CloseWrite
  <2>8. ASSUME WriteFails PROVE ErrorsExplained'
    BY <2>8 DEF WriteFails, Refuse
  <2>9. ASSUME TakeRequest PROVE ErrorsExplained'
    BY <2>9 DEF TakeRequest
  <2>10. ASSUME OpenOutbound PROVE ErrorsExplained'
    BY <2>10 DEF OpenOutbound
  <2>11. ASSUME StopDriver PROVE ErrorsExplained'
    BY <2>11 DEF StopDriver
  <2>12. ASSUME ReceiveCall PROVE ErrorsExplained'
    BY <2>12 DEF ReceiveCall
  <2>13. ASSUME WriteChunk PROVE ErrorsExplained'
    BY <2>13 DEF WriteChunk
  <2>14. ASSUME FinishPack PROVE ErrorsExplained'
    BY <2>14 DEF FinishPack
  <2>15. ASSUME GitalyFails PROVE ErrorsExplained'
    BY <2>15 DEF GitalyFails
  <2>16. ASSUME GitalyBroken PROVE ErrorsExplained'
    BY <2>16 DEF GitalyBroken
  <2>17. ASSUME EndCall PROVE ErrorsExplained'
    BY <2>17 DEF EndCall
  <2>18. ASSUME ReadChunk PROVE ErrorsExplained'
    <3>1. Head(window) \in Chunk
      BY <2>18, HeadTailProperties DEF ReadChunk
    <3>2. hand' # ReadError
      BY <2>18, <3>1 DEF ReadChunk, Chunk
    <3> QED
      BY <2>18, <3>2 DEF ReadChunk
  <2>19. ASSUME ReadEof PROVE ErrorsExplained'
    BY <2>19 DEF ReadEof
  <2>20. ASSUME ReadFails PROVE ErrorsExplained'
    BY <2>20, <2>a DEF ReadFails, Linked, PumpLive
  <2>21. ASSUME Send PROVE ErrorsExplained'
    <3>1. CASE hand = ReadError
      BY <2>21, <3>1 DEF Send
    <3>2. CASE hand # ReadError
      <4>1. chan' = Append(chan, hand) /\ pump' = "reading" /\ UNCHANGED <<client, lost>>
        BY <2>21, <3>2 DEF Send
      <4>2. client = "reading" /\ ~Clean' => \E i \in 1..Len(chan) : chan[i] = ReadError
        BY <3>2, <4>1, AppendProperties
      <4> QED
        BY <4>1, <4>2
    <3> QED
      BY <3>1, <3>2
  <2>22. ASSUME SendFails PROVE ErrorsExplained'
    BY <2>22 DEF SendFails
  <2>23. ASSUME Join PROVE ErrorsExplained'
    BY <2>23 DEF Join
  <2>24. ASSUME ReadBody PROVE ErrorsExplained'
    <3>1. CASE Head(chan) = ReadError
      <4>1. chan # <<>> /\ chan[1] = ReadError /\ client = "reading" /\ UNCHANGED lost
        BY <2>24, <3>1 DEF ReadBody
      <4>2. 1 \in 1..Len(chan)
        BY <4>1, EmptySeq
      <4> QED
        BY <4>1, <4>2
    <3>2. CASE Head(chan) # ReadError
      <4>1. /\ chan # <<>> /\ chan' = Tail(chan)
            /\ UNCHANGED <<client, pump, hand, lost>>
        BY <2>24, <3>2 DEF ReadBody
      <4>2. \A i \in 1..Len(chan') : i + 1 \in 1..Len(chan) /\ chan'[i] = chan[i + 1]
        BY <4>1, HeadTailProperties
      <4>3. client = "reading"
        BY <2>24 DEF ReadBody
      <4> QED
        BY <4>1, <4>2, <4>3
    <3> QED
      BY <3>1, <3>2
  <2>25. ASSUME EndBody PROVE ErrorsExplained'
    BY <2>25 DEF EndBody
  <2>26. ASSUME Leave PROVE ErrorsExplained'
    BY <2>26 DEF Leave
  <2>27. ASSUME LoseLink PROVE ErrorsExplained'
    BY <2>27 DEF LoseLink
  <2>28. ASSUME NEW s \in Streams, AcceptInbound(s) PROVE ErrorsExplained'
    BY <2>28 DEF AcceptInbound
  <2>29. ASSUME NEW s \in Streams, Handshake(s) PROVE ErrorsExplained'
    BY <2>29 DEF Handshake
  <2>30. ASSUME NEW s \in Streams, Offer(s) PROVE ErrorsExplained'
    BY <2>30 DEF Offer
  <2>31. ASSUME NEW s \in Streams, OpenStream(s) PROVE ErrorsExplained'
    BY <2>31 DEF OpenStream
  <2>32. ASSUME Finished \/ UNCHANGED vars PROVE ErrorsExplained'
    BY <2>32 DEF Finished, vars
  <2> QED
    BY <2>1, <2>2, <2>3, <2>4, <2>5, <2>6, <2>7, <2>8, <2>9, <2>10,
       <2>11, <2>12, <2>13, <2>14, <2>15, <2>16, <2>17, <2>18, <2>19,
       <2>20, <2>21, <2>22, <2>23, <2>24, <2>25, <2>26, <2>27, <2>28,
       <2>29, <2>30, <2>31, <2>32 DEF Next
<1> QED
  BY <1>1, <1>2, TypeCorrect, OwnershipCorrect, PassageCorrect, PTL DEF Spec

\* Every behaviour of the handler and the tasks it starts is one of the pack
\* response promised to the client: each step changes nothing the client sees or
\* is the one step of PackResponse that does.
THEOREM ImplementsPackResponse == Spec => ServesPack
<1>1. Init => Response!Init
  BY DEF Init, Response!Init, Excused
<1>2. TypeOK /\ Ownership /\ Passage /\ ErrorsExplained /\ [Next]_vars
          => [Response!Next]_Response!vars
  <2> SUFFICES ASSUME TypeOK, Ownership, Passage, ErrorsExplained, [Next]_vars
               PROVE  Response!Next \/ UNCHANGED Response!vars
    BY DEF Response!vars
  <2> DEFINE Step == Response!Next \/ UNCHANGED Response!vars
  <2>a. hpc \in HandlerBusy => client = "waiting"
    BY DEF Ownership
  <2> USE DEF Response!Next, Response!vars, Response!Reply, Response!Refuse,
              Response!Deliver, Response!End, Response!Break, Response!Leave,
              Response!Fail, Excused, HandlerBusy, hvars, gvars, cvars, pvars
  <2>1. ASSUME Connect PROVE Step
    BY <2>1, <2>a DEF Connect, Refuse
  <2>2. ASSUME Register PROVE Step
    BY <2>2, <2>a DEF Register, Refuse
  <2>3. ASSUME Dialed PROVE Step
    BY <2>3 DEF Dialed
  <2>4. ASSUME DialFails PROVE Step
    BY <2>4, <2>a DEF DialFails, Refuse
  <2>5. ASSUME Receive PROVE Step
    BY <2>5 DEF Receive
  <2>6. ASSUME WriteBody PROVE Step
    BY <2>6 DEF WriteBody
  <2>7. ASSUME CloseWrite PROVE Step
    BY <2>7, <2>a DEF CloseWrite
  <2>8. ASSUME WriteFails PROVE Step
    BY <2>8, <2>a DEF WriteFails, Refuse
  <2>9. ASSUME TakeRequest PROVE Step
    BY <2>9 DEF TakeRequest
  <2>10. ASSUME OpenOutbound PROVE Step
    BY <2>10 DEF OpenOutbound
  <2>11. ASSUME StopDriver PROVE Step
    BY <2>11 DEF StopDriver
  <2>12. ASSUME ReceiveCall PROVE Step
    BY <2>12 DEF ReceiveCall
  <2>13. ASSUME WriteChunk PROVE Step
    BY <2>13 DEF WriteChunk
  <2>14. ASSUME FinishPack PROVE Step
    BY <2>14 DEF FinishPack
  <2>15. ASSUME GitalyFails PROVE Step
    BY <2>15 DEF GitalyFails
  <2>16. ASSUME GitalyBroken PROVE Step
    BY <2>16 DEF GitalyBroken
  <2>17. ASSUME EndCall PROVE Step
    BY <2>17 DEF EndCall
  <2>18. ASSUME ReadChunk PROVE Step
    BY <2>18 DEF ReadChunk
  <2>19. ASSUME ReadEof PROVE Step
    BY <2>19 DEF ReadEof
  <2>20. ASSUME ReadFails PROVE Step
    BY <2>20 DEF ReadFails
  <2>21. ASSUME Send PROVE Step
    BY <2>21 DEF Send
  <2>22. ASSUME SendFails PROVE Step
    BY <2>22 DEF SendFails
  <2>23. ASSUME Join PROVE Step
    BY <2>23 DEF Join
  <2>24. ASSUME ReadBody PROVE Step
    <3>1. 1 \in 1..Len(chan) /\ Head(chan) = chan[1]
      BY <2>24, EmptySeq DEF ReadBody, TypeOK
    <3>2. CASE Head(chan) = ReadError
      BY <2>24, <3>1, <3>2 DEF ReadBody, ErrorsExplained, Clean
    <3>3. CASE Head(chan) # ReadError
      <4>1. chan[1] = Len(got) + 1 /\ chan[1] <= sent
        BY <2>24, <3>1, <3>3 DEF ReadBody, Passage
      <4>2. Len(got) < PackLen
        BY <4>1, ConstantsOK DEF TypeOK, ConstantsOK
      <4>3. got' = Append(got, Len(got) + 1) /\ UNCHANGED <<client, lost, gitaly>>
        BY <2>24, <3>1, <3>3, <4>1 DEF ReadBody
      <4>4. client = "reading"
        BY <2>24 DEF ReadBody
      <4> QED
        BY <4>2, <4>3, <4>4
    <3> QED
      BY <3>2, <3>3
  <2>25. ASSUME EndBody PROVE Step
    <3>1. client = "reading" /\ Clean /\ pump = "done" /\ chan = <<>>
      BY <2>25 DEF EndBody, Clean
    <3>2. /\ sent = Len(got) + Len(chan) + InHand + Len(window)
          /\ window = <<>> /\ (lost \/ gitaly \in {"finished", "failed"})
      BY <3>1 DEF Passage
    <3>3. InHand = 0 /\ Len(chan) = 0 /\ Len(window) = 0
      BY <3>1, <3>2 DEF InHand
    <3>4. Len(got) = PackLen \/ lost \/ gitaly = "failed"
      BY <3>2, <3>3 DEF Passage, TypeOK
    <3> QED
      BY <2>25, <3>1, <3>4 DEF EndBody
  <2>26. ASSUME Leave PROVE Step
    BY <2>26 DEF Leave
  <2>27. ASSUME LoseLink PROVE Step
    BY <2>27 DEF LoseLink
  <2>28. ASSUME NEW s \in Streams, AcceptInbound(s) PROVE Step
    BY <2>28 DEF AcceptInbound
  <2>29. ASSUME NEW s \in Streams, Handshake(s) PROVE Step
    BY <2>29 DEF Handshake
  <2>30. ASSUME NEW s \in Streams, Offer(s) PROVE Step
    BY <2>30 DEF Offer
  <2>31. ASSUME NEW s \in Streams, OpenStream(s) PROVE Step
    BY <2>31 DEF OpenStream
  <2>32. ASSUME Finished \/ UNCHANGED vars PROVE Step
    BY <2>32 DEF Finished, vars
  <2> QED
    BY <2>1, <2>2, <2>3, <2>4, <2>5, <2>6, <2>7, <2>8, <2>9, <2>10,
       <2>11, <2>12, <2>13, <2>14, <2>15, <2>16, <2>17, <2>18, <2>19,
       <2>20, <2>21, <2>22, <2>23, <2>24, <2>25, <2>26, <2>27, <2>28,
       <2>29, <2>30, <2>31, <2>32 DEF Next
<1> QED
  BY <1>1, <1>2, TypeCorrect, OwnershipCorrect, PassageCorrect, ErrorsHaveCause,
     PTL DEF Spec, ServesPack, Response!Spec
=============================================================================
