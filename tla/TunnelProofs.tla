---------------------------- MODULE TunnelProofs ----------------------------
(***************************************************************************)
(* Proofs about one tunnelled session, for any number of chunks, any       *)
(* window and any number of faults: who sends, who is told what and when,  *)
(* what is released, and that the data arrives in order and complete.      *)
(***************************************************************************)
EXTENDS Tunnel, ChunkProofs

USE DEF vars, streamVars, clientVars, routineVars, signalVars, frontVars, localVars,
        serverVars, goroutineVars, shareVars, targetVars
USE DEF Client, Server, ClientMeets, ServerMeets

----------------------------------------------------------------------------
(* Types: first what an operation on the stream does to its queues.         *)

LEMMA PayloadIsMessage ==
    ASSUME NEW n \in Nat
    PROVE  Payload(n) \in Message
BY DEF Payload, Message

LEMMA BeginningsAreSequences ==
    ASSUME NEW T, NEW s \in Seq(T), NEW b \in Beginnings(s)
    PROVE  b \in Seq(T)
<1>1. PICK k \in 0..Len(s) : b = SubSeq(s, 1, k)
  BY DEF Beginnings
<1>2. \A i \in 1..k : s[i] \in T
  BY ElementOfSeq
<1> QED BY <1>1, <1>2, SubSeqProperties

LEMMA ClientSendTypes ==
    ASSUME StreamTypeOK, NEW m \in Message, ClientSend(m)
    PROVE  StreamTypeOK'
BY DEF StreamTypeOK, ClientSend

LEMMA ServerSendTypes ==
    ASSUME StreamTypeOK, NEW m \in Message, ServerSend(m)
    PROVE  StreamTypeOK'
BY DEF StreamTypeOK, ServerSend

LEMMA ClientRecvTypes ==
    ASSUME StreamTypeOK, ClientRecv
    PROVE  StreamTypeOK' /\ Head(s2c) \in Message
<1>1. s2c' \in Seq(Message) /\ Head(s2c) \in Message
  BY HeadTailProperties DEF StreamTypeOK, ClientRecv
<1> QED BY <1>1 DEF StreamTypeOK, ClientRecv

LEMMA ServerRecvTypes ==
    ASSUME StreamTypeOK, ServerRecv
    PROVE  StreamTypeOK' /\ Head(c2s) \in Message
<1>1. c2s' \in Seq(Message) /\ Head(c2s) \in Message
  BY HeadTailProperties DEF StreamTypeOK, ServerRecv
<1> QED BY <1>1 DEF StreamTypeOK, ServerRecv

LEMMA LossTypes ==
    ASSUME StreamTypeOK, Cancel \/ Break
    PROVE  StreamTypeOK'
<1>1. c2s' \in Seq(Message) /\ s2c' \in Seq(Message)
  BY BeginningsAreSequences DEF StreamTypeOK, Cancel, Break
<1> QED BY <1>1 DEF StreamTypeOK, Cancel, Break

LEMMA AnswerTypes ==
    ASSUME ClientTypeOK, NEW kind \in Answers, Answer(kind)
    PROVE  out' \in Seq(Received)
<1>1. Signal(kind) \in Received
  BY DEF Signal, Received
<1> QED BY <1>1, AppendProperties DEF Answer, ClientTypeOK

LEMMA ClientKept == ClientTypeOK /\ UNCHANGED clientVars => ClientTypeOK'
BY DEF ClientTypeOK

LEMMA ServerKept == ServerTypeOK /\ UNCHANGED serverVars => ServerTypeOK'
BY DEF ServerTypeOK

LEMMA LocalFaultTypes == ClientTypeOK /\ (LocalGone \/ FrontStops) => ClientTypeOK'
<1>1. ClientTypeOK /\ LocalGone => ClientTypeOK'
  BY DEF ClientTypeOK, LocalGone
<1>2. ClientTypeOK /\ FrontStops => ClientTypeOK'
  BY DEF ClientTypeOK, FrontStops
<1> QED BY <1>1, <1>2

LEMMA ServerFaultTypes == ServerTypeOK /\ (TargetResets \/ ServerStops) => ServerTypeOK'
<1>1. ServerTypeOK /\ TargetResets => ServerTypeOK'
  BY DEF ServerTypeOK, TargetResets
<1>2. ServerTypeOK /\ ServerStops => ServerTypeOK'
  BY DEF ServerTypeOK, ServerStops
<1> QED BY <1>1, <1>2

LEMMA TypeInit == Init => TypeOK
<1> SUFFICES ASSUME Init PROVE TypeOK
  OBVIOUS
<1>1. StreamTypeOK
  BY DEF Init, StreamInit, StreamTypeOK
<1>2. ClientTypeOK
  <2>1. cancelled \in BOOLEAN /\ cctx \in BOOLEAN
    BY DEF Init, ClientInit
  <2> QED BY <2>1 DEF Init, ClientInit, ClientTypeOK, Results
<1>3. ServerTypeOK
  <2>1. ack \in BOOLEAN /\ ackclosed \in BOOLEAN /\ sctx \in BOOLEAN
    BY DEF Init, ServerInit
  <2> QED BY <2>1 DEF Init, ServerInit, ServerTypeOK, Errors
<1> QED BY <1>1, <1>2, <1>3 DEF TypeOK

(* Every action keeps the types of the stream, of the client's side and of  *)
(* the server's side.                                                       *)
LEMMA TypeStep == TypeOK /\ [Next]_vars => TypeOK'
<1> USE DEF TypeOK
<1>1. ASSUME TypeOK, Next PROVE TypeOK'
  <2>1. CASE Client(OpenStream)
    <3>1. StreamTypeOK'
      BY <1>1, <2>1 DEF StreamTypeOK, OpenStream, ProxyReturns, FrontDone
    <3>2. ClientTypeOK'
      BY <1>1, <2>1 DEF ClientTypeOK, Results, OpenStream, ProxyReturns, FrontDone
    <3>3. ServerTypeOK'
      BY <1>1, <2>1 DEF ServerTypeOK
    <3> QED BY <3>1, <3>2, <3>3
  <2>2. CASE Client(Handshake)
    <3>1. StreamTypeOK'
      BY <1>1, <2>2, ClientSendTypes DEF StreamTypeOK, Handshake, Signal, Message
    <3>2. ClientTypeOK'
      BY <1>1, <2>2 DEF ClientTypeOK, Results, Handshake, ClientSend, Signal
    <3>3. ServerTypeOK'
      BY <1>1, <2>2 DEF ServerTypeOK
    <3> QED BY <3>1, <3>2, <3>3
  <2>3. CASE Client(HandshakeFails)
    <3>1. StreamTypeOK'
      BY <1>1, <2>3, ClientSendTypes DEF StreamTypeOK, HandshakeFails, Signal, Message
    <3>2. cancelled' \in BOOLEAN
      BY <1>1, <2>3 DEF ClientTypeOK, HandshakeFails
    <3>3. ClientTypeOK'
      BY <1>1, <2>3, <3>2 DEF ClientTypeOK, Results, HandshakeFails, ProxyReturns,
         ClientSend, ClientSendError, Signal
    <3>4. ServerTypeOK'
      BY <1>1, <2>3 DEF ServerTypeOK
    <3> QED BY <3>1, <3>3, <3>4
  <2>4. CASE Client(ProxyWaited)
    <3>1. StreamTypeOK'
      BY <1>1, <2>4 DEF StreamTypeOK, ProxyWaited
    <3>2. ClientTypeOK'
      BY <1>1, <2>4 DEF ClientTypeOK, Results, ProxyWaited, ProxyReturns
    <3>3. ServerTypeOK'
      BY <1>1, <2>4 DEF ServerTypeOK
    <3> QED BY <3>1, <3>2, <3>3
  <2>5. CASE Client(StreamCancelled)
    <3>1. StreamTypeOK'
      BY <1>1, <2>5, LossTypes DEF StreamTypeOK, StreamCancelled
    <3>2. ClientTypeOK'
      BY <1>1, <2>5 DEF ClientTypeOK, Results, StreamCancelled, Cancel, Beginnings
    <3>3. ServerTypeOK'
      BY <1>1, <2>5 DEF ServerTypeOK
    <3> QED BY <3>1, <3>2, <3>3
  <2>6. CASE Client(RecvDown)
    <3>1. StreamTypeOK'
      BY <1>1, <2>6, ClientRecvTypes DEF StreamTypeOK, RecvDown
    <3>2. ClientTypeOK'
      BY <1>1, <2>6, ClientRecvTypes
         DEF ClientTypeOK, Results, RecvDown, ClientRecv, Message
    <3>3. ServerTypeOK'
      BY <1>1, <2>6 DEF ServerTypeOK
    <3> QED BY <3>1, <3>2, <3>3
  <2>7. CASE Client(RecvDownFails)
    <3>1. StreamTypeOK'
      BY <1>1, <2>7 DEF StreamTypeOK, RecvDownFails
    <3>2. ClientTypeOK'
      BY <1>1, <2>7 DEF ClientTypeOK, Results, RecvDownFails, ClientRecvError
    <3>3. ServerTypeOK'
      BY <1>1, <2>7 DEF ServerTypeOK
    <3> QED BY <3>1, <3>2, <3>3
  <2>8. CASE Client(WriteDown)
    <3>1. StreamTypeOK'
      BY <1>1, <2>8 DEF StreamTypeOK, WriteDown
    <3>0. Append(out, Payload(cchunk)) \in Seq(Received)
      BY <1>1 DEF ClientTypeOK, Payload, Received
    <3>2. out' \in Seq(Received)
      BY <1>1, <2>8, <3>0 DEF ClientTypeOK, WriteDown
    <3>3. ClientTypeOK'
      BY <1>1, <2>8, <3>2 DEF ClientTypeOK, Results, WriteDown
    <3>4. ServerTypeOK'
      BY <1>1, <2>8 DEF ServerTypeOK
    <3> QED BY <3>1, <3>3, <3>4
  <2>9. CASE Client(DownEnds)
    <3>1. StreamTypeOK'
      BY <1>1, <2>9 DEF StreamTypeOK, DownEnds
    <3>2. ClientTypeOK'
      BY <1>1, <2>9 DEF ClientTypeOK, Results, DownEnds, First
    <3>3. ServerTypeOK'
      BY <1>1, <2>9 DEF ServerTypeOK
    <3> QED BY <3>1, <3>2, <3>3
  <2>10. CASE Client(DownCancels)
    <3>1. StreamTypeOK'
      BY <1>1, <2>10 DEF StreamTypeOK, DownCancels
    <3>2. ClientTypeOK'
      BY <1>1, <2>10 DEF ClientTypeOK, Results, DownCancels
    <3>3. ServerTypeOK'
      BY <1>1, <2>10 DEF ServerTypeOK
    <3> QED BY <3>1, <3>2, <3>3
  <2>11. CASE Client(DownDrained)
    <3>1. StreamTypeOK'
      BY <1>1, <2>11 DEF StreamTypeOK, DownDrained
    <3>2. ClientTypeOK'
      BY <1>1, <2>11 DEF ClientTypeOK, Results, DownDrained, First
    <3>3. ServerTypeOK'
      BY <1>1, <2>11 DEF ServerTypeOK
    <3> QED BY <3>1, <3>2, <3>3
  <2>12. CASE Client(ReadUp)
    <3>1. StreamTypeOK'
      BY <1>1, <2>12 DEF StreamTypeOK, ReadUp
    <3>2. lq' \in Seq(Nat) /\ uchunk' \in Nat
      BY <1>1, <2>12, HeadTailProperties DEF ClientTypeOK, ReadUp
    <3>3. ClientTypeOK'
      BY <1>1, <2>12, <3>2 DEF ClientTypeOK, Results, ReadUp, Reachable
    <3>4. ServerTypeOK'
      BY <1>1, <2>12 DEF ServerTypeOK
    <3> QED BY <3>1, <3>3, <3>4
  <2>13. CASE Client(SendUp)
    <3>1. StreamTypeOK'
      BY <1>1, <2>13, ClientSendTypes, PayloadIsMessage
         DEF StreamTypeOK, SendUp, ClientTypeOK
    <3>2. ClientTypeOK'
      BY <1>1, <2>13 DEF ClientTypeOK, Results, SendUp, ClientSend, ClientSendError, Payload
    <3>3. ServerTypeOK'
      BY <1>1, <2>13 DEF ServerTypeOK
    <3> QED BY <3>1, <3>2, <3>3
  <2>14. CASE Client(UpEnds)
    <3>1. StreamTypeOK'
      BY <1>1, <2>14 DEF StreamTypeOK, UpEnds
    <3>2. ClientTypeOK'
      BY <1>1, <2>14 DEF ClientTypeOK, Results, UpEnds, First
    <3>3. ServerTypeOK'
      BY <1>1, <2>14 DEF ServerTypeOK
    <3> QED BY <3>1, <3>2, <3>3
  <2>15. CASE Client(AckSelect)
    <3>1. StreamTypeOK'
      BY <1>1, <2>15 DEF StreamTypeOK, AckSelect
    <3>2. ClientTypeOK'
      BY <1>1, <2>15 DEF ClientTypeOK, Results, AckSelect, First
    <3>3. ServerTypeOK'
      BY <1>1, <2>15 DEF ServerTypeOK
    <3> QED BY <3>1, <3>2, <3>3
  <2>16. CASE Client(AckOffered)
    <3>1. StreamTypeOK'
      BY <1>1, <2>16 DEF StreamTypeOK, AckOffered
    <3>2. ClientTypeOK'
      BY <1>1, <2>16 DEF ClientTypeOK, Results, AckOffered
    <3>3. ServerTypeOK'
      BY <1>1, <2>16 DEF ServerTypeOK
    <3> QED BY <3>1, <3>2, <3>3
  <2>17. CASE Client(AckCancelled)
    <3>1. StreamTypeOK'
      BY <1>1, <2>17 DEF StreamTypeOK, AckCancelled
    <3>2. ClientTypeOK'
      BY <1>1, <2>17 DEF ClientTypeOK, Results, AckCancelled, First
    <3>3. ServerTypeOK'
      BY <1>1, <2>17 DEF ServerTypeOK
    <3> QED BY <3>1, <3>2, <3>3
  <2>18. CASE Client(ReplySuccess)
    <3>1. StreamTypeOK'
      BY <1>1, <2>18 DEF StreamTypeOK, ReplySuccess
    <3>2. out' \in Seq(Received)
      BY <1>1, <2>18, AnswerTypes DEF ReplySuccess, Answers
    <3>3. ClientTypeOK'
      BY <1>1, <2>18, <3>2 DEF ClientTypeOK, Results, ReplySuccess, First
    <3>4. ServerTypeOK'
      BY <1>1, <2>18 DEF ServerTypeOK
    <3> QED BY <3>1, <3>3, <3>4
  <2>19. CASE Client(ReplyFailure)
    <3>1. StreamTypeOK'
      BY <1>1, <2>19 DEF StreamTypeOK, ReplyFailure
    <3>2. out' \in Seq(Received)
      BY <1>1, <2>19, AnswerTypes DEF ClientTypeOK, ReplyFailure, Answers
    <3>3. ClientTypeOK'
      BY <1>1, <2>19, <3>2 DEF ClientTypeOK, Results, ReplyFailure, First
    <3>4. ServerTypeOK'
      BY <1>1, <2>19 DEF ServerTypeOK
    <3> QED BY <3>1, <3>3, <3>4
  <2>20. CASE Client(ProxyRecorded)
    <3>1. StreamTypeOK'
      BY <1>1, <2>20 DEF StreamTypeOK, ProxyRecorded
    <3>2. ClientTypeOK'
      BY <1>1, <2>20 DEF ClientTypeOK, Results, ProxyRecorded, First
    <3>3. ServerTypeOK'
      BY <1>1, <2>20 DEF ServerTypeOK
    <3> QED BY <3>1, <3>2, <3>3
  <2>21. CASE Client(HandlerEnds)
    <3>1. StreamTypeOK'
      BY <1>1, <2>21 DEF StreamTypeOK, HandlerEnds
    <3>2. out' \in Seq(Received)
      BY <1>1, <2>21, AnswerTypes DEF ClientTypeOK, HandlerEnds, Answers
    <3>3. ClientTypeOK'
      BY <1>1, <2>21, <3>2 DEF ClientTypeOK, Results, HandlerEnds
    <3>4. ServerTypeOK'
      BY <1>1, <2>21 DEF ServerTypeOK
    <3> QED BY <3>1, <3>3, <3>4
  <2>22. CASE Client(LocalSends)
    <3>1. StreamTypeOK'
      BY <1>1, <2>22 DEF StreamTypeOK, LocalSends
    <3>2. ClientTypeOK'
      BY <1>1, <2>22 DEF ClientTypeOK, Results, LocalSends
    <3>3. ServerTypeOK'
      BY <1>1, <2>22 DEF ServerTypeOK
    <3> QED BY <3>1, <3>2, <3>3
  <2>23. CASE Client(LocalEOF)
    <3>1. StreamTypeOK'
      BY <1>1, <2>23 DEF StreamTypeOK, LocalEOF
    <3>2. ClientTypeOK'
      BY <1>1, <2>23 DEF ClientTypeOK, Results, LocalEOF
    <3>3. ServerTypeOK'
      BY <1>1, <2>23 DEF ServerTypeOK
    <3> QED BY <3>1, <3>2, <3>3
  <2>24. CASE Server(Refuse)
    <3>1. StreamTypeOK'
      BY <1>1, <2>24 DEF StreamTypeOK, Refuse
    <3>2. ServerTypeOK'
      BY <1>1, <2>24 DEF ServerTypeOK, Errors, Refuse
    <3>3. ClientTypeOK'
      BY <1>1, <2>24 DEF ClientTypeOK
    <3> QED BY <3>1, <3>2, <3>3
  <2>25. CASE Server(Serve)
    <3>1. StreamTypeOK'
      BY <1>1, <2>25 DEF StreamTypeOK, Serve
    <3>2. ServerTypeOK'
      BY <1>1, <2>25 DEF ServerTypeOK, Errors, Serve
    <3>3. ClientTypeOK'
      BY <1>1, <2>25 DEF ClientTypeOK
    <3> QED BY <3>1, <3>2, <3>3
  <2>26. CASE Server(UpHeader)
    <3>1. StreamTypeOK'
      BY <1>1, <2>26, ServerRecvTypes DEF StreamTypeOK, UpHeader
    <3>2. ackclosed' \in BOOLEAN
      BY <1>1, <2>26 DEF ServerTypeOK, UpHeader, UpReturn
    <3>3. ServerTypeOK'
      BY <1>1, <2>26, <3>2 DEF ServerTypeOK, Errors, UpHeader, ServerRecv, UpReturn
    <3>4. ClientTypeOK'
      BY <1>1, <2>26 DEF ClientTypeOK
    <3> QED BY <3>1, <3>3, <3>4
  <2>27. CASE Server(UpNoHeader)
    <3>1. StreamTypeOK'
      BY <1>1, <2>27 DEF StreamTypeOK, UpNoHeader
    <3>2. ServerTypeOK'
      BY <1>1, <2>27 DEF ServerTypeOK, Errors, UpNoHeader, ServerRecvError, UpReturn
    <3>3. ClientTypeOK'
      BY <1>1, <2>27 DEF ClientTypeOK
    <3> QED BY <3>1, <3>2, <3>3
  <2>28. CASE Server(UpDialled)
    <3>1. StreamTypeOK'
      BY <1>1, <2>28 DEF StreamTypeOK, UpDialled
    <3>2. ServerTypeOK'
      BY <1>1, <2>28 DEF ServerTypeOK, Errors, UpDialled
    <3>3. ClientTypeOK'
      BY <1>1, <2>28 DEF ClientTypeOK
    <3> QED BY <3>1, <3>2, <3>3
  <2>29. CASE Server(UpDialFails)
    <3>1. StreamTypeOK'
      BY <1>1, <2>29 DEF StreamTypeOK, UpDialFails
    <3>2. ServerTypeOK'
      BY <1>1, <2>29 DEF ServerTypeOK, Errors, UpDialFails
    <3>3. ClientTypeOK'
      BY <1>1, <2>29 DEF ClientTypeOK
    <3> QED BY <3>1, <3>2, <3>3
  <2>30. CASE Server(UpSendError)
    <3>1. StreamTypeOK'
      BY <1>1, <2>30, ServerSendTypes DEF StreamTypeOK, UpSendError, Signal, Message
    <3>2. ServerTypeOK'
      BY <1>1, <2>30 DEF ServerTypeOK, Errors, UpSendError, ServerSend, ServerSendError,
         UpReturn, Signal
    <3>3. ClientTypeOK'
      BY <1>1, <2>30 DEF ClientTypeOK
    <3> QED BY <3>1, <3>2, <3>3
  <2>31. CASE Server(UpReceiverEnded)
    <3>1. StreamTypeOK'
      BY <1>1, <2>31 DEF StreamTypeOK, UpReceiverEnded
    <3>2. ServerTypeOK'
      BY <1>1, <2>31 DEF ServerTypeOK, Errors, UpReceiverEnded, UpReturn
    <3>3. ClientTypeOK'
      BY <1>1, <2>31 DEF ClientTypeOK
    <3> QED BY <3>1, <3>2, <3>3
  <2>32. CASE Server(UpCancelled)
    <3>1. StreamTypeOK'
      BY <1>1, <2>32 DEF StreamTypeOK, UpCancelled
    <3>2. ServerTypeOK'
      BY <1>1, <2>32 DEF ServerTypeOK, Errors, UpCancelled, UpReturn, CloseTarget
    <3>3. ClientTypeOK'
      BY <1>1, <2>32 DEF ClientTypeOK
    <3> QED BY <3>1, <3>2, <3>3
  <2>33. CASE Server(UpGroup)
    <3>1. StreamTypeOK'
      BY <1>1, <2>33 DEF StreamTypeOK, UpGroup
    <3>2. ServerTypeOK'
      BY <1>1, <2>33 DEF ServerTypeOK, Errors, UpGroup
    <3>3. ClientTypeOK'
      BY <1>1, <2>33 DEF ClientTypeOK
    <3> QED BY <3>1, <3>2, <3>3
  <2>34. CASE Server(RecvUp)
    <3>1. StreamTypeOK'
      BY <1>1, <2>34, ServerRecvTypes DEF StreamTypeOK, RecvUp
    <3>2. ServerTypeOK'
      BY <1>1, <2>34, ServerRecvTypes DEF ServerTypeOK, Errors, RecvUp, ServerRecv, Message
    <3>3. ClientTypeOK'
      BY <1>1, <2>34 DEF ClientTypeOK
    <3> QED BY <3>1, <3>2, <3>3
  <2>35. CASE Server(RecvUpFails)
    <3>1. StreamTypeOK'
      BY <1>1, <2>35 DEF StreamTypeOK, RecvUpFails
    <3>2. ServerTypeOK'
      BY <1>1, <2>35 DEF ServerTypeOK, Errors, RecvUpFails, ServerRecvError
    <3>3. ClientTypeOK'
      BY <1>1, <2>35 DEF ClientTypeOK
    <3> QED BY <3>1, <3>2, <3>3
  <2>36. CASE Server(WriteUp)
    <3>1. StreamTypeOK'
      BY <1>1, <2>36 DEF StreamTypeOK, WriteUp
    <3>0. Append(tgot, schunk) \in Seq(Nat)
      BY <1>1 DEF ServerTypeOK
    <3>2. tgot' \in Seq(Nat)
      BY <1>1, <2>36, <3>0 DEF ServerTypeOK, WriteUp
    <3>3. ServerTypeOK'
      BY <1>1, <2>36, <3>2 DEF ServerTypeOK, Errors, WriteUp
    <3>4. ClientTypeOK'
      BY <1>1, <2>36 DEF ClientTypeOK
    <3> QED BY <3>1, <3>3, <3>4
  <2>37. CASE Server(DownAwait)
    <3>1. StreamTypeOK'
      BY <1>1, <2>37 DEF StreamTypeOK, DownAwait
    <3>2. ack' \in BOOLEAN
      BY <1>1, <2>37 DEF ServerTypeOK, DownAwait
    <3>3. ServerTypeOK'
      BY <1>1, <2>37, <3>2 DEF ServerTypeOK, Errors, DownAwait
    <3>4. ClientTypeOK'
      BY <1>1, <2>37 DEF ClientTypeOK
    <3> QED BY <3>1, <3>3, <3>4
  <2>38. CASE Server(DownAccept)
    <3>1. StreamTypeOK'
      BY <1>1, <2>38, ServerSendTypes DEF StreamTypeOK, DownAccept, Signal, Message
    <3>2. ServerTypeOK'
      BY <1>1, <2>38 DEF ServerTypeOK, Errors, DownAccept, ServerSend, ServerSendError,
         Signal
    <3>3. ClientTypeOK'
      BY <1>1, <2>38 DEF ClientTypeOK
    <3> QED BY <3>1, <3>2, <3>3
  <2>39. CASE Server(DownRead)
    <3>1. StreamTypeOK'
      BY <1>1, <2>39 DEF StreamTypeOK, DownRead
    <3>2. ServerTypeOK'
      BY <1>1, <2>39, HeadTailProperties DEF ServerTypeOK, Errors, DownRead
    <3>3. ClientTypeOK'
      BY <1>1, <2>39 DEF ClientTypeOK
    <3> QED BY <3>1, <3>2, <3>3
  <2>40. CASE Server(DownReadEnds)
    <3>1. StreamTypeOK'
      BY <1>1, <2>40 DEF StreamTypeOK, DownReadEnds
    <3>2. ServerTypeOK'
      BY <1>1, <2>40 DEF ServerTypeOK, Errors, DownReadEnds, DownReturn
    <3>3. ClientTypeOK'
      BY <1>1, <2>40 DEF ClientTypeOK
    <3> QED BY <3>1, <3>2, <3>3
  <2>41. CASE Server(DownSend)
    <3>1. StreamTypeOK'
      BY <1>1, <2>41, ServerSendTypes, PayloadIsMessage
         DEF StreamTypeOK, DownSend, ServerTypeOK
    <3>2. ServerTypeOK'
      BY <1>1, <2>41 DEF ServerTypeOK, Errors, DownSend, ServerSend, ServerSendError,
         DownReturn, Payload
    <3>3. ClientTypeOK'
      BY <1>1, <2>41 DEF ClientTypeOK
    <3> QED BY <3>1, <3>2, <3>3
  <2>42. CASE Server(DownGroup)
    <3>1. StreamTypeOK'
      BY <1>1, <2>42 DEF StreamTypeOK, DownGroup
    <3>2. ServerTypeOK'
      BY <1>1, <2>42 DEF ServerTypeOK, Errors, DownGroup
    <3>3. ClientTypeOK'
      BY <1>1, <2>42 DEF ClientTypeOK
    <3> QED BY <3>1, <3>2, <3>3
  <2>43. CASE Server(Watch)
    <3>1. StreamTypeOK'
      BY <1>1, <2>43 DEF StreamTypeOK, Watch
    <3>2. ServerTypeOK'
      BY <1>1, <2>43 DEF ServerTypeOK, Errors, Watch, CloseTarget
    <3>3. ClientTypeOK'
      BY <1>1, <2>43 DEF ClientTypeOK
    <3> QED BY <3>1, <3>2, <3>3
  <2>44. CASE Server(HandlerLeaves)
    <3>1. StreamTypeOK'
      BY <1>1, <2>44 DEF StreamTypeOK, HandlerLeaves
    <3>2. ServerTypeOK'
      BY <1>1, <2>44 DEF ServerTypeOK, Errors, HandlerLeaves, HandlerReturns, CloseTarget
    <3>3. ClientTypeOK'
      BY <1>1, <2>44 DEF ClientTypeOK
    <3> QED BY <3>1, <3>2, <3>3
  <2>45. CASE Server(HandlerWaited)
    <3>1. StreamTypeOK'
      BY <1>1, <2>45 DEF StreamTypeOK, HandlerWaited
    <3>2. ServerTypeOK'
      BY <1>1, <2>45 DEF ServerTypeOK, Errors, HandlerWaited
    <3>3. ClientTypeOK'
      BY <1>1, <2>45 DEF ClientTypeOK
    <3> QED BY <3>1, <3>2, <3>3
  <2>46. CASE Server(HandlerSendsEOF)
    <3>0. Append(s2c, Signal("eof")) \in Seq(Message) /\ <<>> \in Seq(Message)
      BY <1>1 DEF StreamTypeOK, Signal, Message
    <3>1. StreamTypeOK'
      BY <1>1, <2>46, <3>0 DEF StreamTypeOK, HandlerSendsEOF
    <3>2. ServerTypeOK'
      BY <1>1, <2>46 DEF ServerTypeOK, Errors, HandlerSendsEOF, HandlerReturns,
         CloseTarget, ServerSendError, Signal
    <3>3. ClientTypeOK'
      BY <1>1, <2>46 DEF ClientTypeOK
    <3> QED BY <3>1, <3>2, <3>3
  <2>47. CASE Server(TargetSends)
    <3>1. StreamTypeOK'
      BY <1>1, <2>47 DEF StreamTypeOK, TargetSends
    <3>2. ServerTypeOK'
      BY <1>1, <2>47 DEF ServerTypeOK, Errors, TargetSends
    <3>3. ClientTypeOK'
      BY <1>1, <2>47 DEF ClientTypeOK
    <3> QED BY <3>1, <3>2, <3>3
  <2>48. CASE Server(TargetEOF)
    <3>1. StreamTypeOK'
      BY <1>1, <2>48 DEF StreamTypeOK, TargetEOF
    <3>2. ServerTypeOK'
      BY <1>1, <2>48 DEF ServerTypeOK, Errors, TargetEOF
    <3>3. ClientTypeOK'
      BY <1>1, <2>48 DEF ClientTypeOK
    <3> QED BY <3>1, <3>2, <3>3
  <2>49. CASE Server(ForcedStop)
    <3>1. StreamTypeOK'
      BY <1>1, <2>49, LossTypes DEF StreamTypeOK, ForcedStop
    <3>2. ServerTypeOK'
      BY <1>1, <2>49 DEF ServerTypeOK, Errors, ForcedStop, Break, Beginnings
    <3>3. ClientTypeOK'
      BY <1>1, <2>49 DEF ClientTypeOK
    <3> QED BY <3>1, <3>2, <3>3
  <2>50. CASE ClientMeets("local gone", LocalGone)
    <3> HIDE DEF clientVars, serverVars
    <3>1. StreamTypeOK'
      BY <1>1, <2>50 DEF StreamTypeOK, LocalGone
    <3> QED BY <1>1, <2>50, <3>1, LocalFaultTypes, ServerKept
  <2>51. CASE ClientMeets("front stops", FrontStops)
    <3> HIDE DEF clientVars, serverVars
    <3>1. StreamTypeOK'
      BY <1>1, <2>51 DEF StreamTypeOK, FrontStops
    <3> QED BY <1>1, <2>51, <3>1, LocalFaultTypes, ServerKept
  <2>52. CASE ServerMeets("target resets", TargetResets)
    <3> HIDE DEF clientVars, serverVars
    <3>1. StreamTypeOK'
      BY <1>1, <2>52 DEF StreamTypeOK, TargetResets
    <3> QED BY <1>1, <2>52, <3>1, ServerFaultTypes, ClientKept
  <2>53. CASE ServerMeets("server stops", ServerStops)
    <3> HIDE DEF clientVars, serverVars
    <3>1. StreamTypeOK'
      BY <1>1, <2>53 DEF StreamTypeOK, ServerStops
    <3> QED BY <1>1, <2>53, <3>1, ServerFaultTypes, ClientKept
  <2>54. CASE ServerMeets("stream breaks", StreamBreaks)
    <3> HIDE DEF clientVars, serverVars
    <3>1. StreamTypeOK'
      BY <1>1, <2>54, LossTypes DEF StreamBreaks
    <3> QED BY <1>1, <2>54, <3>1, ServerKept, ClientKept DEF StreamBreaks
  <2> QED
    BY <1>1, <2>1, <2>2, <2>3, <2>4, <2>5, <2>6, <2>7, <2>8, <2>9, <2>10, <2>11, <2>12,
       <2>13, <2>14, <2>15, <2>16, <2>17, <2>18, <2>19, <2>20, <2>21, <2>22, <2>23,
       <2>24, <2>25, <2>26, <2>27, <2>28, <2>29, <2>30, <2>31, <2>32, <2>33, <2>34,
       <2>35, <2>36, <2>37, <2>38, <2>39, <2>40, <2>41, <2>42, <2>43, <2>44, <2>45,
       <2>46, <2>47, <2>48, <2>49, <2>50, <2>51, <2>52, <2>53, <2>54 DEF Next
<1>2. ASSUME TypeOK, UNCHANGED vars PROVE TypeOK'
  BY <1>2 DEF StreamTypeOK, ClientTypeOK, ServerTypeOK
<1> QED BY <1>1, <1>2

(* The local client, both forwarders, the stream and the target stay within *)
(* their types: in particular no error value of one layer leaks into the    *)
(* layer above it.                                                          *)
THEOREM TunnelTypes == Spec => []TypeOK
<1>1. Init => TypeOK
  BY TypeInit
<1>2. TypeOK /\ [Next]_vars => TypeOK'
  BY TypeStep
<1> QED BY <1>1, <1>2, PTL DEF Spec

----------------------------------------------------------------------------
(* The server's side: how far its goroutines are, one relative to the other. *)

Dialled == {"select", "ret", "done"}
Downloading == {"accept", "read", "send", "sendlast"}

(* The members of the errgroup run inside the handler; the download starts  *)
(* with the ack, which the upload gives after its dial; nothing is dialled  *)
(* once the deferred Close has run.                                         *)
ServerOrder ==
    /\ handler = "none" => sup = "idle" /\ sdown = "idle"
    /\ handler \in {"sendeof", "returned"} => sup = "done" /\ sdown = "done"
    /\ ack = TRUE \/ sdown \in Downloading => sup \in Dialled
    /\ handler = "returned" => conn # "open"

LEMMA ServerOrderInit == Init => ServerOrder
BY DEF Init, ServerInit, ServerOrder, Downloading

LEMMA ServerOrderStep == ServerOrder /\ [Next]_vars => ServerOrder'
<1> USE DEF ServerOrder, Dialled, Downloading
<1>1. ASSUME ServerOrder, Next PROVE ServerOrder'
  <2>1. CASE Server(Refuse)
    BY <1>1, <2>1 DEF Refuse
  <2>2. CASE Server(Serve)
    BY <1>1, <2>2 DEF Serve
  <2>3. CASE Server(UpHeader)
    BY <1>1, <2>3 DEF UpHeader, UpReturn
  <2>4. CASE Server(UpNoHeader)
    BY <1>1, <2>4 DEF UpNoHeader, UpReturn
  <2>5. CASE Server(UpDialled)
    BY <1>1, <2>5 DEF UpDialled
  <2>6. CASE Server(UpDialFails)
    BY <1>1, <2>6 DEF UpDialFails
  <2>7. CASE Server(UpSendError)
    BY <1>1, <2>7 DEF UpSendError, UpReturn
  <2>8. CASE Server(UpReceiverEnded)
    BY <1>1, <2>8 DEF UpReceiverEnded, UpReturn
  <2>9. CASE Server(UpCancelled)
    BY <1>1, <2>9 DEF UpCancelled, UpReturn, CloseTarget
  <2>10. CASE Server(UpGroup)
    BY <1>1, <2>10 DEF UpGroup
  <2>11. CASE Server(RecvUp)
    BY <1>1, <2>11 DEF RecvUp
  <2>12. CASE Server(RecvUpFails)
    BY <1>1, <2>12 DEF RecvUpFails
  <2>13. CASE Server(WriteUp)
    BY <1>1, <2>13 DEF WriteUp
  <2>14. CASE Server(DownAwait)
    BY <1>1, <2>14 DEF DownAwait
  <2>15. CASE Server(DownAccept)
    BY <1>1, <2>15 DEF DownAccept
  <2>16. CASE Server(DownRead)
    BY <1>1, <2>16 DEF DownRead
  <2>17. CASE Server(DownReadEnds)
    BY <1>1, <2>17 DEF DownReadEnds, DownReturn
  <2>18. CASE Server(DownSend)
    BY <1>1, <2>18 DEF DownSend, DownReturn
  <2>19. CASE Server(DownGroup)
    BY <1>1, <2>19 DEF DownGroup
  <2>20. CASE Server(Watch)
    BY <1>1, <2>20 DEF Watch, CloseTarget
  <2>21. CASE Server(HandlerLeaves)
    BY <1>1, <2>21 DEF HandlerLeaves, HandlerReturns, CloseTarget
  <2>22. CASE Server(HandlerWaited)
    BY <1>1, <2>22 DEF HandlerWaited
  <2>23. CASE Server(HandlerSendsEOF)
    BY <1>1, <2>23 DEF HandlerSendsEOF, HandlerReturns, CloseTarget
  <2>24. CASE Server(TargetSends)
    BY <1>1, <2>24 DEF TargetSends
  <2>25. CASE Server(TargetEOF)
    BY <1>1, <2>25 DEF TargetEOF
  <2>26. CASE Server(ForcedStop)
    BY <1>1, <2>26 DEF ForcedStop
  <2>27. CASE ServerMeets("target resets", TargetResets)
    BY <1>1, <2>27 DEF TargetResets
  <2>28. CASE ServerMeets("server stops", ServerStops)
    BY <1>1, <2>28 DEF ServerStops
  <2>29. CASE ServerMeets("stream breaks", StreamBreaks)
    BY <1>1, <2>29 DEF StreamBreaks
  <2>30. CASE UNCHANGED serverVars
    BY <1>1, <2>30
  <2> QED
    BY <1>1, <2>1, <2>2, <2>3, <2>4, <2>5, <2>6, <2>7, <2>8, <2>9, <2>10, <2>11, <2>12,
       <2>13, <2>14, <2>15, <2>16, <2>17, <2>18, <2>19, <2>20, <2>21, <2>22, <2>23,
       <2>24, <2>25, <2>26, <2>27, <2>28, <2>29, <2>30 DEF Next
<1>2. ASSUME ServerOrder, UNCHANGED vars PROVE ServerOrder'
  BY <1>2
<1> QED BY <1>1, <1>2

(* The goroutines of Server.Proxy keep their order in every reachable state. *)
THEOREM ServerInvariant == Spec => []ServerOrder
BY ServerOrderInit, ServerOrderStep, PTL DEF Spec

(* At most one goroutine of the server is inside Stream.Send: the upload    *)
(* sends only before the ack, the download only after it, and Server.Proxy  *)
(* only after both have returned.                                           *)
THEOREM OneSenderAtATime == Spec => []SingleSender
<1>1. ServerOrder => SingleSender
  BY DEF ServerOrder, SingleSender, SendingUp, SendingDown, SendingEnd, Dialled, Downloading
<1> QED BY <1>1, ServerInvariant, PTL

(* No target connection outlives Server.Proxy, whichever of the watcher,    *)
(* the upload and the deferred Close came first.                            *)
THEOREM HandlerReleasesTarget == Spec => []TargetReleased
<1>1. ServerOrder => TargetReleased
  BY DEF ServerOrder, TargetReleased
<1> QED BY <1>1, ServerInvariant, PTL

----------------------------------------------------------------------------
(* The client's side: the receive goroutine and those who wait for it.      *)

(* The receive goroutine starts with the forwarder and is over when the     *)
(* download is, and the download is over when Client.Proxy returns.         *)
ClientOrder ==
    /\ proxy \in {"open", "handshake"} => crecv = "idle"
    /\ cdown = "done" => crecv = "ended"
    /\ proxy \in {"returned", "recorded"} => crecv \in {"idle", "ended"}
    /\ crecv = "idle" => cdown = "idle"

LEMMA ClientOrderInit == Init => ClientOrder
BY DEF Init, ClientInit, ClientOrder

LEMMA ClientOrderStep == ClientOrder /\ [Next]_vars => ClientOrder'
<1> USE DEF ClientOrder
<1>1. ASSUME ClientOrder, Next PROVE ClientOrder'
  <2>1. CASE Client(OpenStream)
    BY <1>1, <2>1 DEF OpenStream, ProxyReturns
  <2>2. CASE Client(Handshake)
    BY <1>1, <2>2 DEF Handshake
  <2>3. CASE Client(HandshakeFails)
    BY <1>1, <2>3 DEF HandshakeFails, ProxyReturns
  <2>4. CASE Client(ProxyWaited)
    BY <1>1, <2>4 DEF ProxyWaited, ProxyReturns
  <2>5. CASE Client(StreamCancelled)
    BY <1>1, <2>5 DEF StreamCancelled
  <2>6. CASE Client(RecvDown)
    BY <1>1, <2>6 DEF RecvDown
  <2>7. CASE Client(RecvDownFails)
    BY <1>1, <2>7 DEF RecvDownFails
  <2>8. CASE Client(WriteDown)
    BY <1>1, <2>8 DEF WriteDown
  <2>9. CASE Client(DownEnds)
    BY <1>1, <2>9 DEF DownEnds
  <2>10. CASE Client(DownCancels)
    BY <1>1, <2>10 DEF DownCancels
  <2>11. CASE Client(DownDrained)
    BY <1>1, <2>11 DEF DownDrained
  <2>12. CASE Client(ReadUp)
    BY <1>1, <2>12 DEF ReadUp
  <2>13. CASE Client(SendUp)
    BY <1>1, <2>13 DEF SendUp
  <2>14. CASE Client(UpEnds)
    BY <1>1, <2>14 DEF UpEnds
  <2>15. CASE Client(AckSelect)
    BY <1>1, <2>15 DEF AckSelect
  <2>16. CASE Client(AckOffered)
    BY <1>1, <2>16 DEF AckOffered
  <2>17. CASE Client(AckCancelled)
    BY <1>1, <2>17 DEF AckCancelled
  <2>18. CASE Client(ReplySuccess)
    BY <1>1, <2>18 DEF ReplySuccess
  <2>19. CASE Client(ReplyFailure)
    BY <1>1, <2>19 DEF ReplyFailure
  <2>20. CASE Client(ProxyRecorded)
    BY <1>1, <2>20 DEF ProxyRecorded
  <2>21. CASE Client(HandlerEnds)
    BY <1>1, <2>21 DEF HandlerEnds
  <2>22. CASE Client(LocalSends)
    BY <1>1, <2>22 DEF LocalSends
  <2>23. CASE Client(LocalEOF)
    BY <1>1, <2>23 DEF LocalEOF
  <2>24. CASE ClientMeets("local gone", LocalGone)
    BY <1>1, <2>24 DEF LocalGone
  <2>25. CASE ClientMeets("front stops", FrontStops)
    BY <1>1, <2>25 DEF FrontStops
  <2>26. CASE UNCHANGED clientVars
    BY <1>1, <2>26
  <2> QED
    BY <1>1, <2>1, <2>2, <2>3, <2>4, <2>5, <2>6, <2>7, <2>8, <2>9, <2>10, <2>11, <2>12,
       <2>13, <2>14, <2>15, <2>16, <2>17, <2>18, <2>19, <2>20, <2>21, <2>22, <2>23,
       <2>24, <2>25, <2>26 DEF Next
<1>2. ASSUME ClientOrder, UNCHANGED vars PROVE ClientOrder'
  BY <1>2
<1> QED BY <1>1, <1>2

(* So do the goroutines of Client.Proxy.                                    *)
THEOREM ClientInvariant == Spec => []ClientOrder
BY ClientOrderInit, ClientOrderStep, PTL DEF Spec

(* When Client.Proxy has returned its receive goroutine has ended, so the   *)
(* caller may close or reuse its writer.                                    *)
THEOREM WriterIsFree == Spec => []NoWriteAfterReturn
<1>1. ClientOrder => NoWriteAfterReturn
  BY DEF ClientOrder, NoWriteAfterReturn
<1> QED BY <1>1, ClientInvariant, PTL

----------------------------------------------------------------------------
(* The way of the good news: from the dial to the local client.             *)

Holds(s, kind) == \E i \in 1..Len(s) : s[i].kind = kind

(* Somewhere between the server's upload and the local client somebody has  *)
(* been told that the target was dialled.                                   *)
Told ==
    \/ ack = TRUE
    \/ sdown \in Downloading
    \/ Holds(s2c, "accepted")
    \/ caddr = "addr"
    \/ cack = "offer"
    \/ reply = "reply"
    \/ Holds(out, "ok")

ToldTheTruth == Told => conn # "none"

LEMMA HoldsAppend ==
    ASSUME NEW T, NEW s \in Seq(T), NEW m \in T, NEW kind, m.kind # kind,
           Holds(Append(s, m), kind)
    PROVE  Holds(s, kind)
BY DEF Holds

LEMMA HoldsTail ==
    ASSUME NEW T, NEW s \in Seq(T), s # <<>>, NEW kind, Holds(Tail(s), kind)
    PROVE  Holds(s, kind)
<1>1. PICK i \in 1..Len(Tail(s)) : Tail(s)[i].kind = kind
  BY DEF Holds
<1>2. i + 1 \in 1..Len(s) /\ Tail(s)[i] = s[i + 1]
  BY <1>1
<1> QED BY <1>1, <1>2 DEF Holds

LEMMA HoldsHead ==
    ASSUME NEW T, NEW s \in Seq(T), s # <<>>
    PROVE  Holds(s, Head(s).kind)
<1>1. 1 \in 1..Len(s) /\ Head(s) = s[1]
  OBVIOUS
<1> QED BY <1>1 DEF Holds

LEMMA HoldsBeginning ==
    ASSUME NEW T, NEW s \in Seq(T), NEW b \in Beginnings(s), NEW kind, Holds(b, kind)
    PROVE  Holds(s, kind)
<1>1. PICK k \in 0..Len(s) : b = SubSeq(s, 1, k)
  BY DEF Beginnings
<1>2. PICK i \in 1..Len(b) : b[i].kind = kind
  BY DEF Holds
<1>3. \A j \in 1..k : s[j] \in T
  BY ElementOfSeq
<1>4. Len(b) = k /\ b[i] = s[i]
  BY <1>1, <1>2, <1>3, SubSeqProperties
<1> QED BY <1>2, <1>4 DEF Holds

LEMMA ToldInit == Init => ToldTheTruth
BY DEF Init, StreamInit, ClientInit, ServerInit, ToldTheTruth, Told, Downloading, Holds

(* While nothing is dialled, no step spreads the news.                      *)
LEMMA ToldStep == TypeOK /\ ToldTheTruth /\ [Next]_vars => ToldTheTruth'
<1>1. ASSUME TypeOK, ToldTheTruth, Next, conn' = "none" PROVE ~Told'
  <2>1. s2c \in Seq(Message) /\ out \in Seq(Received)
    BY <1>1 DEF TypeOK, StreamTypeOK, ClientTypeOK
  <2> USE DEF Told, Downloading
  <2>2. CASE Client(OpenStream)
    BY <1>1, <2>2 DEF ToldTheTruth, OpenStream, Holds
  <2>3. CASE Client(Handshake)
    BY <1>1, <2>3 DEF ToldTheTruth, Handshake, ClientSend, Holds
  <2>4. CASE Client(HandshakeFails)
    BY <1>1, <2>4 DEF ToldTheTruth, HandshakeFails, ClientSend, Holds
  <2>5. CASE Client(ProxyWaited)
    BY <1>1, <2>5 DEF ToldTheTruth, ProxyWaited, Holds
  <2>6. CASE Client(StreamCancelled)
    BY <1>1, <2>1, <2>6, HoldsBeginning DEF ToldTheTruth, StreamCancelled, Cancel
  <2>7. CASE Client(RecvDown)
    BY <1>1, <2>1, <2>7, HoldsTail, HoldsHead DEF ToldTheTruth, RecvDown, ClientRecv
  <2>8. CASE Client(RecvDownFails)
    BY <1>1, <2>8 DEF ToldTheTruth, RecvDownFails, Holds
  <2>9. CASE Client(WriteDown)
    <3>1. conn = "none"
      BY <1>1, <2>9 DEF WriteDown
    <3>2. Payload(cchunk) \in Received /\ Payload(cchunk).kind # "ok"
      BY <1>1 DEF TypeOK, ClientTypeOK, Payload, Received
    <3>3. ~Holds(out, "ok")'
      BY <1>1, <2>1, <2>9, <3>1, <3>2, HoldsAppend DEF ToldTheTruth, Holds, WriteDown
    <3> QED BY <1>1, <2>9, <3>1, <3>3 DEF ToldTheTruth, Holds, WriteDown
  <2>10. CASE Client(DownEnds)
    BY <1>1, <2>10 DEF ToldTheTruth, DownEnds, Holds
  <2>11. CASE Client(DownCancels)
    BY <1>1, <2>11 DEF ToldTheTruth, DownCancels, Holds
  <2>12. CASE Client(DownDrained)
    BY <1>1, <2>12 DEF ToldTheTruth, DownDrained, Holds
  <2>13. CASE Client(ReadUp)
    BY <1>1, <2>13 DEF ToldTheTruth, ReadUp, Holds
  <2>14. CASE Client(SendUp)
    BY <1>1, <2>14 DEF ToldTheTruth, SendUp, ClientSend, Holds
  <2>15. CASE Client(UpEnds)
    BY <1>1, <2>15 DEF ToldTheTruth, UpEnds, Holds
  <2>16. CASE Client(AckSelect)
    BY <1>1, <2>16 DEF ToldTheTruth, AckSelect, Holds
  <2>17. CASE Client(AckOffered)
    BY <1>1, <2>17 DEF ToldTheTruth, AckOffered, Holds
  <2>18. CASE Client(AckCancelled)
    BY <1>1, <2>18 DEF ToldTheTruth, AckCancelled, Holds
  <2>19. CASE Client(ReplySuccess)
    BY <1>1, <2>19 DEF ToldTheTruth, ReplySuccess, Holds
  <2>20. CASE Client(ReplyFailure)
    <3>1. conn = "none"
      BY <1>1, <2>20 DEF ReplyFailure
    <3>2. Signal("refused") \in Received /\ Signal("refused").kind # "ok"
      BY DEF Signal, Received, Answers
    <3>3. ~Holds(out, "ok") /\ ~Holds(Append(out, Signal("refused")), "ok")
      BY <1>1, <2>1, <3>1, <3>2, HoldsAppend DEF ToldTheTruth
    <3>4. out' = out \/ out' = Append(out, Signal("refused"))
      BY <2>20 DEF ReplyFailure, Answer
    <3>5. ~Holds(out, "ok")'
      BY <3>3, <3>4 DEF Holds
    <3> QED BY <1>1, <2>20, <3>1, <3>5 DEF ToldTheTruth, Holds, ReplyFailure
  <2>21. CASE Client(ProxyRecorded)
    BY <1>1, <2>21 DEF ToldTheTruth, ProxyRecorded, Holds
  <2>22. CASE Client(HandlerEnds)
    <3>1. conn = "none"
      BY <1>1, <2>22 DEF HandlerEnds
    <3>2. Signal("unavailable") \in Received /\ Signal("unavailable").kind # "ok"
      BY DEF Signal, Received, Answers
    <3>3. ~Holds(out, "ok") /\ ~Holds(Append(out, Signal("unavailable")), "ok")
      BY <1>1, <2>1, <3>1, <3>2, HoldsAppend DEF ToldTheTruth
    <3>4. out' = out \/ out' = Append(out, Signal("unavailable"))
      BY <2>22 DEF HandlerEnds, Answer
    <3>5. ~Holds(out, "ok")'
      BY <3>3, <3>4 DEF Holds
    <3> QED BY <1>1, <2>22, <3>1, <3>5 DEF ToldTheTruth, Holds, HandlerEnds
  <2>23. CASE Client(LocalSends)
    BY <1>1, <2>23 DEF ToldTheTruth, LocalSends, Holds
  <2>24. CASE Client(LocalEOF)
    BY <1>1, <2>24 DEF ToldTheTruth, LocalEOF, Holds
  <2>25. CASE Server(Refuse)
    BY <1>1, <2>25 DEF ToldTheTruth, Refuse, Holds
  <2>26. CASE Server(Serve)
    BY <1>1, <2>26 DEF ToldTheTruth, Serve, Holds
  <2>27. CASE Server(UpHeader)
    BY <1>1, <2>27 DEF ToldTheTruth, UpHeader, ServerRecv, UpReturn, Holds
  <2>28. CASE Server(UpNoHeader)
    BY <1>1, <2>28 DEF ToldTheTruth, UpNoHeader, UpReturn, Holds
  <2>29. CASE Server(UpDialled)
    BY <1>1, <2>29 DEF ToldTheTruth, UpDialled, Holds
  <2>30. CASE Server(UpDialFails)
    BY <1>1, <2>30 DEF ToldTheTruth, UpDialFails, Holds
  <2>31. CASE Server(UpSendError)
    <3>1. conn = "none"
      BY <1>1, <2>31 DEF UpSendError
    <3>2. Signal("error") \in Message /\ Signal("error").kind # "accepted"
      BY DEF Signal, Message
    <3>3. ~Holds(s2c, "accepted")'
      BY <1>1, <2>1, <2>31, <3>1, <3>2, HoldsAppend
         DEF ToldTheTruth, Holds, UpSendError, ServerSend
    <3> QED BY <1>1, <2>31, <3>1, <3>3 DEF ToldTheTruth, Holds, UpSendError
  <2>32. CASE Server(UpReceiverEnded)
    BY <1>1, <2>32 DEF ToldTheTruth, UpReceiverEnded, UpReturn, Holds
  <2>33. CASE Server(UpCancelled)
    BY <1>1, <2>33 DEF ToldTheTruth, UpCancelled, UpReturn, CloseTarget, Holds
  <2>34. CASE Server(UpGroup)
    BY <1>1, <2>34 DEF ToldTheTruth, UpGroup, Holds
  <2>35. CASE Server(RecvUp)
    BY <1>1, <2>35 DEF ToldTheTruth, RecvUp, ServerRecv, Holds
  <2>36. CASE Server(RecvUpFails)
    BY <1>1, <2>36 DEF ToldTheTruth, RecvUpFails, Holds
  <2>37. CASE Server(WriteUp)
    BY <1>1, <2>37 DEF ToldTheTruth, WriteUp, Holds
  <2>38. CASE Server(DownAwait)
    BY <1>1, <2>38 DEF ToldTheTruth, DownAwait, Holds
  <2>39. CASE Server(DownAccept)
    BY <1>1, <2>39 DEF ToldTheTruth, DownAccept, Holds
  <2>40. CASE Server(DownRead)
    BY <1>1, <2>40 DEF ToldTheTruth, DownRead, Holds
  <2>41. CASE Server(DownReadEnds)
    BY <1>1, <2>41 DEF ToldTheTruth, DownReadEnds, DownReturn, Holds
  <2>42. CASE Server(DownSend)
    <3>1. conn = "none"
      BY <1>1, <2>42 DEF DownSend
    <3>2. Payload(dchunk) \in Message /\ Payload(dchunk).kind # "accepted"
      BY <1>1 DEF TypeOK, ServerTypeOK, Payload, Message
    <3>3. ~Holds(s2c, "accepted")'
      BY <1>1, <2>1, <2>42, <3>1, <3>2, HoldsAppend
         DEF ToldTheTruth, Holds, DownSend, ServerSend
    <3> QED BY <1>1, <2>42, <3>1, <3>3 DEF ToldTheTruth, Holds, DownSend, DownReturn
  <2>43. CASE Server(DownGroup)
    BY <1>1, <2>43 DEF ToldTheTruth, DownGroup, Holds
  <2>44. CASE Server(Watch)
    BY <1>1, <2>44 DEF ToldTheTruth, Watch, CloseTarget, Holds
  <2>45. CASE Server(HandlerLeaves)
    BY <1>1, <2>45 DEF ToldTheTruth, HandlerLeaves, HandlerReturns, CloseTarget, Holds
  <2>46. CASE Server(HandlerWaited)
    BY <1>1, <2>46 DEF ToldTheTruth, HandlerWaited, Holds
  <2>47. CASE Server(HandlerSendsEOF)
    <3>1. conn = "none"
      BY <1>1, <2>47 DEF HandlerSendsEOF, HandlerReturns, CloseTarget
    <3>2. Signal("eof") \in Message /\ Signal("eof").kind # "accepted"
      BY DEF Signal, Message
    <3>3. ~Holds(s2c, "accepted")'
      BY <1>1, <2>1, <2>47, <3>1, <3>2, HoldsAppend DEF ToldTheTruth, Holds, HandlerSendsEOF
    <3> QED BY <1>1, <2>47, <3>1, <3>3 DEF ToldTheTruth, Holds, HandlerSendsEOF
  <2>48. CASE Server(TargetSends)
    BY <1>1, <2>48 DEF ToldTheTruth, TargetSends, Holds
  <2>49. CASE Server(TargetEOF)
    BY <1>1, <2>49 DEF ToldTheTruth, TargetEOF, Holds
  <2>50. CASE Server(ForcedStop)
    BY <1>1, <2>1, <2>50, HoldsBeginning DEF ToldTheTruth, ForcedStop, Break
  <2>51. CASE ClientMeets("local gone", LocalGone)
    BY <1>1, <2>51 DEF ToldTheTruth, LocalGone, Holds
  <2>52. CASE ClientMeets("front stops", FrontStops)
    BY <1>1, <2>52 DEF ToldTheTruth, FrontStops, Holds
  <2>53. CASE ServerMeets("target resets", TargetResets)
    BY <1>1, <2>53 DEF ToldTheTruth, TargetResets, Holds
  <2>54. CASE ServerMeets("server stops", ServerStops)
    BY <1>1, <2>54 DEF ToldTheTruth, ServerStops, Holds
  <2>55. CASE ServerMeets("stream breaks", StreamBreaks)
    BY <1>1, <2>1, <2>55, HoldsBeginning DEF ToldTheTruth, StreamBreaks, Break
  <2> QED
    BY <1>1, <2>2, <2>3, <2>4, <2>5, <2>6, <2>7, <2>8, <2>9, <2>10, <2>11, <2>12, <2>13,
       <2>14, <2>15, <2>16, <2>17, <2>18, <2>19, <2>20, <2>21, <2>22, <2>23, <2>24,
       <2>25, <2>26, <2>27, <2>28, <2>29, <2>30, <2>31, <2>32, <2>33, <2>34, <2>35,
       <2>36, <2>37, <2>38, <2>39, <2>40, <2>41, <2>42, <2>43, <2>44, <2>45, <2>46,
       <2>47, <2>48, <2>49, <2>50, <2>51, <2>52, <2>53, <2>54, <2>55 DEF Next
<1>2. ASSUME ToldTheTruth, UNCHANGED vars PROVE ToldTheTruth'
  BY <1>2 DEF ToldTheTruth, Told, Holds
<1> QED BY <1>1, <1>2 DEF ToldTheTruth

(* The local client reads the answer of a successful CONNECT only if the    *)
(* server has dialled the target: neither a late Accepted, nor the ack      *)
(* goroutine, nor a front end makes one up.                                 *)
THEOREM SuccessIsTrue == Spec => []SuccessMeansDialled
<1>1. ToldTheTruth => SuccessMeansDialled
  BY DEF ToldTheTruth, Told, Holds, SuccessMeansDialled
<1>2. Spec => []ToldTheTruth
  BY ToldInit, ToldStep, TunnelTypes, PTL DEF Spec
<1> QED BY <1>1, <1>2, PTL
----------------------------------------------------------------------------
(* The way of the data.  Both directions are a chain: a queue at its source, *)
(* the chunk its reader holds, the stream, the chunk its writer holds, and   *)
(* what has arrived.                                                          *)

----------------------------------------------------------------------------
(* Download *)

SentDown == tsent - Len(tq) - IF sdown \in {"send", "sendlast"} THEN 1 ELSE 0
ReceivedDown == Delivered + IF crecv = "write" THEN 1 ELSE 0

(* The local client can still be given what is on its way to it. *)
Listening == crecv # "ended" /\ lend # "gone"

(* The stream still has all that the server sent. *)
Lossless == stream \in {"none", "open", "finished"}

TargetQueue ==
    /\ \A i \in 1..Len(tq) : tq[i] = tsent - Len(tq) + i
    /\ sdown \in {"send", "sendlast"} => dchunk = tsent - Len(tq)

DownOnStream ==
    /\ Holds(s2c, "eof") => sdown = "done"
    /\ Listening =>
        /\ Numbered(s2c, ReceivedDown)
        /\ EndsAfter(s2c, ReceivedDown, SentDown)
        /\ Lossless => SentDown = ReceivedDown + Chunks(s2c, Len(s2c))
        /\ crecv = "write" => cchunk = Delivered + 1

DownArrived ==
    /\ Numbered(out, 0)
    /\ crecverr # "none" => crecv = "ended"
    /\ crecverr = "eof" /\ stream # "broken" /\ lend # "gone" =>
           sdown = "done" /\ Delivered = SentDown

(* What the server records as the end of the target's data is that.  The     *)
(* stream is opened once, and finished by the handler.                        *)
TargetsOwnEnd ==
    /\ superr # "eof" /\ srecverr # "eof"
    /\ serr = "eof" \/ sdownerr = "eof" => sdown \in {"ret", "done"}
    /\ serr = "eof" \/ sdownerr = "eof" \/ sdown = "sendlast" => tq = <<>> /\ tend # "open"
    /\ (stream = "finished" => handler = "returned") /\ (proxy = "open" => stream = "none")

DownInv == TargetQueue /\ DownOnStream /\ DownArrived /\ TargetsOwnEnd

(* The same, said of the next state. *)
LEMMA DownOnStreamNext ==
    DownOnStream' <=>
        /\ Holds(s2c', "eof") => sdown' = "done"
        /\ Listening' =>
            /\ Numbered(s2c', ReceivedDown')
            /\ EndsAfter(s2c', ReceivedDown', SentDown')
            /\ Lossless' => SentDown' = ReceivedDown' + Chunks(s2c', Len(s2c'))
            /\ crecv' = "write" => cchunk' = Delivered' + 1
BY DEF DownOnStream, Holds, Numbered, EndsAfter, Chunks

LEMMA DownArrivedNext ==
    DownArrived' <=>
        /\ Numbered(out', 0)
        /\ crecverr' # "none" => crecv' = "ended"
        /\ crecverr' = "eof" /\ stream' # "broken" /\ lend' # "gone" =>
               sdown' = "done" /\ Delivered' = SentDown'
BY DEF DownArrived, Numbered, Chunks

LEMMA DeliveredNext == Delivered' = Chunks(out', Len(out'))
BY DEF Delivered, Chunks

LEMMA DownNumbers ==
    ASSUME TypeOK
    PROVE  /\ out \in Seq(Received) /\ s2c \in Seq(Message)
           /\ Delivered \in Nat /\ ReceivedDown \in Nat /\ SentDown \in Int
           /\ Chunks(s2c, Len(s2c)) \in Nat
<1>1. out \in Seq(Received) /\ s2c \in Seq(Message) /\ tq \in Seq(Nat) /\ tsent \in Nat
  BY DEF TypeOK, StreamTypeOK, ClientTypeOK, ServerTypeOK
<1>2. Len(out) \in Nat /\ Len(s2c) \in Nat /\ Len(tq) \in Nat
  BY <1>1
<1>3. Delivered \in Nat /\ Chunks(s2c, Len(s2c)) \in Nat
  BY <1>2, ChunksType DEF Delivered
<1> QED BY <1>1, <1>2, <1>3 DEF ReceivedDown, SentDown

LEMMA DownInit == Init => DownInv
<1> SUFFICES ASSUME Init PROVE DownInv
  OBVIOUS
<1> USE DEF Init, StreamInit, ClientInit, ServerInit
<1>1. Len(out) = 0 /\ Len(s2c) = 0 /\ Len(tq) = 0
  OBVIOUS
<1>2. Delivered = 0 /\ Chunks(s2c, Len(s2c)) = 0
  BY <1>1, ChunksNone DEF Delivered
<1>3. ReceivedDown = 0 /\ SentDown = 0
  <2>1. crecv = "idle" /\ sdown \notin {"send", "sendlast"} /\ tsent = 0
    OBVIOUS
  <2>2. ReceivedDown = 0
    BY <1>2, <2>1 DEF ReceivedDown
  <2>3. SentDown = tsent - Len(tq) - 0
    BY <2>1 DEF SentDown
  <2> QED BY <1>1, <2>1, <2>2, <2>3
<1>4. TargetQueue /\ TargetsOwnEnd
  BY <1>1 DEF TargetQueue, TargetsOwnEnd
<1>5. DownOnStream
  BY <1>1, <1>2, <1>3 DEF DownOnStream, Holds, Numbered, EndsAfter
<1>6. DownArrived
  BY <1>1 DEF DownArrived, Numbered
<1> QED BY <1>4, <1>5, <1>6 DEF DownInv

(* A step that moves nothing along the stream, nor to the local client. *)
LEMMA DownStill ==
    ASSUME TypeOK, DownOnStream, DownArrived,
           UNCHANGED <<out, crecverr, cchunk, s2c>>,
           crecv' = crecv \/ (crecv = "idle" /\ crecv' = "recv"),
           SentDown' = SentDown,
           sdown = "done" => sdown' = "done",
           lend = "gone" => lend' = "gone",
           Lossless' => Lossless,
           stream = "broken" => stream' = "broken"
    PROVE  DownOnStream' /\ DownArrived'
<1>1. Delivered' = Delivered
  BY DEF Delivered, Chunks
<1>2. ReceivedDown' = ReceivedDown /\ (Listening' => Listening)
  BY <1>1 DEF ReceivedDown, Listening
<1>3. DownOnStream'
  BY <1>1, <1>2, DownOnStreamNext DEF DownOnStream, Listening
<1>4. DownArrived'
  BY <1>1, DownArrivedNext DEF DownArrived
<1> QED BY <1>3, <1>4

(* The server sends. *)
LEMMA DownSends ==
    ASSUME TypeOK, DownOnStream, DownArrived, NEW m \in Message,
           stream = "open", stream' \in {"open", "finished"}, s2c' = Append(s2c, m),
           UNCHANGED <<out, crecv, crecverr, cchunk, lend>>,
           m.kind = "payload" => m.n = SentDown + 1 /\ sdown # "done",
           SentDown' = SentDown + IsChunk(m),
           sdown = "done" => sdown' = "done",
           m.kind = "eof" => sdown' = "done"
    PROVE  DownOnStream' /\ DownArrived'
<1>0. IsChunk(m) \in {0, 1} /\ (m.kind # "payload" => IsChunk(m) = 0)
  BY DEF IsChunk
<1>1. Delivered' = Delivered
  BY DEF Delivered, Chunks
<1>2. ReceivedDown' = ReceivedDown /\ (Listening' <=> Listening)
  BY <1>1 DEF ReceivedDown, Listening
<1>3. Holds(s2c', "eof") => sdown' = "done"
  BY DownNumbers, HoldsAppend DEF DownOnStream
<1>4. ASSUME Listening
      PROVE  /\ Numbered(s2c', ReceivedDown)
             /\ EndsAfter(s2c', ReceivedDown, SentDown')
             /\ SentDown' = ReceivedDown + Chunks(s2c', Len(s2c'))
  <2>1. SentDown = ReceivedDown + Chunks(s2c, Len(s2c))
    BY <1>4 DEF DownOnStream, Lossless
  <2>2. Numbered(s2c, ReceivedDown) /\ EndsAfter(s2c, ReceivedDown, SentDown)
    BY <1>4 DEF DownOnStream
  <2>3. Numbered(s2c', ReceivedDown)
    BY <2>1, <2>2, DownNumbers, NumberedAppend
  <2>4. EndsAfter(s2c, ReceivedDown, SentDown')
    <3>1. CASE m.kind = "payload"
      BY <3>1 DEF DownOnStream, Holds, EndsAfter
    <3>2. CASE m.kind # "payload"
      BY <1>0, <2>2, <3>2, DownNumbers
    <3> QED BY <3>1, <3>2
  <2>5. m.kind = "eof" => SentDown' = ReceivedDown + Chunks(s2c, Len(s2c))
    BY <1>0, <2>1, DownNumbers
  <2>6. EndsAfter(s2c', ReceivedDown, SentDown')
    BY <2>4, <2>5, DownNumbers, EndsAppend
  <2>7. Len(s2c') = Len(s2c) + 1 /\ Chunks(s2c', Len(s2c) + 1) = Chunks(s2c, Len(s2c)) + IsChunk(m)
    BY DownNumbers, ChunksAppend
  <2>8. SentDown' = ReceivedDown + Chunks(s2c', Len(s2c'))
    BY <1>0, <2>1, <2>7, DownNumbers
  <2> QED BY <2>3, <2>6, <2>8
<1>5. DownOnStream'
  BY <1>1, <1>2, <1>3, <1>4, DownOnStreamNext DEF DownOnStream, Listening
<1>6. sdown = "done" => SentDown' = SentDown
  BY <1>0, DownNumbers
<1>7. DownArrived'
  BY <1>1, <1>6, DownArrivedNext DEF DownArrived
<1> QED BY <1>5, <1>7

(* The stream loses what had not been received. *)
LEMMA DownLoses ==
    ASSUME TypeOK, DownOnStream, DownArrived, s2c' \in Beginnings(s2c),
           stream # "broken", stream' \in {"cancelled", "broken"},
           UNCHANGED <<out, crecv, crecverr, cchunk, lend, sdown, tsent, tq>>
    PROVE  DownOnStream' /\ DownArrived'
<1>1. Delivered' = Delivered /\ SentDown' = SentDown
  BY DEF Delivered, Chunks, SentDown
<1>2. ReceivedDown' = ReceivedDown /\ (Listening' <=> Listening) /\ ~Lossless'
  BY <1>1 DEF ReceivedDown, Listening, Lossless
<1>3. Holds(s2c', "eof") => sdown' = "done"
  BY DownNumbers, HoldsBeginning DEF DownOnStream
<1>4. Listening => Numbered(s2c', ReceivedDown) /\ EndsAfter(s2c', ReceivedDown, SentDown)
  BY DownNumbers, NumberedBeginning DEF DownOnStream
<1>5. DownOnStream'
  BY <1>1, <1>2, <1>3, <1>4, DownOnStreamNext DEF DownOnStream, Listening
<1>6. DownArrived'
  BY <1>1, DownArrivedNext DEF DownArrived
<1> QED BY <1>5, <1>6

(* The local client is given something that is not a chunk. *)
LEMMA DownAnswered ==
    ASSUME TypeOK, DownOnStream, DownArrived, NEW kind \in Answers,
           out' = out \/ out' = Append(out, Signal(kind)),
           UNCHANGED <<crecv, crecverr, cchunk, lend, s2c, stream, sdown, tsent, tq>>
    PROVE  DownOnStream' /\ DownArrived'
<1>0. Signal(kind) \in Received /\ Signal(kind).kind # "payload" /\ IsChunk(Signal(kind)) = 0
  BY DEF Signal, Received, Answers, IsChunk
<1>1. Delivered' = Delivered
  <2>1. CASE out' = out
    BY <2>1, DeliveredNext DEF Delivered
  <2>2. CASE out' = Append(out, Signal(kind))
    <3>1. Len(out') = Len(out) + 1 /\ Chunks(out', Len(out) + 1) = Chunks(out, Len(out)) + 0
      BY <1>0, <2>2, DownNumbers, ChunksAppend
    <3> QED BY <3>1, DownNumbers, DeliveredNext DEF Delivered
  <2> QED BY <2>1, <2>2
<1>2. ReceivedDown' = ReceivedDown /\ (Listening' <=> Listening) /\ SentDown' = SentDown
      /\ (Lossless' <=> Lossless)
  BY <1>1 DEF ReceivedDown, Listening, SentDown, Lossless
<1>3. Numbered(out', 0)
  <2>1. CASE out' = out
    BY <2>1 DEF DownArrived
  <2>2. CASE out' = Append(out, Signal(kind))
    BY <1>0, <2>2, DownNumbers, NumberedAppend DEF DownArrived
  <2> QED BY <2>1, <2>2
<1>4. DownOnStream'
  BY <1>1, <1>2, DownOnStreamNext DEF DownOnStream
<1>5. DownArrived'
  BY <1>1, <1>2, <1>3, DownArrivedNext DEF DownArrived
<1> QED BY <1>4, <1>5

(* A step of the goroutines that have no part in the download. *)
LEMMA DownFrame ==
    ASSUME TypeOK, DownInv,
           UNCHANGED <<out, crecv, crecverr, cchunk, lend, s2c, stream, handler, sdown, sdownerr,
                       dchunk, serr, superr, srecverr, tsent, tq, tend>>,
           proxy' = "open" => proxy = "open"
    PROVE  DownInv'
<1>1. TargetQueue' /\ TargetsOwnEnd'
  BY DEF DownInv, TargetQueue, TargetsOwnEnd
<1>2. SentDown' = SentDown /\ (Lossless' <=> Lossless)
  BY DEF SentDown, Lossless
<1>3. DownOnStream' /\ DownArrived'
  BY <1>2, DownStill DEF DownInv
<1> QED BY <1>1, <1>3 DEF DownInv

LEMMA OpenStreamDown ==
    ASSUME TypeOK, ServerOrder, DownInv, OpenStream, UNCHANGED serverVars PROVE DownInv'
<1> USE DEF OpenStream, ProxyReturns
<1>1. TargetQueue'
  BY DEF DownInv, TargetQueue
<1>2. TargetsOwnEnd'
  BY DEF DownInv, TargetsOwnEnd, ServerOrder
<1>3. SentDown' = SentDown /\ (Lossless' => Lossless) /\ (sdown = "done" => sdown' = "done")
  BY DEF SentDown, Lossless, ServerOrder, DownInv, TargetsOwnEnd
<1>4. DownOnStream' /\ DownArrived'
  BY <1>3, DownStill DEF DownInv, TargetsOwnEnd
<1> QED BY <1>1, <1>2, <1>4 DEF DownInv

LEMMA HandshakeDown ==
    ASSUME TypeOK, ServerOrder, ClientOrder, DownInv, Handshake, UNCHANGED serverVars PROVE DownInv'
<1> USE DEF Handshake, ClientSend
<1>1. TargetQueue'
  BY DEF DownInv, TargetQueue
<1>2. TargetsOwnEnd'
  BY DEF DownInv, TargetsOwnEnd, ServerOrder
<1>3. SentDown' = SentDown /\ (Lossless' => Lossless) /\ (sdown = "done" => sdown' = "done")
  BY DEF SentDown, Lossless, ServerOrder, DownInv, TargetsOwnEnd
<1>4. DownOnStream' /\ DownArrived'
  BY <1>3, DownStill DEF DownInv, ClientOrder
<1> QED BY <1>1, <1>2, <1>4 DEF DownInv

LEMMA LocalEOFDown ==
    ASSUME TypeOK, ServerOrder, DownInv, LocalEOF, UNCHANGED serverVars PROVE DownInv'
<1> USE DEF LocalEOF
<1>1. TargetQueue'
  BY DEF DownInv, TargetQueue
<1>2. TargetsOwnEnd'
  BY DEF DownInv, TargetsOwnEnd, ServerOrder
<1>3. SentDown' = SentDown /\ (Lossless' => Lossless) /\ (sdown = "done" => sdown' = "done")
  BY DEF SentDown, Lossless, ServerOrder, DownInv, TargetsOwnEnd
<1>4. DownOnStream' /\ DownArrived'
  BY <1>3, DownStill DEF DownInv
<1> QED BY <1>1, <1>2, <1>4 DEF DownInv

LEMMA LocalGoneDown ==
    ASSUME TypeOK, ServerOrder, DownInv, LocalGone, UNCHANGED serverVars PROVE DownInv'
<1> USE DEF LocalGone
<1>1. TargetQueue'
  BY DEF DownInv, TargetQueue
<1>2. TargetsOwnEnd'
  BY DEF DownInv, TargetsOwnEnd, ServerOrder
<1>3. SentDown' = SentDown /\ (Lossless' => Lossless) /\ (sdown = "done" => sdown' = "done")
  BY DEF SentDown, Lossless, ServerOrder, DownInv, TargetsOwnEnd
<1>4. DownOnStream' /\ DownArrived'
  BY <1>3, DownStill DEF DownInv
<1> QED BY <1>1, <1>2, <1>4 DEF DownInv

LEMMA RefuseDown ==
    ASSUME TypeOK, ServerOrder, DownInv, Refuse, UNCHANGED clientVars PROVE DownInv'
<1> USE DEF Refuse
<1>1. TargetQueue'
  BY DEF DownInv, TargetQueue
<1>2. TargetsOwnEnd'
  BY DEF DownInv, TargetsOwnEnd, ServerOrder
<1>3. SentDown' = SentDown /\ (Lossless' => Lossless) /\ (sdown = "done" => sdown' = "done")
  BY DEF SentDown, Lossless, ServerOrder, DownInv, TargetsOwnEnd
<1>4. DownOnStream' /\ DownArrived'
  BY <1>3, DownStill DEF DownInv
<1> QED BY <1>1, <1>2, <1>4 DEF DownInv

LEMMA ServeDown ==
    ASSUME TypeOK, ServerOrder, DownInv, Serve, UNCHANGED clientVars PROVE DownInv'
<1> USE DEF Serve
<1>1. TargetQueue'
  BY DEF DownInv, TargetQueue
<1>2. TargetsOwnEnd'
  BY DEF DownInv, TargetsOwnEnd, ServerOrder
<1>3. SentDown' = SentDown /\ (Lossless' => Lossless) /\ (sdown = "done" => sdown' = "done")
  BY DEF SentDown, Lossless, ServerOrder, DownInv, TargetsOwnEnd
<1>4. DownOnStream' /\ DownArrived'
  BY <1>3, DownStill DEF DownInv
<1> QED BY <1>1, <1>2, <1>4 DEF DownInv

LEMMA UpHeaderDown ==
    ASSUME TypeOK, ServerOrder, DownInv, UpHeader, UNCHANGED clientVars PROVE DownInv'
<1> USE DEF UpHeader, UpReturn, ServerRecv
<1>1. TargetQueue'
  BY DEF DownInv, TargetQueue
<1>2. TargetsOwnEnd'
  BY DEF DownInv, TargetsOwnEnd, ServerOrder
<1>3. SentDown' = SentDown /\ (Lossless' => Lossless) /\ (sdown = "done" => sdown' = "done")
  BY DEF SentDown, Lossless, ServerOrder, DownInv, TargetsOwnEnd
<1>4. DownOnStream' /\ DownArrived'
  BY <1>3, DownStill DEF DownInv
<1> QED BY <1>1, <1>2, <1>4 DEF DownInv

LEMMA UpNoHeaderDown ==
    ASSUME TypeOK, ServerOrder, DownInv, UpNoHeader, UNCHANGED clientVars PROVE DownInv'
<1> USE DEF UpNoHeader, UpReturn, ServerRecvError
<1>1. TargetQueue'
  BY DEF DownInv, TargetQueue
<1>2. TargetsOwnEnd'
  BY DEF DownInv, TargetsOwnEnd, ServerOrder
<1>3. SentDown' = SentDown /\ (Lossless' => Lossless) /\ (sdown = "done" => sdown' = "done")
  BY DEF SentDown, Lossless, ServerOrder, DownInv, TargetsOwnEnd
<1>4. DownOnStream' /\ DownArrived'
  BY <1>3, DownStill DEF DownInv
<1> QED BY <1>1, <1>2, <1>4 DEF DownInv

LEMMA UpReceiverEndedDown ==
    ASSUME TypeOK, ServerOrder, DownInv, UpReceiverEnded, UNCHANGED clientVars PROVE DownInv'
<1> USE DEF UpReceiverEnded, UpReturn
<1>1. TargetQueue'
  BY DEF DownInv, TargetQueue
<1>2. TargetsOwnEnd'
  BY DEF DownInv, TargetsOwnEnd, ServerOrder
<1>3. SentDown' = SentDown /\ (Lossless' => Lossless) /\ (sdown = "done" => sdown' = "done")
  BY DEF SentDown, Lossless, ServerOrder, DownInv, TargetsOwnEnd
<1>4. DownOnStream' /\ DownArrived'
  BY <1>3, DownStill DEF DownInv
<1> QED BY <1>1, <1>2, <1>4 DEF DownInv

LEMMA UpCancelledDown ==
    ASSUME TypeOK, ServerOrder, DownInv, UpCancelled, UNCHANGED clientVars PROVE DownInv'
<1> USE DEF UpCancelled, UpReturn
<1>1. TargetQueue'
  BY DEF DownInv, TargetQueue
<1>2. TargetsOwnEnd'
  BY DEF DownInv, TargetsOwnEnd, ServerOrder
<1>3. SentDown' = SentDown /\ (Lossless' => Lossless) /\ (sdown = "done" => sdown' = "done")
  BY DEF SentDown, Lossless, ServerOrder, DownInv, TargetsOwnEnd
<1>4. DownOnStream' /\ DownArrived'
  BY <1>3, DownStill DEF DownInv
<1> QED BY <1>1, <1>2, <1>4 DEF DownInv

LEMMA UpGroupDown ==
    ASSUME TypeOK, ServerOrder, DownInv, UpGroup, UNCHANGED clientVars PROVE DownInv'
<1> USE DEF UpGroup
<1>1. TargetQueue'
  BY DEF DownInv, TargetQueue
<1>2. TargetsOwnEnd'
  BY DEF DownInv, TargetsOwnEnd, ServerOrder
<1>3. SentDown' = SentDown /\ (Lossless' => Lossless) /\ (sdown = "done" => sdown' = "done")
  BY DEF SentDown, Lossless, ServerOrder, DownInv, TargetsOwnEnd
<1>4. DownOnStream' /\ DownArrived'
  BY <1>3, DownStill DEF DownInv
<1> QED BY <1>1, <1>2, <1>4 DEF DownInv

LEMMA RecvUpFailsDown ==
    ASSUME TypeOK, ServerOrder, DownInv, RecvUpFails, UNCHANGED clientVars PROVE DownInv'
<1> USE DEF RecvUpFails, ServerRecvError
<1>1. TargetQueue'
  BY DEF DownInv, TargetQueue
<1>2. TargetsOwnEnd'
  BY DEF DownInv, TargetsOwnEnd, ServerOrder
<1>3. SentDown' = SentDown /\ (Lossless' => Lossless) /\ (sdown = "done" => sdown' = "done")
  BY DEF SentDown, Lossless, ServerOrder, DownInv, TargetsOwnEnd
<1>4. DownOnStream' /\ DownArrived'
  BY <1>3, DownStill DEF DownInv
<1> QED BY <1>1, <1>2, <1>4 DEF DownInv

LEMMA WriteUpDown ==
    ASSUME TypeOK, ServerOrder, DownInv, WriteUp, UNCHANGED clientVars PROVE DownInv'
<1> USE DEF WriteUp
<1>1. TargetQueue'
  BY DEF DownInv, TargetQueue
<1>2. TargetsOwnEnd'
  BY DEF DownInv, TargetsOwnEnd, ServerOrder
<1>3. SentDown' = SentDown /\ (Lossless' => Lossless) /\ (sdown = "done" => sdown' = "done")
  BY DEF SentDown, Lossless, ServerOrder, DownInv, TargetsOwnEnd
<1>4. DownOnStream' /\ DownArrived'
  BY <1>3, DownStill DEF DownInv
<1> QED BY <1>1, <1>2, <1>4 DEF DownInv

LEMMA DownAwaitDown ==
    ASSUME TypeOK, ServerOrder, DownInv, DownAwait, UNCHANGED clientVars PROVE DownInv'
<1> USE DEF DownAwait
<1>1. TargetQueue'
  BY DEF DownInv, TargetQueue
<1>2. TargetsOwnEnd'
  BY DEF DownInv, TargetsOwnEnd, ServerOrder
<1>3. SentDown' = SentDown /\ (Lossless' => Lossless) /\ (sdown = "done" => sdown' = "done")
  BY DEF SentDown, Lossless, ServerOrder, DownInv, TargetsOwnEnd
<1>4. DownOnStream' /\ DownArrived'
  BY <1>3, DownStill DEF DownInv
<1> QED BY <1>1, <1>2, <1>4 DEF DownInv

LEMMA DownReadEndsDown ==
    ASSUME TypeOK, ServerOrder, DownInv, DownReadEnds, UNCHANGED clientVars PROVE DownInv'
<1> USE DEF DownReadEnds, DownReturn
<1>1. TargetQueue'
  BY DEF DownInv, TargetQueue
<1>2. TargetsOwnEnd'
  BY DEF DownInv, TargetsOwnEnd, ServerOrder
<1>3. SentDown' = SentDown /\ (Lossless' => Lossless) /\ (sdown = "done" => sdown' = "done")
  BY DEF SentDown, Lossless, ServerOrder, DownInv, TargetsOwnEnd
<1>4. DownOnStream' /\ DownArrived'
  BY <1>3, DownStill DEF DownInv
<1> QED BY <1>1, <1>2, <1>4 DEF DownInv

LEMMA DownGroupDown ==
    ASSUME TypeOK, ServerOrder, DownInv, DownGroup, UNCHANGED clientVars PROVE DownInv'
<1> USE DEF DownGroup
<1>1. TargetQueue'
  BY DEF DownInv, TargetQueue
<1>2. TargetsOwnEnd'
  BY DEF DownInv, TargetsOwnEnd, ServerOrder
<1>3. SentDown' = SentDown /\ (Lossless' => Lossless) /\ (sdown = "done" => sdown' = "done")
  BY DEF SentDown, Lossless, ServerOrder, DownInv, TargetsOwnEnd
<1>4. DownOnStream' /\ DownArrived'
  BY <1>3, DownStill DEF DownInv
<1> QED BY <1>1, <1>2, <1>4 DEF DownInv

LEMMA HandlerLeavesDown ==
    ASSUME TypeOK, ServerOrder, DownInv, HandlerLeaves, UNCHANGED clientVars PROVE DownInv'
<1> USE DEF HandlerLeaves, HandlerReturns
<1>1. TargetQueue'
  BY DEF DownInv, TargetQueue
<1>2. TargetsOwnEnd'
  BY DEF DownInv, TargetsOwnEnd, ServerOrder
<1>3. SentDown' = SentDown /\ (Lossless' => Lossless) /\ (sdown = "done" => sdown' = "done")
  BY DEF SentDown, Lossless, ServerOrder, DownInv, TargetsOwnEnd
<1>4. DownOnStream' /\ DownArrived'
  BY <1>3, DownStill DEF DownInv
<1> QED BY <1>1, <1>2, <1>4 DEF DownInv

LEMMA HandlerWaitedDown ==
    ASSUME TypeOK, ServerOrder, DownInv, HandlerWaited, UNCHANGED clientVars PROVE DownInv'
<1> USE DEF HandlerWaited
<1>1. TargetQueue'
  BY DEF DownInv, TargetQueue
<1>2. TargetsOwnEnd'
  BY DEF DownInv, TargetsOwnEnd, ServerOrder
<1>3. SentDown' = SentDown /\ (Lossless' => Lossless) /\ (sdown = "done" => sdown' = "done")
  BY DEF SentDown, Lossless, ServerOrder, DownInv, TargetsOwnEnd
<1>4. DownOnStream' /\ DownArrived'
  BY <1>3, DownStill DEF DownInv
<1> QED BY <1>1, <1>2, <1>4 DEF DownInv

LEMMA TargetEOFDown ==
    ASSUME TypeOK, ServerOrder, DownInv, TargetEOF, UNCHANGED clientVars PROVE DownInv'
<1> USE DEF TargetEOF
<1>1. TargetQueue'
  BY DEF DownInv, TargetQueue
<1>2. TargetsOwnEnd'
  BY DEF DownInv, TargetsOwnEnd, ServerOrder
<1>3. SentDown' = SentDown /\ (Lossless' => Lossless) /\ (sdown = "done" => sdown' = "done")
  BY DEF SentDown, Lossless, ServerOrder, DownInv, TargetsOwnEnd
<1>4. DownOnStream' /\ DownArrived'
  BY <1>3, DownStill DEF DownInv
<1> QED BY <1>1, <1>2, <1>4 DEF DownInv

LEMMA TargetResetsDown ==
    ASSUME TypeOK, ServerOrder, DownInv, TargetResets, UNCHANGED clientVars PROVE DownInv'
<1> USE DEF TargetResets
<1>1. TargetQueue'
  BY DEF DownInv, TargetQueue
<1>2. TargetsOwnEnd'
  BY DEF DownInv, TargetsOwnEnd, ServerOrder
<1>3. SentDown' = SentDown /\ (Lossless' => Lossless) /\ (sdown = "done" => sdown' = "done")
  BY DEF SentDown, Lossless, ServerOrder, DownInv, TargetsOwnEnd
<1>4. DownOnStream' /\ DownArrived'
  BY <1>3, DownStill DEF DownInv
<1> QED BY <1>1, <1>2, <1>4 DEF DownInv

LEMMA ReplySuccessDown == ASSUME TypeOK, ServerOrder, DownInv, ReplySuccess, UNCHANGED serverVars PROVE DownInv'
<1> USE DEF ReplySuccess, Answer
<1>1. TargetQueue' /\ TargetsOwnEnd'
  BY DEF DownInv, TargetQueue, TargetsOwnEnd
<1>2. "ok" \in Answers /\ (out' = out \/ out' = Append(out, Signal("ok")))
  BY DEF Answers
<1>3. DownOnStream' /\ DownArrived'
  BY <1>2, DownAnswered DEF DownInv
<1> QED BY <1>1, <1>3 DEF DownInv

LEMMA ReplyFailureDown == ASSUME TypeOK, ServerOrder, DownInv, ReplyFailure, UNCHANGED serverVars PROVE DownInv'
<1> USE DEF ReplyFailure, Answer
<1>1. TargetQueue' /\ TargetsOwnEnd'
  BY DEF DownInv, TargetQueue, TargetsOwnEnd
<1>2. "refused" \in Answers /\ (out' = out \/ out' = Append(out, Signal("refused")))
  BY DEF Answers
<1>3. DownOnStream' /\ DownArrived'
  BY <1>2, DownAnswered DEF DownInv
<1> QED BY <1>1, <1>3 DEF DownInv

LEMMA HandlerEndsDown == ASSUME TypeOK, ServerOrder, DownInv, HandlerEnds, UNCHANGED serverVars PROVE DownInv'
<1> USE DEF HandlerEnds, Answer
<1>1. TargetQueue' /\ TargetsOwnEnd'
  BY DEF DownInv, TargetQueue, TargetsOwnEnd
<1>2. "unavailable" \in Answers /\ (out' = out \/ out' = Append(out, Signal("unavailable")))
  BY DEF Answers
<1>3. DownOnStream' /\ DownArrived'
  BY <1>2, DownAnswered DEF DownInv
<1> QED BY <1>1, <1>3 DEF DownInv

LEMMA StreamCancelledDown ==
    ASSUME TypeOK, ServerOrder, DownInv, StreamCancelled, UNCHANGED <<clientVars, serverVars>> PROVE DownInv'
<1> USE DEF StreamCancelled, Cancel
<1>1. TargetQueue' /\ TargetsOwnEnd'
  BY DEF DownInv, TargetQueue, TargetsOwnEnd
<1>2. DownOnStream' /\ DownArrived'
  BY DownLoses DEF DownInv
<1> QED BY <1>1, <1>2 DEF DownInv

LEMMA ForcedStopDown ==
    ASSUME TypeOK, ServerOrder, DownInv, ForcedStop, UNCHANGED <<clientVars, serverVars>> PROVE DownInv'
<1> USE DEF ForcedStop, Break
<1>1. TargetQueue' /\ TargetsOwnEnd'
  BY DEF DownInv, TargetQueue, TargetsOwnEnd
<1>2. DownOnStream' /\ DownArrived'
  BY DownLoses DEF DownInv
<1> QED BY <1>1, <1>2 DEF DownInv

LEMMA StreamBreaksDown ==
    ASSUME TypeOK, ServerOrder, DownInv, StreamBreaks, UNCHANGED <<clientVars, serverVars>> PROVE DownInv'
<1> USE DEF StreamBreaks, Break
<1>1. TargetQueue' /\ TargetsOwnEnd'
  BY DEF DownInv, TargetQueue, TargetsOwnEnd
<1>2. DownOnStream' /\ DownArrived'
  BY DownLoses DEF DownInv
<1> QED BY <1>1, <1>2 DEF DownInv

LEMMA HandshakeFailsDown ==
    ASSUME TypeOK, ServerOrder, DownInv, HandshakeFails, UNCHANGED serverVars PROVE DownInv'
BY DownFrame DEF HandshakeFails, ProxyReturns, ClientSend

LEMMA TargetSendsDown ==
    ASSUME TypeOK, ServerOrder, DownInv, TargetSends, UNCHANGED clientVars PROVE DownInv'
<1>0. tq \in Seq(Nat) /\ tsent \in Nat /\ tq' = Append(tq, tsent + 1) /\ tsent' = tsent + 1
  BY DEF TypeOK, ServerTypeOK, TargetSends
<1>1. Len(tq') = Len(tq) + 1 /\ Len(tq) \in Nat /\ tq'[Len(tq) + 1] = tsent + 1
      /\ \A i \in 1..Len(tq) : tq'[i] = tq[i]
  BY <1>0
<1>2. TargetQueue'
  <2>1. \A i \in 1..Len(tq) : tq[i] = tsent - Len(tq) + i
    BY DEF DownInv, TargetQueue
  <2>2. \A i \in 1..Len(tq') : tq'[i] = tsent' - Len(tq') + i
    BY <1>0, <1>1, <2>1
  <2>3. sdown' = sdown /\ dchunk' = dchunk /\ tsent' - Len(tq') = tsent - Len(tq)
    BY <1>0, <1>1 DEF TargetSends
  <2> QED BY <2>2, <2>3 DEF DownInv, TargetQueue
<1>3. TargetsOwnEnd'
  BY DEF DownInv, TargetsOwnEnd, TargetSends
<1>4. SentDown' = SentDown /\ (Lossless' => Lossless)
  <2>1. tsent' - Len(tq') = tsent - Len(tq) /\ sdown' = sdown /\ stream' = stream
    BY <1>0, <1>1 DEF TargetSends
  <2> QED BY <2>1 DEF SentDown, Lossless
<1>5. DownOnStream' /\ DownArrived'
  BY <1>4, DownStill DEF DownInv, TargetSends
<1> QED BY <1>2, <1>3, <1>5 DEF DownInv

LEMMA DownReadDown ==
    ASSUME TypeOK, ServerOrder, DownInv, DownRead, UNCHANGED clientVars PROVE DownInv'
<1>0. /\ tq \in Seq(Nat) /\ tsent \in Nat /\ tq # <<>> /\ tq' = Tail(tq) /\ dchunk' = Head(tq)
      /\ tsent' = tsent /\ sdown = "read" /\ sdown' \in {"send", "sendlast"} /\ UNCHANGED <<tend, serr, sdownerr>>
  BY DEF TypeOK, ServerTypeOK, DownRead
<1>1. /\ Len(tq) \in Nat \ {0} /\ Len(tq') = Len(tq) - 1 /\ dchunk' = tq[1]
      /\ \A i \in 1..(Len(tq) - 1) : tq'[i] = tq[i + 1]
  BY <1>0
<1>2. \A i \in 1..Len(tq) : tq[i] = tsent - Len(tq) + i
  BY DEF DownInv, TargetQueue
<1>3. TargetQueue'
  <2>1. \A i \in 1..Len(tq') : tq'[i] = tsent - Len(tq') + i
    BY <1>0, <1>1, <1>2
  <2>2. dchunk' = tsent - Len(tq')
    BY <1>0, <1>1, <1>2
  <2> QED BY <1>0, <2>1, <2>2 DEF TargetQueue
<1>4. sdown' = "sendlast" => tq' = <<>> /\ tend' # "open"
  <2>1. sdown' = "sendlast" => Len(tq) = 1 /\ tend = "eof"
    BY DEF DownRead
  <2> QED BY <1>0, <1>1, <2>1
<1>5. TargetsOwnEnd'
  <2>1. serr # "eof" /\ sdownerr # "eof" /\ stream # "finished"
    BY <1>0 DEF DownInv, TargetsOwnEnd, ServerOrder
  <2> QED BY <1>4, <2>1 DEF DownInv, TargetsOwnEnd, DownRead
<1>6. SentDown' = SentDown /\ (Lossless' => Lossless)
  <2>1. SentDown = tsent - Len(tq) - 0 /\ SentDown' = tsent - (Len(tq) - 1) - 1
    BY <1>0, <1>1 DEF SentDown
  <2> QED BY <1>0, <1>1, <2>1 DEF Lossless, DownRead
<1>7. DownOnStream' /\ DownArrived'
  BY <1>6, DownStill DEF DownInv, DownRead
<1> QED BY <1>3, <1>5, <1>7 DEF DownInv

LEMMA UpSendErrorDown ==
    ASSUME TypeOK, ServerOrder, DownInv, UpSendError, UNCHANGED clientVars PROVE DownInv'
<1> USE DEF UpSendError, UpReturn, ServerSend
<1>1. TargetQueue' /\ TargetsOwnEnd'
  BY DEF DownInv, TargetQueue, TargetsOwnEnd
<1>2. SentDown' = SentDown /\ SentDown \in Int
  BY DownNumbers DEF SentDown
<1>3. CASE ServerSend(Signal("error"))
  <2>1. Signal("error") \in Message /\ Signal("error").kind = "error" /\ IsChunk(Signal("error")) = 0
    BY DEF Signal, Message, IsChunk
  <2>2. SentDown' = SentDown + IsChunk(Signal("error"))
    BY <1>2, <2>1
  <2>3. DownOnStream' /\ DownArrived'
    BY <1>3, <2>1, <2>2, DownSends DEF DownInv
  <2> QED BY <1>1, <2>3 DEF DownInv
<1>4. CASE UNCHANGED streamVars
  <2>1. Lossless' => Lossless
    BY <1>4 DEF Lossless
  <2>2. DownOnStream' /\ DownArrived'
    BY <1>2, <1>4, <2>1, DownStill DEF DownInv
  <2> QED BY <1>1, <2>2 DEF DownInv
<1> QED BY <1>3, <1>4

LEMMA DownAcceptDown ==
    ASSUME TypeOK, ServerOrder, DownInv, DownAccept, UNCHANGED clientVars PROVE DownInv'
<1> USE DEF DownAccept, ServerSend
<1>1. TargetQueue'
  BY DEF DownInv, TargetQueue
<1>0. sdownerr' # "eof" \/ sdownerr' = sdownerr
  BY DEF ServerSendError
<1>5. TargetsOwnEnd'
  BY <1>0 DEF DownInv, TargetsOwnEnd, ServerOrder
<1>2. SentDown' = SentDown /\ SentDown \in Int
  BY DownNumbers DEF SentDown
<1>3. CASE ServerSend(Signal("accepted"))
  <2>1. Signal("accepted") \in Message /\ Signal("accepted").kind = "accepted"
        /\ IsChunk(Signal("accepted")) = 0
    BY DEF Signal, Message, IsChunk
  <2>2. SentDown' = SentDown + IsChunk(Signal("accepted"))
    BY <1>2, <2>1
  <2>3. DownOnStream' /\ DownArrived'
    BY <1>3, <2>1, <2>2, DownSends DEF DownInv
  <2> QED BY <1>1, <1>5, <2>3 DEF DownInv
<1>4. CASE UNCHANGED streamVars
  <2>1. Lossless' => Lossless
    BY <1>4 DEF Lossless
  <2>2. DownOnStream' /\ DownArrived'
    BY <1>2, <1>4, <2>1, DownStill DEF DownInv
  <2> QED BY <1>1, <1>5, <2>2 DEF DownInv
<1> QED BY <1>3, <1>4

LEMMA DownSendDown ==
    ASSUME TypeOK, ServerOrder, DownInv, DownSend, UNCHANGED clientVars PROVE DownInv'
<1>0. /\ sdown \in {"send", "sendlast"} /\ sdown' \in {"read", "ret"} /\ handler \notin {"sendeof", "returned"}
      /\ UNCHANGED <<tsent, tq, tend, dchunk, handler, serr, superr, srecverr, out, crecv, crecverr, cchunk, lend>>
      /\ stream' = stream
  BY DEF DownSend, DownReturn, ServerSend, ServerOrder
<1>1. TargetQueue'
  BY <1>0 DEF DownInv, TargetQueue
<1>2. stream # "finished"
  BY <1>0 DEF DownInv, TargetsOwnEnd
<1>3. sdownerr' = "eof" => sdown = "sendlast" /\ sdown' = "ret"
  BY <1>0 DEF DownInv, TargetsOwnEnd, DownSend, DownReturn, ServerSendError
<1>4. TargetsOwnEnd'
  BY <1>0, <1>2, <1>3 DEF DownInv, TargetsOwnEnd
<1>5. SentDown' = SentDown + 1 /\ SentDown + 1 = dchunk /\ SentDown \in Int
  <2>1. tsent \in Nat /\ Len(tq) \in Nat
    BY DEF TypeOK, ServerTypeOK
  <2>2. SentDown = tsent - Len(tq) - 1 /\ SentDown' = tsent - Len(tq) - 0
    BY <1>0 DEF SentDown
  <2> QED BY <1>0, <2>1, <2>2 DEF DownInv, TargetQueue
<1>6. CASE ServerSend(Payload(dchunk))
  <2>1. Payload(dchunk) \in Message /\ Payload(dchunk).kind = "payload" /\ Payload(dchunk).n = dchunk
        /\ IsChunk(Payload(dchunk)) = 1
    BY DEF TypeOK, ServerTypeOK, Payload, Message, IsChunk
  <2>2. stream = "open" /\ s2c' = Append(s2c, Payload(dchunk))
    BY <1>6 DEF ServerSend
  <2>3. DownOnStream' /\ DownArrived'
    BY <1>0, <1>5, <2>1, <2>2, DownSends DEF DownInv
  <2> QED BY <1>1, <1>4, <2>3 DEF DownInv
<1>7. CASE ServerSendError # {} /\ UNCHANGED streamVars
  <2>1. stream \in {"cancelled", "broken"}
    BY <1>2, <1>7 DEF ServerSendError
  <2>2. Delivered' = Delivered /\ ReceivedDown' = ReceivedDown /\ (Listening' <=> Listening) /\ ~Lossless'
    BY <1>0, <1>7, <2>1 DEF Delivered, Chunks, ReceivedDown, Listening, Lossless
  <2>3. ~Holds(s2c, "eof") /\ s2c' = s2c
    BY <1>0, <1>7 DEF DownInv, DownOnStream
  <2>4. EndsAfter(s2c, ReceivedDown, SentDown')
    BY <2>3 DEF EndsAfter, Holds
  <2>5. DownOnStream'
    BY <1>0, <2>2, <2>3, <2>4, DownOnStreamNext DEF DownInv, DownOnStream
  <2>6. DownArrived'
    BY <1>0, <1>7, DownArrivedNext DEF DownInv, DownArrived
  <2> QED BY <1>1, <1>4, <2>5, <2>6 DEF DownInv
<1> QED BY <1>6, <1>7 DEF DownSend

LEMMA HandlerSendsEOFDown ==
    ASSUME TypeOK, ServerOrder, DownInv, HandlerSendsEOF, UNCHANGED clientVars PROVE DownInv'
<1> USE DEF HandlerSendsEOF, HandlerReturns
<1>1. TargetQueue' /\ TargetsOwnEnd'
  BY DEF DownInv, TargetQueue, TargetsOwnEnd
<1>2. SentDown' = SentDown /\ SentDown \in Int /\ sdown = "done"
  BY DownNumbers DEF SentDown, ServerOrder
<1>3. CASE stream = "open" /\ s2c' = Append(s2c, Signal("eof")) /\ stream' = "finished"
  <2>1. Signal("eof") \in Message /\ Signal("eof").kind = "eof" /\ IsChunk(Signal("eof")) = 0
    BY DEF Signal, Message, IsChunk
  <2>2. SentDown' = SentDown + IsChunk(Signal("eof"))
    BY <1>2, <2>1
  <2>3. DownOnStream' /\ DownArrived'
    BY <1>2, <1>3, <2>1, <2>2, DownSends DEF DownInv
  <2> QED BY <1>1, <2>3 DEF DownInv
<1>4. CASE UNCHANGED streamVars
  <2>1. Lossless' => Lossless
    BY <1>4 DEF Lossless
  <2>2. DownOnStream' /\ DownArrived'
    BY <1>2, <1>4, <2>1, DownStill DEF DownInv
  <2> QED BY <1>1, <2>2 DEF DownInv
<1> QED BY <1>3, <1>4

LEMMA RecvDownDown ==
    ASSUME TypeOK, ServerOrder, DownInv, RecvDown, UNCHANGED serverVars PROVE DownInv'
<1>0. /\ s2c # <<>> /\ s2c' = Tail(s2c) /\ stream' = stream /\ crecv = "recv"
      /\ UNCHANGED <<out, lend, sdown, tsent, tq, proxy>>
  BY DEF RecvDown, ClientRecv
<1>1. TargetQueue' /\ TargetsOwnEnd'
  BY <1>0 DEF DownInv, TargetQueue, TargetsOwnEnd
<1>2. Delivered' = Delivered /\ SentDown' = SentDown /\ (Lossless' <=> Lossless)
  BY <1>0 DEF Delivered, Chunks, SentDown, Lossless
<1>3. ReceivedDown = Delivered /\ crecverr = "none"
  BY <1>0, DownNumbers DEF ReceivedDown, DownInv, DownArrived
<1>4. Holds(s2c', "eof") => sdown' = "done"
  BY <1>0, DownNumbers, HoldsTail DEF DownInv, DownOnStream
<1>5. Head(s2c).kind = "eof" => sdown = "done"
  BY <1>0, DownNumbers, HoldsHead DEF DownInv, DownOnStream
<1>6. ASSUME lend # "gone"
      PROVE  /\ Numbered(Tail(s2c), Delivered + IsChunk(Head(s2c)))
             /\ EndsAfter(Tail(s2c), Delivered + IsChunk(Head(s2c)), SentDown)
             /\ Head(s2c).kind = "payload" => Head(s2c).n = Delivered + 1
             /\ Head(s2c).kind = "eof" => SentDown = Delivered
             /\ Lossless => SentDown = Delivered + IsChunk(Head(s2c)) + Chunks(Tail(s2c), Len(Tail(s2c)))
  <2>1. /\ Numbered(s2c, Delivered) /\ EndsAfter(s2c, Delivered, SentDown)
        /\ Lossless => SentDown = Delivered + Chunks(s2c, Len(s2c))
    BY <1>0, <1>3, <1>6 DEF DownInv, DownOnStream, Listening
  <2>2. IsChunk(Head(s2c)) \in Nat
    BY DEF IsChunk
  <2> QED BY <1>0, <2>1, <2>2, DownNumbers, NumberedTail, EndsTail
<1>7. CASE Head(s2c).kind = "payload" /\ crecv' = "write" /\ cchunk' = Head(s2c).n /\ UNCHANGED crecverr
  <2>1. IsChunk(Head(s2c)) = 1 /\ ReceivedDown' = Delivered + 1
    BY <1>2, <1>7 DEF IsChunk, ReceivedDown
  <2>2. DownOnStream'
    BY <1>0, <1>2, <1>4, <1>6, <1>7, <2>1, DownOnStreamNext DEF Listening
  <2>3. DownArrived'
    BY <1>0, <1>2, <1>3, <1>7, DownArrivedNext DEF DownInv, DownArrived
  <2> QED BY <1>1, <2>2, <2>3 DEF DownInv
<1>8. CASE Head(s2c).kind = "accepted" /\ UNCHANGED <<crecv, crecverr, cchunk>>
  <2>1. IsChunk(Head(s2c)) = 0 /\ ReceivedDown' = Delivered /\ Delivered + 0 = Delivered
    BY <1>0, <1>2, <1>8, DownNumbers DEF IsChunk, ReceivedDown
  <2>2. DownOnStream'
    BY <1>0, <1>2, <1>4, <1>6, <1>8, <2>1, DownOnStreamNext DEF Listening
  <2>3. DownArrived'
    BY <1>0, <1>2, <1>3, <1>8, DownArrivedNext DEF DownInv, DownArrived
  <2> QED BY <1>1, <2>2, <2>3 DEF DownInv
<1>9. CASE crecv' = "ended" /\ crecverr' \in {"eof", "fail"} /\ (crecverr' = "eof" => Head(s2c).kind = "eof")
  <2>1. DownOnStream'
    BY <1>4, <1>9, DownOnStreamNext DEF Listening
  <2>2. DownArrived'
    BY <1>0, <1>2, <1>5, <1>6, <1>9, DownArrivedNext DEF DownInv, DownArrived
  <2> QED BY <1>1, <2>1, <2>2 DEF DownInv
<1> QED BY <1>7, <1>8, <1>9 DEF RecvDown

LEMMA RecvDownFailsDown ==
    ASSUME TypeOK, ServerOrder, DownInv, RecvDownFails, UNCHANGED serverVars PROVE DownInv'
<1>0. /\ UNCHANGED <<s2c, stream, out, lend, sdown, tsent, tq, proxy>> /\ crecv = "recv" /\ crecv' = "ended"
  BY DEF RecvDownFails
<1>1. TargetQueue' /\ TargetsOwnEnd'
  BY <1>0 DEF DownInv, TargetQueue, TargetsOwnEnd
<1>2. Delivered' = Delivered /\ SentDown' = SentDown
  BY <1>0 DEF Delivered, Chunks, SentDown
<1>3. crecverr' = "eof" /\ stream # "broken" => s2c = <<>> /\ stream = "finished"
  BY DEF RecvDownFails, ClientRecvError
<1>4. ASSUME crecverr' = "eof", stream # "broken", lend # "gone"
      PROVE  sdown = "done" /\ Delivered = SentDown
  <2>1. sdown = "done"
    BY <1>3, <1>4 DEF DownInv, TargetsOwnEnd, ServerOrder
  <2>2. SentDown = ReceivedDown + Chunks(s2c, Len(s2c))
    BY <1>0, <1>3, <1>4 DEF DownInv, DownOnStream, Listening, Lossless
  <2>3. Len(s2c) = 0 /\ Chunks(s2c, 0) = 0
    BY <1>3, <1>4, ChunksNone
  <2>4. ReceivedDown = Delivered
    BY <1>0, DownNumbers DEF ReceivedDown
  <2> QED BY <2>1, <2>2, <2>3, <2>4, DownNumbers
<1>5. DownOnStream'
  BY <1>0, DownOnStreamNext DEF DownInv, DownOnStream, Listening
<1>6. DownArrived'
  BY <1>0, <1>2, <1>4, DownArrivedNext DEF DownInv, DownArrived
<1> QED BY <1>1, <1>5, <1>6 DEF DownInv

LEMMA WriteDownDown ==
    ASSUME TypeOK, ServerOrder, DownInv, WriteDown, UNCHANGED serverVars PROVE DownInv'
<1>0. UNCHANGED <<s2c, stream, lend, sdown, tsent, tq, cchunk, proxy>> /\ crecv = "write"
  BY DEF WriteDown
<1>1. TargetQueue' /\ TargetsOwnEnd'
  BY <1>0 DEF DownInv, TargetQueue, TargetsOwnEnd
<1>2. SentDown' = SentDown /\ crecverr = "none" /\ (Lossless' <=> Lossless)
  BY <1>0 DEF SentDown, DownInv, DownArrived, Lossless
<1>3. CASE Reachable /\ out' = Append(out, Payload(cchunk)) /\ crecv' = "recv" /\ UNCHANGED crecverr
  <2>1. Listening
    BY <1>0, <1>3 DEF Reachable, Listening
  <2>2. cchunk = Delivered + 1 /\ ReceivedDown = Delivered + 1
    BY <1>0, <2>1 DEF DownInv, DownOnStream, ReceivedDown
  <2>3. Payload(cchunk) \in Received /\ Payload(cchunk).kind = "payload" /\ Payload(cchunk).n = cchunk
        /\ IsChunk(Payload(cchunk)) = 1
    BY DEF TypeOK, ClientTypeOK, Payload, Received, IsChunk
  <2>4. Len(out') = Len(out) + 1 /\ Chunks(out', Len(out) + 1) = Chunks(out, Len(out)) + 1
    BY <1>3, <2>3, DownNumbers, ChunksAppend
  <2>5. Delivered' = Delivered + 1
    BY <2>4, DeliveredNext DEF Delivered
  <2>6. ReceivedDown' = ReceivedDown
    BY <1>3, <2>2, <2>5, DownNumbers DEF ReceivedDown
  <2>7. Numbered(out', 0)
    <3>1. Payload(cchunk).n = 0 + Chunks(out, Len(out)) + 1
      BY <2>2, <2>3, DownNumbers DEF Delivered
    <3> QED BY <1>3, <2>3, <3>1, DownNumbers, NumberedAppend DEF DownInv, DownArrived
  <2>8. DownOnStream'
    BY <1>0, <1>2, <1>3, <2>1, <2>6, DownOnStreamNext DEF DownInv, DownOnStream
  <2>9. DownArrived'
    BY <1>2, <1>3, <2>7, DownArrivedNext
  <2> QED BY <1>1, <2>8, <2>9 DEF DownInv
<1>4. CASE /\ out' = out
           /\ \/ crecv' = "ended" /\ crecverr' = "fail"
              \/ lend = "gone" /\ crecv' = "recv" /\ UNCHANGED crecverr
  <2>1. ~Listening'
    BY <1>0, <1>4 DEF Listening
  <2>2. DownOnStream'
    BY <1>0, <2>1, DownOnStreamNext DEF DownInv, DownOnStream
  <2>3. DownArrived'
    BY <1>0, <1>2, <1>4, DownArrivedNext DEF DownInv, DownArrived
  <2> QED BY <1>1, <2>2, <2>3 DEF DownInv
<1> QED BY <1>3, <1>4 DEF WriteDown

LEMMA DownStep == TypeOK /\ ServerOrder /\ ClientOrder /\ DownInv /\ [Next]_vars => DownInv'
<1>1. ASSUME TypeOK, ServerOrder, ClientOrder, DownInv, Next PROVE DownInv'
  <2>1. CASE Client(OpenStream)
    BY <1>1, <2>1, OpenStreamDown
  <2>2. CASE Client(Handshake)
    BY <1>1, <2>2, HandshakeDown
  <2>3. CASE Client(HandshakeFails)
    BY <1>1, <2>3, HandshakeFailsDown
  <2>4. CASE Client(ProxyWaited)
    BY <1>1, <2>4, DownFrame DEF ProxyWaited, ProxyReturns
  <2>5. CASE Client(StreamCancelled)
    BY <1>1, <2>5, StreamCancelledDown DEF StreamCancelled
  <2>6. CASE Client(RecvDown)
    BY <1>1, <2>6, RecvDownDown
  <2>7. CASE Client(RecvDownFails)
    BY <1>1, <2>7, RecvDownFailsDown
  <2>8. CASE Client(WriteDown)
    BY <1>1, <2>8, WriteDownDown
  <2>9. CASE Client(DownEnds)
    BY <1>1, <2>9, DownFrame DEF DownEnds
  <2>10. CASE Client(DownCancels)
    BY <1>1, <2>10, DownFrame DEF DownCancels
  <2>11. CASE Client(DownDrained)
    BY <1>1, <2>11, DownFrame DEF DownDrained
  <2>12. CASE Client(ReadUp)
    BY <1>1, <2>12, DownFrame DEF ReadUp
  <2>13. CASE Client(SendUp)
    BY <1>1, <2>13, DownFrame DEF SendUp, ClientSend
  <2>14. CASE Client(UpEnds)
    BY <1>1, <2>14, DownFrame DEF UpEnds
  <2>15. CASE Client(AckSelect)
    BY <1>1, <2>15, DownFrame DEF AckSelect
  <2>16. CASE Client(AckOffered)
    BY <1>1, <2>16, DownFrame DEF AckOffered
  <2>17. CASE Client(AckCancelled)
    BY <1>1, <2>17, DownFrame DEF AckCancelled
  <2>18. CASE Client(ReplySuccess)
    BY <1>1, <2>18, ReplySuccessDown
  <2>19. CASE Client(ReplyFailure)
    BY <1>1, <2>19, ReplyFailureDown
  <2>20. CASE Client(ProxyRecorded)
    BY <1>1, <2>20, DownFrame DEF ProxyRecorded
  <2>21. CASE Client(HandlerEnds)
    BY <1>1, <2>21, HandlerEndsDown
  <2>22. CASE Client(LocalSends)
    BY <1>1, <2>22, DownFrame DEF LocalSends
  <2>23. CASE Client(LocalEOF)
    BY <1>1, <2>23, LocalEOFDown
  <2>24. CASE Server(Refuse)
    BY <1>1, <2>24, RefuseDown
  <2>25. CASE Server(Serve)
    BY <1>1, <2>25, ServeDown
  <2>26. CASE Server(UpHeader)
    BY <1>1, <2>26, UpHeaderDown
  <2>27. CASE Server(UpNoHeader)
    BY <1>1, <2>27, UpNoHeaderDown
  <2>28. CASE Server(UpDialled)
    BY <1>1, <2>28, DownFrame DEF UpDialled
  <2>29. CASE Server(UpDialFails)
    BY <1>1, <2>29, DownFrame DEF UpDialFails
  <2>30. CASE Server(UpSendError)
    BY <1>1, <2>30, UpSendErrorDown
  <2>31. CASE Server(UpReceiverEnded)
    BY <1>1, <2>31, UpReceiverEndedDown
  <2>32. CASE Server(UpCancelled)
    BY <1>1, <2>32, UpCancelledDown
  <2>33. CASE Server(UpGroup)
    BY <1>1, <2>33, UpGroupDown
  <2>34. CASE Server(RecvUp)
    BY <1>1, <2>34, DownFrame DEF RecvUp, ServerRecv
  <2>35. CASE Server(RecvUpFails)
    BY <1>1, <2>35, RecvUpFailsDown
  <2>36. CASE Server(WriteUp)
    BY <1>1, <2>36, WriteUpDown
  <2>37. CASE Server(DownAwait)
    BY <1>1, <2>37, DownAwaitDown
  <2>38. CASE Server(DownAccept)
    BY <1>1, <2>38, DownAcceptDown
  <2>39. CASE Server(DownRead)
    BY <1>1, <2>39, DownReadDown
  <2>40. CASE Server(DownReadEnds)
    BY <1>1, <2>40, DownReadEndsDown
  <2>41. CASE Server(DownSend)
    BY <1>1, <2>41, DownSendDown
  <2>42. CASE Server(DownGroup)
    BY <1>1, <2>42, DownGroupDown
  <2>43. CASE Server(Watch)
    BY <1>1, <2>43, DownFrame DEF Watch
  <2>44. CASE Server(HandlerLeaves)
    BY <1>1, <2>44, HandlerLeavesDown
  <2>45. CASE Server(HandlerWaited)
    BY <1>1, <2>45, HandlerWaitedDown
  <2>46. CASE Server(HandlerSendsEOF)
    BY <1>1, <2>46, HandlerSendsEOFDown
  <2>47. CASE Server(TargetSends)
    BY <1>1, <2>47, TargetSendsDown
  <2>48. CASE Server(TargetEOF)
    BY <1>1, <2>48, TargetEOFDown
  <2>49. CASE Server(ForcedStop)
    BY <1>1, <2>49, ForcedStopDown DEF ForcedStop
  <2>50. CASE ClientMeets("local gone", LocalGone)
    BY <1>1, <2>50, LocalGoneDown
  <2>51. CASE ClientMeets("front stops", FrontStops)
    BY <1>1, <2>51, DownFrame DEF FrontStops
  <2>52. CASE ServerMeets("target resets", TargetResets)
    BY <1>1, <2>52, TargetResetsDown
  <2>53. CASE ServerMeets("server stops", ServerStops)
    BY <1>1, <2>53, DownFrame DEF ServerStops
  <2>54. CASE ServerMeets("stream breaks", StreamBreaks)
    BY <1>1, <2>54, StreamBreaksDown DEF StreamBreaks
  <2> QED
    BY <1>1, <2>1, <2>2, <2>3, <2>4, <2>5, <2>6, <2>7, <2>8, <2>9, <2>10, <2>11, <2>12,
       <2>13, <2>14, <2>15, <2>16, <2>17, <2>18, <2>19, <2>20, <2>21, <2>22, <2>23, <2>24,
       <2>25, <2>26, <2>27, <2>28, <2>29, <2>30, <2>31, <2>32, <2>33, <2>34, <2>35, <2>36,
       <2>37, <2>38, <2>39, <2>40, <2>41, <2>42, <2>43, <2>44, <2>45, <2>46, <2>47, <2>48,
       <2>49, <2>50, <2>51, <2>52, <2>53, <2>54 DEF Next
<1>2. ASSUME TypeOK, ServerOrder, ClientOrder, DownInv, UNCHANGED vars PROVE DownInv'
  BY <1>2, DownFrame
<1> QED BY <1>1, <1>2

----------------------------------------------------------------------------
(* Upload *)

SentUp == lsent - Len(lq) - IF cread = "send" THEN 1 ELSE 0
ReceivedUp == Len(tgot) + IF srecv = "write" THEN 1 ELSE 0

(* The header has not been taken from the stream. *)
BeforeHeader == sup \in {"idle", "header"}

LocalQueue ==
    /\ \A i \in 1..Len(lq) : lq[i] = lsent - Len(lq) + i
    /\ cread = "send" => uchunk = lsent - Len(lq)

UpOnStream ==
    srecv # "ended" =>
        /\ Numbered(c2s, ReceivedUp)
        /\ stream \in {"none", "open"} => SentUp = ReceivedUp + Chunks(c2s, Len(c2s))
        /\ srecv = "write" => schunk = Len(tgot) + 1

UpArrived == \A i \in 1..Len(tgot) : tgot[i] = i

(* The header goes first, and is taken before the first chunk. *)
HeaderFirst ==
    /\ proxy = "open" => stream = "none"
    /\ proxy \in {"open", "handshake"} => c2s = <<>> /\ cread = "idle"
    /\ proxy \in {"open", "handshake"} /\ stream \in {"none", "open"} => BeforeHeader
    /\ \A i \in 1..Len(c2s) : c2s[i].kind = IF i = 1 /\ BeforeHeader THEN "header" ELSE "payload"
    /\ cread # "idle" /\ stream = "open" /\ BeforeHeader => c2s # <<>>
    /\ srecv # "idle" => sup \in Dialled

UpInv == LocalQueue /\ UpOnStream /\ UpArrived /\ HeaderFirst

(* The same, said of the next state. *)
LEMMA UpOnStreamNext ==
    UpOnStream' <=>
        (srecv' # "ended" =>
            /\ Numbered(c2s', ReceivedUp')
            /\ stream' \in {"none", "open"} => SentUp' = ReceivedUp' + Chunks(c2s', Len(c2s'))
            /\ srecv' = "write" => schunk' = Len(tgot') + 1)
BY DEF UpOnStream, Numbered, Chunks

LEMMA UpNumbers ==
    ASSUME TypeOK
    PROVE  /\ c2s \in Seq(Message) /\ tgot \in Seq(Nat) /\ lq \in Seq(Nat)
           /\ Len(tgot) \in Nat /\ ReceivedUp \in Nat /\ SentUp \in Int
           /\ Chunks(c2s, Len(c2s)) \in Nat
<1>1. c2s \in Seq(Message) /\ tgot \in Seq(Nat) /\ lq \in Seq(Nat) /\ lsent \in Nat
  BY DEF TypeOK, StreamTypeOK, ClientTypeOK, ServerTypeOK
<1>2. Len(c2s) \in Nat /\ Len(tgot) \in Nat /\ Len(lq) \in Nat
  BY <1>1
<1>3. Chunks(c2s, Len(c2s)) \in Nat
  BY <1>2, ChunksType
<1> QED BY <1>1, <1>2, <1>3 DEF ReceivedUp, SentUp

LEMMA UpInit == Init => UpInv
<1> SUFFICES ASSUME Init PROVE UpInv
  OBVIOUS
<1> USE DEF Init, StreamInit, ClientInit, ServerInit
<1>1. Len(c2s) = 0 /\ Len(tgot) = 0 /\ Len(lq) = 0 /\ lsent = 0 /\ cread = "idle" /\ srecv = "idle"
  OBVIOUS
<1>2. Chunks(c2s, Len(c2s)) = 0
  BY <1>1, ChunksNone
<1>3. ReceivedUp = Len(tgot) + 0 /\ SentUp = lsent - Len(lq) - 0
  BY <1>1 DEF ReceivedUp, SentUp
<1>4. LocalQueue /\ UpArrived
  BY <1>1 DEF LocalQueue, UpArrived
<1>5. UpOnStream
  BY <1>1, <1>2, <1>3 DEF UpOnStream, Numbered
<1>6. HeaderFirst
  BY <1>1 DEF HeaderFirst, BeforeHeader
<1> QED BY <1>4, <1>5, <1>6 DEF UpInv

(* A step that moves nothing along the stream, nor to the target. *)
LEMMA UpStill ==
    ASSUME TypeOK, UpOnStream, UNCHANGED <<tgot, schunk, c2s>>,
           srecv' = srecv \/ (srecv = "idle" /\ srecv' = "recv") \/ srecv' = "ended",
           SentUp' = SentUp, stream' \in {"none", "open"} => stream \in {"none", "open"}
    PROVE  UpOnStream'
<1>1. CASE srecv' = "ended"
  BY <1>1, UpOnStreamNext
<1>2. CASE srecv' # "ended"
  <2>1. ReceivedUp' = ReceivedUp /\ srecv # "ended"
    BY <1>2 DEF ReceivedUp
  <2> QED BY <2>1, <1>2, UpOnStreamNext DEF UpOnStream
<1> QED BY <1>1, <1>2

(* The client sends. *)
LEMMA UpSends ==
    ASSUME TypeOK, UpOnStream, NEW m \in Message, c2s' = Append(c2s, m),
           UNCHANGED <<tgot, schunk, srecv, stream>>, stream = "open",
           m.kind = "payload" => m.n = SentUp + 1,
           SentUp' = SentUp + IsChunk(m)
    PROVE  UpOnStream'
<1>0. IsChunk(m) \in {0, 1}
  BY DEF IsChunk
<1>1. ReceivedUp' = ReceivedUp
  BY DEF ReceivedUp
<1>2. ASSUME srecv # "ended"
      PROVE  Numbered(c2s', ReceivedUp) /\ SentUp' = ReceivedUp + Chunks(c2s', Len(c2s'))
  <2>1. SentUp = ReceivedUp + Chunks(c2s, Len(c2s)) /\ Numbered(c2s, ReceivedUp)
    BY <1>2 DEF UpOnStream
  <2>2. Numbered(c2s', ReceivedUp)
    BY <2>1, UpNumbers, NumberedAppend
  <2>3. Len(c2s') = Len(c2s) + 1 /\ Chunks(c2s', Len(c2s) + 1) = Chunks(c2s, Len(c2s)) + IsChunk(m)
    BY UpNumbers, ChunksAppend
  <2> QED BY <1>0, <2>1, <2>2, <2>3, UpNumbers
<1> QED BY <1>1, <1>2, UpOnStreamNext DEF UpOnStream

(* The stream loses what had not been received. *)
LEMMA UpLoses ==
    ASSUME TypeOK, UpOnStream, c2s' \in Beginnings(c2s), stream' \in {"cancelled", "broken", "finished"},
           UNCHANGED <<tgot, schunk, srecv>>
    PROVE  UpOnStream'
<1>1. ReceivedUp' = ReceivedUp
  BY DEF ReceivedUp
<1>2. srecv # "ended" => Numbered(c2s', ReceivedUp)
  BY UpNumbers, NumberedBeginning DEF UpOnStream
<1> QED BY <1>1, <1>2, UpOnStreamNext DEF UpOnStream

LEMMA UpHeaderLoss ==
    ASSUME TypeOK, HeaderFirst, c2s' \in Beginnings(c2s), stream # "none", stream' \notin {"none", "open"},
           UNCHANGED <<proxy, cread, sup, srecv>>
    PROVE  HeaderFirst'
<1>1. PICK l \in 0..Len(c2s) : c2s' = SubSeq(c2s, 1, l)
  BY DEF Beginnings
<1>2. \A j \in 1..l : c2s[j] \in Message
  BY UpNumbers, ElementOfSeq
<1>3. Len(c2s') = l /\ l \in Nat /\ l <= Len(c2s) /\ \A j \in 1..l : c2s'[j] = c2s[j]
  BY <1>1, <1>2, UpNumbers, SubSeqProperties
<1>4. c2s = <<>> => c2s' = <<>>
  BY <1>1, <1>3, UpNumbers
<1> QED BY <1>3, <1>4 DEF HeaderFirst, BeforeHeader

(* A step of the goroutines that have no part in the upload. *)
LEMMA UpFrame ==
    ASSUME TypeOK, UpInv,
           UNCHANGED <<lq, lsent, cread, uchunk, c2s, stream, sup, srecv, schunk, tgot>>,
           proxy' \in {"open", "handshake"} => proxy' = proxy
    PROVE  UpInv'
<1>1. LocalQueue' /\ UpArrived'
  BY DEF UpInv, LocalQueue, UpArrived
<1>2. HeaderFirst'
  BY DEF UpInv, HeaderFirst, BeforeHeader, Dialled
<1>3. SentUp' = SentUp
  BY DEF SentUp
<1>4. UpOnStream'
  BY <1>3, UpStill DEF UpInv
<1> QED BY <1>1, <1>2, <1>4 DEF UpInv

LEMMA OpenStreamUp ==
    ASSUME TypeOK, ServerOrder, UpInv, OpenStream, UNCHANGED serverVars PROVE UpInv'
<1> USE DEF OpenStream, ProxyReturns
<1>1. LocalQueue' /\ UpArrived'
  BY DEF UpInv, LocalQueue, UpArrived
<1>2. HeaderFirst'
  BY DEF UpInv, HeaderFirst, BeforeHeader, Dialled, ServerOrder
<1>3. SentUp' = SentUp /\ (stream' \in {"none", "open"} => stream \in {"none", "open"})
  BY DEF SentUp, UpInv, HeaderFirst
<1>4. UpOnStream'
  BY <1>3, UpStill DEF UpInv, HeaderFirst, Dialled
<1> QED BY <1>1, <1>2, <1>4 DEF UpInv

LEMMA RefuseUp ==
    ASSUME TypeOK, ServerOrder, UpInv, Refuse, UNCHANGED clientVars PROVE UpInv'
<1> USE DEF Refuse
<1>1. LocalQueue' /\ UpArrived'
  BY DEF UpInv, LocalQueue, UpArrived
<1>2. HeaderFirst'
  BY DEF UpInv, HeaderFirst, BeforeHeader, Dialled, ServerOrder
<1>3. SentUp' = SentUp /\ (stream' \in {"none", "open"} => stream \in {"none", "open"})
  BY DEF SentUp, UpInv, HeaderFirst
<1>4. UpOnStream'
  BY <1>3, UpStill DEF UpInv, HeaderFirst, Dialled
<1> QED BY <1>1, <1>2, <1>4 DEF UpInv

LEMMA ServeUp ==
    ASSUME TypeOK, ServerOrder, UpInv, Serve, UNCHANGED clientVars PROVE UpInv'
<1> USE DEF Serve
<1>1. LocalQueue' /\ UpArrived'
  BY DEF UpInv, LocalQueue, UpArrived
<1>2. HeaderFirst'
  BY DEF UpInv, HeaderFirst, BeforeHeader, Dialled, ServerOrder
<1>3. SentUp' = SentUp /\ (stream' \in {"none", "open"} => stream \in {"none", "open"})
  BY DEF SentUp, UpInv, HeaderFirst
<1>4. UpOnStream'
  BY <1>3, UpStill DEF UpInv, HeaderFirst, Dialled
<1> QED BY <1>1, <1>2, <1>4 DEF UpInv

LEMMA UpNoHeaderUp ==
    ASSUME TypeOK, ServerOrder, UpInv, UpNoHeader, UNCHANGED clientVars PROVE UpInv'
<1> USE DEF UpNoHeader, UpReturn, ServerRecvError
<1>1. LocalQueue' /\ UpArrived'
  BY DEF UpInv, LocalQueue, UpArrived
<1>2. HeaderFirst'
  BY DEF UpInv, HeaderFirst, BeforeHeader, Dialled, ServerOrder
<1>3. SentUp' = SentUp /\ (stream' \in {"none", "open"} => stream \in {"none", "open"})
  BY DEF SentUp, UpInv, HeaderFirst
<1>4. UpOnStream'
  BY <1>3, UpStill DEF UpInv, HeaderFirst, Dialled
<1> QED BY <1>1, <1>2, <1>4 DEF UpInv

LEMMA UpDialledUp ==
    ASSUME TypeOK, ServerOrder, UpInv, UpDialled, UNCHANGED clientVars PROVE UpInv'
<1> USE DEF UpDialled
<1>1. LocalQueue' /\ UpArrived'
  BY DEF UpInv, LocalQueue, UpArrived
<1>2. HeaderFirst'
  BY DEF UpInv, HeaderFirst, BeforeHeader, Dialled, ServerOrder
<1>3. SentUp' = SentUp /\ (stream' \in {"none", "open"} => stream \in {"none", "open"})
  BY DEF SentUp, UpInv, HeaderFirst
<1>4. UpOnStream'
  BY <1>3, UpStill DEF UpInv, HeaderFirst, Dialled
<1> QED BY <1>1, <1>2, <1>4 DEF UpInv

LEMMA UpDialFailsUp ==
    ASSUME TypeOK, ServerOrder, UpInv, UpDialFails, UNCHANGED clientVars PROVE UpInv'
<1> USE DEF UpDialFails
<1>1. LocalQueue' /\ UpArrived'
  BY DEF UpInv, LocalQueue, UpArrived
<1>2. HeaderFirst'
  BY DEF UpInv, HeaderFirst, BeforeHeader, Dialled, ServerOrder
<1>3. SentUp' = SentUp /\ (stream' \in {"none", "open"} => stream \in {"none", "open"})
  BY DEF SentUp, UpInv, HeaderFirst
<1>4. UpOnStream'
  BY <1>3, UpStill DEF UpInv, HeaderFirst, Dialled
<1> QED BY <1>1, <1>2, <1>4 DEF UpInv

LEMMA UpSendErrorUp ==
    ASSUME TypeOK, ServerOrder, UpInv, UpSendError, UNCHANGED clientVars PROVE UpInv'
<1> USE DEF UpSendError, UpReturn, ServerSend
<1>1. LocalQueue' /\ UpArrived'
  BY DEF UpInv, LocalQueue, UpArrived
<1>2. HeaderFirst'
  BY DEF UpInv, HeaderFirst, BeforeHeader, Dialled, ServerOrder
<1>3. SentUp' = SentUp /\ (stream' \in {"none", "open"} => stream \in {"none", "open"})
  BY DEF SentUp, UpInv, HeaderFirst
<1>4. UpOnStream'
  BY <1>3, UpStill DEF UpInv, HeaderFirst, Dialled
<1> QED BY <1>1, <1>2, <1>4 DEF UpInv

LEMMA UpReceiverEndedUp ==
    ASSUME TypeOK, ServerOrder, UpInv, UpReceiverEnded, UNCHANGED clientVars PROVE UpInv'
<1> USE DEF UpReceiverEnded, UpReturn
<1>1. LocalQueue' /\ UpArrived'
  BY DEF UpInv, LocalQueue, UpArrived
<1>2. HeaderFirst'
  BY DEF UpInv, HeaderFirst, BeforeHeader, Dialled, ServerOrder
<1>3. SentUp' = SentUp /\ (stream' \in {"none", "open"} => stream \in {"none", "open"})
  BY DEF SentUp, UpInv, HeaderFirst
<1>4. UpOnStream'
  BY <1>3, UpStill DEF UpInv, HeaderFirst, Dialled
<1> QED BY <1>1, <1>2, <1>4 DEF UpInv

LEMMA UpCancelledUp ==
    ASSUME TypeOK, ServerOrder, UpInv, UpCancelled, UNCHANGED clientVars PROVE UpInv'
<1> USE DEF UpCancelled, UpReturn
<1>1. LocalQueue' /\ UpArrived'
  BY DEF UpInv, LocalQueue, UpArrived
<1>2. HeaderFirst'
  BY DEF UpInv, HeaderFirst, BeforeHeader, Dialled, ServerOrder
<1>3. SentUp' = SentUp /\ (stream' \in {"none", "open"} => stream \in {"none", "open"})
  BY DEF SentUp, UpInv, HeaderFirst
<1>4. UpOnStream'
  BY <1>3, UpStill DEF UpInv, HeaderFirst, Dialled
<1> QED BY <1>1, <1>2, <1>4 DEF UpInv

LEMMA UpGroupUp ==
    ASSUME TypeOK, ServerOrder, UpInv, UpGroup, UNCHANGED clientVars PROVE UpInv'
<1> USE DEF UpGroup
<1>1. LocalQueue' /\ UpArrived'
  BY DEF UpInv, LocalQueue, UpArrived
<1>2. HeaderFirst'
  BY DEF UpInv, HeaderFirst, BeforeHeader, Dialled, ServerOrder
<1>3. SentUp' = SentUp /\ (stream' \in {"none", "open"} => stream \in {"none", "open"})
  BY DEF SentUp, UpInv, HeaderFirst
<1>4. UpOnStream'
  BY <1>3, UpStill DEF UpInv, HeaderFirst, Dialled
<1> QED BY <1>1, <1>2, <1>4 DEF UpInv

LEMMA RecvUpFailsUp ==
    ASSUME TypeOK, ServerOrder, UpInv, RecvUpFails, UNCHANGED clientVars PROVE UpInv'
<1> USE DEF RecvUpFails
<1>1. LocalQueue' /\ UpArrived'
  BY DEF UpInv, LocalQueue, UpArrived
<1>2. HeaderFirst'
  BY DEF UpInv, HeaderFirst, BeforeHeader, Dialled, ServerOrder
<1>3. SentUp' = SentUp /\ (stream' \in {"none", "open"} => stream \in {"none", "open"})
  BY DEF SentUp, UpInv, HeaderFirst
<1>4. UpOnStream'
  BY <1>3, UpStill DEF UpInv, HeaderFirst, Dialled
<1> QED BY <1>1, <1>2, <1>4 DEF UpInv

LEMMA StreamCancelledUp ==
    ASSUME TypeOK, ServerOrder, UpInv, StreamCancelled, UNCHANGED <<clientVars, serverVars>> PROVE UpInv'
<1> USE DEF StreamCancelled, Cancel
<1>1. LocalQueue' /\ UpArrived'
  BY DEF UpInv, LocalQueue, UpArrived
<1>2. HeaderFirst'
  BY UpHeaderLoss DEF UpInv
<1>3. UpOnStream'
  BY UpLoses DEF UpInv
<1> QED BY <1>1, <1>2, <1>3 DEF UpInv

LEMMA ForcedStopUp ==
    ASSUME TypeOK, ServerOrder, UpInv, ForcedStop, UNCHANGED <<clientVars, serverVars>> PROVE UpInv'
<1> USE DEF ForcedStop, Break
<1>1. LocalQueue' /\ UpArrived'
  BY DEF UpInv, LocalQueue, UpArrived
<1>2. HeaderFirst'
  BY UpHeaderLoss DEF UpInv
<1>3. UpOnStream'
  BY UpLoses DEF UpInv
<1> QED BY <1>1, <1>2, <1>3 DEF UpInv

LEMMA StreamBreaksUp ==
    ASSUME TypeOK, ServerOrder, UpInv, StreamBreaks, UNCHANGED <<clientVars, serverVars>> PROVE UpInv'
<1> USE DEF StreamBreaks, Break
<1>1. LocalQueue' /\ UpArrived'
  BY DEF UpInv, LocalQueue, UpArrived
<1>2. HeaderFirst'
  BY UpHeaderLoss DEF UpInv
<1>3. UpOnStream'
  BY UpLoses DEF UpInv
<1> QED BY <1>1, <1>2, <1>3 DEF UpInv

LEMMA HandlerSendsEOFUp ==
    ASSUME TypeOK, ServerOrder, UpInv, HandlerSendsEOF, UNCHANGED clientVars PROVE UpInv'
<1> USE DEF HandlerSendsEOF, HandlerReturns
<1>1. LocalQueue' /\ UpArrived'
  BY DEF UpInv, LocalQueue, UpArrived
<1>2. CASE stream = "open" /\ stream' = "finished" /\ c2s' = <<>>
  <2>1. SubSeq(c2s, 1, 0) = <<>>
    BY UpNumbers
  <2>2. c2s' \in Beginnings(c2s)
    <3>1. 0 \in 0..Len(c2s)
      BY UpNumbers
    <3> QED BY <1>2, <2>1, <3>1 DEF Beginnings
  <2>3. HeaderFirst'
    BY <1>2, <2>2, UpHeaderLoss DEF UpInv
  <2>4. UpOnStream'
    BY <1>2, <2>2, UpLoses DEF UpInv
  <2> QED BY <1>1, <2>3, <2>4 DEF UpInv
<1>3. CASE UNCHANGED streamVars
  BY <1>3, UpFrame
<1> QED BY <1>2, <1>3

LEMMA WriteUpUp ==
    ASSUME TypeOK, ServerOrder, UpInv, WriteUp, UNCHANGED clientVars PROVE UpInv'
<1>0. srecv = "write" /\ UNCHANGED <<c2s, stream, schunk, sup, lq, lsent, cread, uchunk, proxy>>
  BY DEF WriteUp
<1>1. LocalQueue'
  BY <1>0 DEF UpInv, LocalQueue
<1>2. HeaderFirst'
  BY <1>0 DEF UpInv, HeaderFirst, BeforeHeader, Dialled
<1>3. SentUp' = SentUp
  BY <1>0 DEF SentUp
<1>4. CASE tgot' = Append(tgot, schunk) /\ srecv' = "recv"
  <2>1. schunk = Len(tgot) + 1 /\ schunk \in Nat
    BY <1>0 DEF UpInv, UpOnStream, TypeOK, ServerTypeOK
  <2>2. Len(tgot') = Len(tgot) + 1 /\ tgot'[Len(tgot) + 1] = schunk
        /\ \A i \in 1..Len(tgot) : tgot'[i] = tgot[i]
    BY <1>4, <2>1, UpNumbers
  <2>3. UpArrived'
    <3> SUFFICES ASSUME NEW i \in 1..(Len(tgot) + 1) PROVE tgot'[i] = i
      BY <2>2 DEF UpArrived
    <3>1. CASE i = Len(tgot) + 1
      BY <2>1, <2>2, <3>1
    <3>2. CASE i \in 1..Len(tgot)
      BY <2>2, <3>2 DEF UpInv, UpArrived
    <3> QED BY <3>1, <3>2, UpNumbers
  <2>4. ReceivedUp' = ReceivedUp
    BY <1>0, <1>4, <2>2, UpNumbers DEF ReceivedUp
  <2>5. UpOnStream'
    BY <1>0, <1>3, <1>4, <2>4, UpOnStreamNext DEF UpInv, UpOnStream
  <2> QED BY <1>1, <1>2, <2>3, <2>5 DEF UpInv
<1>5. CASE UNCHANGED tgot /\ srecv' = "ended"
  <2>1. UpArrived'
    BY <1>5 DEF UpInv, UpArrived
  <2>2. UpOnStream'
    BY <1>5, UpOnStreamNext
  <2> QED BY <1>1, <1>2, <2>1, <2>2 DEF UpInv
<1> QED BY <1>4, <1>5 DEF WriteUp

(* The first message is taken from the stream. *)
LEMMA UpTakes ==
    ASSUME TypeOK, UpOnStream, HeaderFirst, c2s # <<>>, c2s' = Tail(c2s), srecv # "ended",
           srecv # "write", UNCHANGED <<tgot, stream>>, SentUp' = SentUp,
           IF Head(c2s).kind = "payload" THEN srecv' = "write" /\ schunk' = Head(c2s).n
                                         ELSE srecv' = srecv
    PROVE  UpOnStream'
<1>1. ReceivedUp = Len(tgot)
  BY UpNumbers DEF ReceivedUp
<1>2. /\ Numbered(c2s, Len(tgot))
      /\ stream \in {"none", "open"} => SentUp = Len(tgot) + Chunks(c2s, Len(c2s))
  BY <1>1 DEF UpOnStream
<1>3. IsChunk(Head(c2s)) \in Nat /\ ReceivedUp' = Len(tgot) + IsChunk(Head(c2s))
  BY DEF IsChunk, ReceivedUp
<1>4. /\ Numbered(Tail(c2s), Len(tgot) + IsChunk(Head(c2s)))
      /\ Head(c2s).kind = "payload" => Head(c2s).n = Len(tgot) + 1
      /\ Chunks(c2s, Len(c2s)) = Chunks(Tail(c2s), Len(Tail(c2s))) + IsChunk(Head(c2s))
      /\ Chunks(Tail(c2s), Len(Tail(c2s))) \in Nat
  BY <1>2, UpNumbers, NumberedTail
<1>5. stream' \in {"none", "open"} => SentUp' = ReceivedUp' + Chunks(c2s', Len(c2s'))
  BY <1>2, <1>3, <1>4, UpNumbers
<1>6. srecv' = "write" => schunk' = Len(tgot') + 1
  BY <1>4
<1> QED BY <1>3, <1>4, <1>5, <1>6, UpOnStreamNext

LEMMA UpHeaderUp ==
    ASSUME TypeOK, ServerOrder, UpInv, UpHeader, UNCHANGED clientVars PROVE UpInv'
<1>0. /\ sup = "header" /\ sup' \in {"dial", "ret"} /\ c2s # <<>> /\ c2s' = Tail(c2s)
      /\ UNCHANGED <<stream, tgot, srecv, schunk, lq, lsent, cread, uchunk, proxy>>
  BY DEF UpHeader, UpReturn, ServerRecv
<1>1. LocalQueue' /\ UpArrived'
  BY <1>0 DEF UpInv, LocalQueue, UpArrived
<1>2. /\ Len(c2s) \in Nat \ {0} /\ Len(c2s') = Len(c2s) - 1 /\ Head(c2s) = c2s[1]
      /\ \A j \in 1..(Len(c2s) - 1) : c2s'[j] = c2s[j + 1]
  BY <1>0, UpNumbers
<1>3. Head(c2s).kind = "header" /\ \A i \in 2..Len(c2s) : c2s[i].kind = "payload"
  BY <1>0, <1>2 DEF UpInv, HeaderFirst, BeforeHeader, Dialled
<1>4. \A i \in 1..Len(c2s') : c2s'[i].kind = "payload"
  BY <1>2, <1>3
<1>5. srecv = "idle" /\ proxy \notin {"open", "handshake"} /\ ~BeforeHeader'
  BY <1>0 DEF UpInv, HeaderFirst, BeforeHeader, Dialled
<1>6. HeaderFirst'
  BY <1>0, <1>4, <1>5 DEF HeaderFirst
<1>7. SentUp' = SentUp
  BY <1>0 DEF SentUp
<1>8. UpOnStream'
  BY <1>0, <1>3, <1>5, <1>7, UpTakes DEF UpInv
<1> QED BY <1>1, <1>6, <1>8 DEF UpInv

LEMMA RecvUpUp ==
    ASSUME TypeOK, ServerOrder, UpInv, RecvUp, UNCHANGED clientVars PROVE UpInv'
<1>0. /\ srecv = "recv" /\ srecv' = "write" /\ c2s # <<>> /\ c2s' = Tail(c2s) /\ schunk' = Head(c2s).n
      /\ UNCHANGED <<stream, tgot, sup, lq, lsent, cread, uchunk, proxy>>
  BY DEF RecvUp, ServerRecv
<1>1. LocalQueue' /\ UpArrived'
  BY <1>0 DEF UpInv, LocalQueue, UpArrived
<1>2. /\ Len(c2s) \in Nat \ {0} /\ Len(c2s') = Len(c2s) - 1 /\ Head(c2s) = c2s[1]
      /\ \A j \in 1..(Len(c2s) - 1) : c2s'[j] = c2s[j + 1]
  BY <1>0, UpNumbers
<1>3. ~BeforeHeader /\ proxy \notin {"open", "handshake"} /\ \A i \in 1..Len(c2s) : c2s[i].kind = "payload"
  BY <1>0 DEF UpInv, HeaderFirst, BeforeHeader, Dialled
<1>4. Head(c2s).kind = "payload" /\ \A i \in 1..Len(c2s') : c2s'[i].kind = "payload"
  BY <1>2, <1>3
<1>5. ~BeforeHeader'
  BY <1>0, <1>3 DEF BeforeHeader
<1>6. HeaderFirst'
  BY <1>0, <1>3, <1>4, <1>5 DEF UpInv, HeaderFirst
<1>7. SentUp' = SentUp
  BY <1>0 DEF SentUp
<1>8. UpOnStream'
  BY <1>0, <1>4, <1>7, UpTakes DEF UpInv
<1> QED BY <1>1, <1>6, <1>8 DEF UpInv

(* The header is put into the empty stream. *)
LEMMA HeaderSent ==
    ASSUME TypeOK, UpInv, proxy = "handshake", ClientSend(Signal("header")),
           proxy' \in {"wait", "returned"}, cread' \in {"idle", "read"},
           UNCHANGED <<lq, lsent, uchunk, sup, srecv, schunk, tgot>>
    PROVE  UpInv'
<1>0. /\ stream = "open" /\ stream' = "open" /\ c2s = <<>> /\ c2s' = Append(c2s, Signal("header"))
      /\ cread = "idle" /\ BeforeHeader /\ srecv = "idle" /\ BeforeHeader'
  BY DEF ClientSend, UpInv, HeaderFirst, BeforeHeader, Dialled
<1>1. Signal("header") \in Message /\ Signal("header").kind = "header" /\ IsChunk(Signal("header")) = 0
  BY DEF Signal, Message, IsChunk
<1>2. LocalQueue' /\ UpArrived'
  BY <1>0 DEF UpInv, LocalQueue, UpArrived
<1>3. Len(c2s') = 1 /\ c2s'[1] = Signal("header")
  BY <1>0
<1>4. HeaderFirst'
  BY <1>0, <1>1, <1>3 DEF HeaderFirst
<1>5. SentUp' = SentUp /\ SentUp \in Int
  BY <1>0, UpNumbers DEF SentUp
<1>6. SentUp' = SentUp + IsChunk(Signal("header"))
  BY <1>1, <1>5
<1>7. UpOnStream'
  BY <1>0, <1>1, <1>6, UpSends DEF UpInv
<1> QED BY <1>2, <1>4, <1>7 DEF UpInv

LEMMA HandshakeUp ==
    ASSUME TypeOK, ServerOrder, UpInv, Handshake, UNCHANGED serverVars PROVE UpInv'
BY HeaderSent DEF Handshake

LEMMA HandshakeFailsUp ==
    ASSUME TypeOK, ServerOrder, UpInv, HandshakeFails, UNCHANGED serverVars PROVE UpInv'
<1>0. proxy = "handshake" /\ proxy' = "returned" /\ UNCHANGED <<cread, lq, lsent, uchunk>>
  BY DEF HandshakeFails, ProxyReturns
<1>1. CASE ClientSend(Signal("header"))
  <2>1. cread = "idle"
    BY <1>0 DEF UpInv, HeaderFirst
  <2> QED BY <1>0, <1>1, <2>1, HeaderSent
<1>2. CASE UNCHANGED streamVars
  BY <1>0, <1>2, UpFrame
<1> QED BY <1>1, <1>2 DEF HandshakeFails

LEMMA ReadUpUp ==
    ASSUME TypeOK, ServerOrder, UpInv, ReadUp, UNCHANGED serverVars PROVE UpInv'
<1>0. /\ cread = "read" /\ cread' \in {"send", "ended"}
      /\ UNCHANGED <<c2s, stream, schunk, sup, srecv, tgot, lsent, proxy>>
  BY DEF ReadUp
<1>1. UpArrived'
  BY <1>0 DEF UpInv, UpArrived
<1>2. HeaderFirst'
  BY <1>0 DEF UpInv, HeaderFirst, BeforeHeader, Dialled
<1>3. LocalQueue' /\ SentUp' = SentUp
  <2>1. CASE lq # <<>> /\ uchunk' = Head(lq) /\ lq' = Tail(lq) /\ cread' = "send"
    <3>1. /\ Len(lq) \in Nat \ {0} /\ Len(lq') = Len(lq) - 1 /\ uchunk' = lq[1] /\ lsent \in Nat
          /\ \A i \in 1..(Len(lq) - 1) : lq'[i] = lq[i + 1]
      BY <2>1, UpNumbers DEF TypeOK, ClientTypeOK
    <3>2. \A i \in 1..Len(lq) : lq[i] = lsent - Len(lq) + i
      BY DEF UpInv, LocalQueue
    <3>3. (\A i \in 1..Len(lq') : lq'[i] = lsent - Len(lq') + i) /\ uchunk' = lsent - Len(lq')
      BY <3>1, <3>2
    <3>4. SentUp = lsent - Len(lq) - 0 /\ SentUp' = lsent - (Len(lq) - 1) - 1
      BY <1>0, <2>1, <3>1 DEF SentUp
    <3>5. SentUp' = SentUp
      BY <3>1, <3>4
    <3> QED BY <1>0, <3>3, <3>5 DEF LocalQueue
  <2>2. CASE cread' = "ended" /\ UNCHANGED <<uchunk, lq>>
    BY <1>0, <2>2 DEF UpInv, LocalQueue, SentUp
  <2> QED BY <2>1, <2>2 DEF ReadUp
<1>4. UpOnStream'
  BY <1>0, <1>3, UpStill DEF UpInv
<1> QED BY <1>1, <1>2, <1>3, <1>4 DEF UpInv

LEMMA LocalSendsUp ==
    ASSUME TypeOK, ServerOrder, UpInv, LocalSends, UNCHANGED serverVars PROVE UpInv'
<1>0. /\ lsent' = lsent + 1 /\ lq' = Append(lq, lsent + 1)
      /\ UNCHANGED <<c2s, stream, schunk, sup, srecv, tgot, cread, uchunk, proxy>>
  BY DEF LocalSends
<1>1. UpArrived' /\ HeaderFirst'
  BY <1>0 DEF UpInv, UpArrived, HeaderFirst, BeforeHeader
<1>2. /\ lsent \in Nat /\ Len(lq) \in Nat /\ Len(lq') = Len(lq) + 1 /\ lq'[Len(lq) + 1] = lsent + 1
      /\ \A i \in 1..Len(lq) : lq'[i] = lq[i]
  BY <1>0, UpNumbers DEF TypeOK, ClientTypeOK
<1>3. lsent' - Len(lq') = lsent - Len(lq)
  BY <1>0, <1>2
<1>4. \A i \in 1..Len(lq) : lq[i] = lsent - Len(lq) + i
  BY DEF UpInv, LocalQueue
<1>5. \A i \in 1..Len(lq') : lq'[i] = lsent' - Len(lq') + i
  BY <1>0, <1>2, <1>4
<1>6. LocalQueue'
  BY <1>0, <1>3, <1>5 DEF UpInv, LocalQueue
<1>7. SentUp' = SentUp
  BY <1>0, <1>3 DEF SentUp
<1>8. UpOnStream'
  BY <1>0, <1>7, UpStill DEF UpInv
<1> QED BY <1>1, <1>6, <1>8 DEF UpInv

LEMMA SendUpUp ==
    ASSUME TypeOK, ServerOrder, UpInv, SendUp, UNCHANGED serverVars PROVE UpInv'
<1>0. /\ cread = "send" /\ cread' \in {"read", "ended"}
      /\ UNCHANGED <<schunk, sup, srecv, tgot, lq, lsent, uchunk, proxy>>
  BY DEF SendUp
<1>1. LocalQueue' /\ UpArrived'
  BY <1>0 DEF UpInv, LocalQueue, UpArrived
<1>2. SentUp' = SentUp + 1 /\ uchunk = SentUp + 1 /\ SentUp \in Int
  <2>1. lsent \in Nat /\ Len(lq) \in Nat
    BY DEF TypeOK, ClientTypeOK
  <2>2. SentUp = lsent - Len(lq) - 1 /\ SentUp' = lsent - Len(lq) - 0 /\ uchunk = lsent - Len(lq)
    BY <1>0 DEF SentUp, UpInv, LocalQueue
  <2> QED BY <2>1, <2>2
<1>3. CASE ClientSend(Payload(uchunk))
  <2>1. Payload(uchunk) \in Message /\ Payload(uchunk).kind = "payload" /\ Payload(uchunk).n = uchunk
        /\ IsChunk(Payload(uchunk)) = 1
    BY DEF TypeOK, ClientTypeOK, Payload, Message, IsChunk
  <2>2. stream = "open" /\ stream' = stream /\ c2s' = Append(c2s, Payload(uchunk))
    BY <1>3 DEF ClientSend
  <2>3. Len(c2s') = Len(c2s) + 1 /\ Len(c2s) \in Nat /\ c2s'[Len(c2s) + 1] = Payload(uchunk)
        /\ \A i \in 1..Len(c2s) : c2s'[i] = c2s[i]
    BY <2>1, <2>2, UpNumbers
  <2>4. BeforeHeader => Len(c2s) # 0
    BY <1>0, <2>2, UpNumbers DEF UpInv, HeaderFirst
  <2>5. (BeforeHeader' <=> BeforeHeader) /\ proxy \notin {"open", "handshake"}
    BY <1>0 DEF BeforeHeader, UpInv, HeaderFirst
  <2>6. \A i \in 1..Len(c2s') : c2s'[i].kind = IF i = 1 /\ BeforeHeader THEN "header" ELSE "payload"
    BY <2>1, <2>3, <2>4 DEF UpInv, HeaderFirst
  <2>7. HeaderFirst'
    BY <1>0, <2>2, <2>3, <2>5, <2>6 DEF UpInv, HeaderFirst
  <2>8. UpOnStream'
    BY <1>0, <1>2, <2>1, <2>2, UpSends DEF UpInv
  <2> QED BY <1>1, <2>7, <2>8 DEF UpInv
<1>4. CASE ClientSendError # {} /\ UNCHANGED streamVars
  <2>1. stream \notin {"none", "open"}
    BY <1>4 DEF ClientSendError
  <2>2. HeaderFirst'
    BY <1>0, <1>4, <2>1 DEF UpInv, HeaderFirst, BeforeHeader, Dialled
  <2>3. ReceivedUp' = ReceivedUp
    BY <1>0 DEF ReceivedUp
  <2>4. UpOnStream'
    BY <1>0, <1>4, <2>1, <2>3, UpOnStreamNext DEF UpInv, UpOnStream
  <2> QED BY <1>1, <2>2, <2>4 DEF UpInv
<1> QED BY <1>3, <1>4 DEF SendUp

LEMMA UpStep == TypeOK /\ ServerOrder /\ UpInv /\ [Next]_vars => UpInv'
<1>1. ASSUME TypeOK, ServerOrder, UpInv, Next PROVE UpInv'
  <2>1. CASE Client(OpenStream)
    BY <1>1, <2>1, OpenStreamUp
  <2>2. CASE Client(Handshake)
    BY <1>1, <2>2, HandshakeUp
  <2>3. CASE Client(HandshakeFails)
    BY <1>1, <2>3, HandshakeFailsUp
  <2>4. CASE Client(ProxyWaited)
    BY <1>1, <2>4, UpFrame DEF ProxyWaited, ProxyReturns
  <2>5. CASE Client(StreamCancelled)
    BY <1>1, <2>5, StreamCancelledUp DEF StreamCancelled
  <2>6. CASE Client(RecvDown)
    BY <1>1, <2>6, UpFrame DEF RecvDown, ClientRecv
  <2>7. CASE Client(RecvDownFails)
    BY <1>1, <2>7, UpFrame DEF RecvDownFails
  <2>8. CASE Client(WriteDown)
    BY <1>1, <2>8, UpFrame DEF WriteDown
  <2>9. CASE Client(DownEnds)
    BY <1>1, <2>9, UpFrame DEF DownEnds
  <2>10. CASE Client(DownCancels)
    BY <1>1, <2>10, UpFrame DEF DownCancels
  <2>11. CASE Client(DownDrained)
    BY <1>1, <2>11, UpFrame DEF DownDrained
  <2>12. CASE Client(ReadUp)
    BY <1>1, <2>12, ReadUpUp
  <2>13. CASE Client(SendUp)
    BY <1>1, <2>13, SendUpUp
  <2>14. CASE Client(UpEnds)
    BY <1>1, <2>14, UpFrame DEF UpEnds
  <2>15. CASE Client(AckSelect)
    BY <1>1, <2>15, UpFrame DEF AckSelect
  <2>16. CASE Client(AckOffered)
    BY <1>1, <2>16, UpFrame DEF AckOffered
  <2>17. CASE Client(AckCancelled)
    BY <1>1, <2>17, UpFrame DEF AckCancelled
  <2>18. CASE Client(ReplySuccess)
    BY <1>1, <2>18, UpFrame DEF ReplySuccess
  <2>19. CASE Client(ReplyFailure)
    BY <1>1, <2>19, UpFrame DEF ReplyFailure
  <2>20. CASE Client(ProxyRecorded)
    BY <1>1, <2>20, UpFrame DEF ProxyRecorded
  <2>21. CASE Client(HandlerEnds)
    BY <1>1, <2>21, UpFrame DEF HandlerEnds
  <2>22. CASE Client(LocalSends)
    BY <1>1, <2>22, LocalSendsUp
  <2>23. CASE Client(LocalEOF)
    BY <1>1, <2>23, UpFrame DEF LocalEOF
  <2>24. CASE Server(Refuse)
    BY <1>1, <2>24, RefuseUp
  <2>25. CASE Server(Serve)
    BY <1>1, <2>25, ServeUp
  <2>26. CASE Server(UpHeader)
    BY <1>1, <2>26, UpHeaderUp
  <2>27. CASE Server(UpNoHeader)
    BY <1>1, <2>27, UpNoHeaderUp
  <2>28. CASE Server(UpDialled)
    BY <1>1, <2>28, UpDialledUp
  <2>29. CASE Server(UpDialFails)
    BY <1>1, <2>29, UpDialFailsUp
  <2>30. CASE Server(UpSendError)
    BY <1>1, <2>30, UpSendErrorUp
  <2>31. CASE Server(UpReceiverEnded)
    BY <1>1, <2>31, UpReceiverEndedUp
  <2>32. CASE Server(UpCancelled)
    BY <1>1, <2>32, UpCancelledUp
  <2>33. CASE Server(UpGroup)
    BY <1>1, <2>33, UpGroupUp
  <2>34. CASE Server(RecvUp)
    BY <1>1, <2>34, RecvUpUp
  <2>35. CASE Server(RecvUpFails)
    BY <1>1, <2>35, RecvUpFailsUp
  <2>36. CASE Server(WriteUp)
    BY <1>1, <2>36, WriteUpUp
  <2>37. CASE Server(DownAwait)
    BY <1>1, <2>37, UpFrame DEF DownAwait
  <2>38. CASE Server(DownAccept)
    BY <1>1, <2>38, UpFrame DEF DownAccept, ServerSend
  <2>39. CASE Server(DownRead)
    BY <1>1, <2>39, UpFrame DEF DownRead
  <2>40. CASE Server(DownReadEnds)
    BY <1>1, <2>40, UpFrame DEF DownReadEnds
  <2>41. CASE Server(DownSend)
    BY <1>1, <2>41, UpFrame DEF DownSend, ServerSend
  <2>42. CASE Server(DownGroup)
    BY <1>1, <2>42, UpFrame DEF DownGroup
  <2>43. CASE Server(Watch)
    BY <1>1, <2>43, UpFrame DEF Watch
  <2>44. CASE Server(HandlerLeaves)
    BY <1>1, <2>44, UpFrame DEF HandlerLeaves
  <2>45. CASE Server(HandlerWaited)
    BY <1>1, <2>45, UpFrame DEF HandlerWaited
  <2>46. CASE Server(HandlerSendsEOF)
    BY <1>1, <2>46, HandlerSendsEOFUp
  <2>47. CASE Server(TargetSends)
    BY <1>1, <2>47, UpFrame DEF TargetSends
  <2>48. CASE Server(TargetEOF)
    BY <1>1, <2>48, UpFrame DEF TargetEOF
  <2>49. CASE Server(ForcedStop)
    BY <1>1, <2>49, ForcedStopUp DEF ForcedStop
  <2>50. CASE ClientMeets("local gone", LocalGone)
    BY <1>1, <2>50, UpFrame DEF LocalGone
  <2>51. CASE ClientMeets("front stops", FrontStops)
    BY <1>1, <2>51, UpFrame DEF FrontStops
  <2>52. CASE ServerMeets("target resets", TargetResets)
    BY <1>1, <2>52, UpFrame DEF TargetResets
  <2>53. CASE ServerMeets("server stops", ServerStops)
    BY <1>1, <2>53, UpFrame DEF ServerStops
  <2>54. CASE ServerMeets("stream breaks", StreamBreaks)
    BY <1>1, <2>54, StreamBreaksUp DEF StreamBreaks
  <2> QED
    BY <1>1, <2>1, <2>2, <2>3, <2>4, <2>5, <2>6, <2>7, <2>8, <2>9, <2>10, <2>11, <2>12,
       <2>13, <2>14, <2>15, <2>16, <2>17, <2>18, <2>19, <2>20, <2>21, <2>22, <2>23, <2>24,
       <2>25, <2>26, <2>27, <2>28, <2>29, <2>30, <2>31, <2>32, <2>33, <2>34, <2>35, <2>36,
       <2>37, <2>38, <2>39, <2>40, <2>41, <2>42, <2>43, <2>44, <2>45, <2>46, <2>47, <2>48,
       <2>49, <2>50, <2>51, <2>52, <2>53, <2>54 DEF Next
<1>2. ASSUME TypeOK, ServerOrder, UpInv, UNCHANGED vars PROVE UpInv'
  BY <1>2, UpFrame
<1> QED BY <1>1, <1>2

----------------------------------------------------------------------------
(* What has arrived is what was sent first, and at the end all of it. *)

LEMMA DataSays == TypeOK /\ DownInv /\ UpInv => EndMeansComplete
<1> SUFFICES ASSUME TypeOK, DownInv, UpInv PROVE EndMeansComplete
  OBVIOUS
<1>1. InOrder
  <2>1. \A i \in 1..Len(out) : out[i].kind = "payload" => out[i].n = Chunks(out, i)
    <3> SUFFICES ASSUME NEW i \in 1..Len(out), out[i].kind = "payload" PROVE out[i].n = Chunks(out, i)
      OBVIOUS
    <3>1. out[i].n = 0 + Chunks(out, i)
      BY DEF DownInv, DownArrived, Numbered
    <3>2. Chunks(out, i) \in Nat
      <4>1. i \in Nat
        BY DownNumbers
      <4> QED BY <4>1, ChunksType
    <3> QED BY <3>1, <3>2
  <2> QED BY <2>1 DEF InOrder, UpInv, UpArrived
<1>2. ASSUME serr = "eof", crecverr = "eof", stream # "broken", lend # "gone"
      PROVE  Delivered = tsent
  <2>1. sdown = "done" /\ Delivered = SentDown
    BY <1>2 DEF DownInv, DownArrived
  <2>2. tq = <<>> /\ tsent \in Nat
    BY <1>2 DEF DownInv, TargetsOwnEnd, TypeOK, ServerTypeOK
  <2>3. SentDown = tsent - Len(tq) - 0 /\ Len(tq) = 0
    BY <2>1, <2>2 DEF SentDown
  <2> QED BY <2>1, <2>2, <2>3
<1> QED BY <1>1, <1>2 DEF EndMeansComplete

LEMMA DataKept == Spec => [](DownInv /\ UpInv)
<1>1. Spec => []DownInv
  BY DownInit, DownStep, TunnelTypes, ServerInvariant, ClientInvariant, PTL DEF Spec
<1>2. Spec => []UpInv
  BY UpInit, UpStep, TunnelTypes, ServerInvariant, PTL DEF Spec
<1> QED BY <1>1, <1>2, PTL

(* Either end is given the first chunks of the other, in order, none twice   *)
(* and none left out, whatever is cancelled, breaks or stops; and an end of   *)
(* the session that comes from the target has everything the target sent      *)
(* before it (rpc/client/forwarder.go, rpc/server/forwarder.go).              *)
THEOREM SessionsAreComplete == Spec => []EndMeansComplete
BY DataKept, DataSays, TunnelTypes, PTL

----------------------------------------------------------------------------
(* The session refines Session: most steps move nothing between its ends.    *)

ClientMoves ==
    \/ Handshake \/ HandshakeFails \/ StreamCancelled \/ RecvDown \/ WriteDown \/ SendUp
    \/ AckOffered \/ ReplySuccess \/ ReplyFailure \/ HandlerEnds \/ LocalSends

ServerMoves ==
    \/ UpHeader \/ UpDialled \/ UpSendError \/ UpCancelled \/ RecvUp \/ WriteUp
    \/ DownAccept \/ DownSend \/ Watch \/ HandlerLeaves \/ HandlerSendsEOF
    \/ TargetSends \/ ForcedStop \/ StreamBreaks

(* What the ends have, and what is under way to them. *)
ends == <<conn, lsent, tgot, tsent, out, fend>>
way  == <<cchunk, schunk, c2s, s2c>>

LEMMA OnlyMoves ==
    ASSUME ServerOrder, Next
    PROVE  \/ ClientMoves /\ UNCHANGED serverVars
           \/ ServerMoves /\ UNCHANGED clientVars
           \/ UNCHANGED <<ends, way, reply>> /\ (sup \in Dialled => sup' \in Dialled)
<1> USE DEF ends, way, Dialled
<1>1. CASE Client(OpenStream)
  BY <1>1 DEF OpenStream, ProxyReturns
<1>2. CASE Client(ProxyWaited)
  BY <1>2 DEF ProxyWaited, ProxyReturns
<1>3. CASE Client(RecvDownFails)
  BY <1>3 DEF RecvDownFails
<1>4. CASE Client(DownEnds)
  BY <1>4 DEF DownEnds
<1>5. CASE Client(DownCancels)
  BY <1>5 DEF DownCancels
<1>6. CASE Client(DownDrained)
  BY <1>6 DEF DownDrained
<1>7. CASE Client(ReadUp)
  BY <1>7 DEF ReadUp
<1>8. CASE Client(UpEnds)
  BY <1>8 DEF UpEnds
<1>9. CASE Client(AckSelect)
  BY <1>9 DEF AckSelect
<1>10. CASE Client(AckCancelled)
  BY <1>10 DEF AckCancelled
<1>11. CASE Client(ProxyRecorded)
  BY <1>11 DEF ProxyRecorded
<1>12. CASE Client(LocalEOF)
  BY <1>12 DEF LocalEOF
<1>13. CASE Server(Refuse)
  BY <1>13 DEF Refuse
<1>14. CASE Server(Serve)
  BY <1>14 DEF Serve, ServerOrder
<1>15. CASE Server(UpNoHeader)
  BY <1>15 DEF UpNoHeader, UpReturn
<1>16. CASE Server(UpDialFails)
  BY <1>16 DEF UpDialFails
<1>17. CASE Server(UpReceiverEnded)
  BY <1>17 DEF UpReceiverEnded, UpReturn
<1>18. CASE Server(UpGroup)
  BY <1>18 DEF UpGroup
<1>19. CASE Server(RecvUpFails)
  BY <1>19 DEF RecvUpFails
<1>20. CASE Server(DownAwait)
  BY <1>20 DEF DownAwait
<1>21. CASE Server(DownRead)
  BY <1>21 DEF DownRead
<1>22. CASE Server(DownReadEnds)
  BY <1>22 DEF DownReadEnds, DownReturn
<1>23. CASE Server(DownGroup)
  BY <1>23 DEF DownGroup
<1>24. CASE Server(HandlerWaited)
  BY <1>24 DEF HandlerWaited
<1>25. CASE Server(TargetEOF)
  BY <1>25 DEF TargetEOF
<1>26. CASE ClientMeets("local gone", LocalGone)
  BY <1>26 DEF LocalGone
<1>27. CASE ClientMeets("front stops", FrontStops)
  BY <1>27 DEF FrontStops
<1>28. CASE ServerMeets("target resets", TargetResets)
  BY <1>28 DEF TargetResets
<1>29. CASE ServerMeets("server stops", ServerStops)
  BY <1>29 DEF ServerStops
<1>30. CASE (ClientMoves /\ UNCHANGED serverVars) \/ (ServerMoves /\ UNCHANGED clientVars)
  BY <1>30
<1> HIDE DEF vars, clientVars, serverVars, streamVars, ends, way, Dialled
<1> QED
  BY <1>1, <1>2, <1>3, <1>4, <1>5, <1>6, <1>7, <1>8, <1>9, <1>10, <1>11, <1>12, <1>13,
     <1>14, <1>15, <1>16, <1>17, <1>18, <1>19, <1>20, <1>21, <1>22, <1>23, <1>24,
     <1>25, <1>26, <1>27, <1>28, <1>29, <1>30
     DEF Next, ClientMoves, ServerMoves

(* No chunk is under way that was not sent. *)
UpTo(s, k) == \A i \in 1..Len(s) : s[i].n <= k

WayInv ==
    /\ UpTo(s2c, tsent) /\ cchunk <= tsent
    /\ UpTo(c2s, lsent) /\ schunk <= lsent

LEMMA UpToAppend ==
    ASSUME NEW s \in Seq(Message), NEW m \in Message, NEW k \in Nat, UpTo(s, k), m.n <= k
    PROVE  UpTo(Append(s, m), k)
BY DEF UpTo

LEMMA UpToTail ==
    ASSUME NEW s \in Seq(Message), NEW k \in Nat, UpTo(s, k), s # <<>>
    PROVE  UpTo(Tail(s), k) /\ Head(s).n <= k
<1>1. \A i \in 1..Len(Tail(s)) : i + 1 \in 1..Len(s) /\ Tail(s)[i] = s[i + 1]
  OBVIOUS
<1>2. 1 \in 1..Len(s) /\ Head(s) = s[1]
  OBVIOUS
<1> QED BY <1>1, <1>2 DEF UpTo

LEMMA UpToBeginning ==
    ASSUME NEW s \in Seq(Message), NEW b \in Beginnings(s), NEW k \in Nat, UpTo(s, k)
    PROVE  UpTo(b, k)
<1>1. PICK l \in 0..Len(s) : b = SubSeq(s, 1, l)
  BY DEF Beginnings
<1>2. \A j \in 1..l : s[j] \in Message
  BY ElementOfSeq
<1>3. Len(b) = l /\ \A i \in 1..l : b[i] = s[i]
  BY <1>1, <1>2, SubSeqProperties
<1> QED BY <1>3 DEF UpTo

LEMMA SignalIsMessage ==
    \A kind \in {"header", "accepted", "eof", "error"} :
        Signal(kind) \in Message /\ Signal(kind).n = 0
BY DEF Signal, Message

LEMMA SignalUpTo ==
    ASSUME NEW s \in Seq(Message), NEW k \in Nat, UpTo(s, k),
           NEW kind \in {"header", "accepted", "eof", "error"}
    PROVE  UpTo(Append(s, Signal(kind)), k)
<1>1. Signal(kind) \in Message /\ Signal(kind).n = 0
  BY SignalIsMessage
<1>2. Signal(kind).n <= k
  BY <1>1
<1> QED BY <1>1, <1>2, UpToAppend

LEMMA UpToGrows ==
    ASSUME NEW s \in Seq(Message), NEW k \in Nat, UpTo(s, k)
    PROVE  UpTo(s, k + 1)
<1> SUFFICES ASSUME NEW i \in 1..Len(s) PROVE s[i].n <= k + 1
  BY DEF UpTo
<1>1. s[i] \in Message
  BY ElementOfSeq
<1>2. PICK n \in Nat : s[i].n = n
  BY <1>1 DEF Message
<1>3. n <= k
  BY <1>2 DEF UpTo
<1>4. n <= k + 1
  BY <1>3
<1> QED BY <1>2, <1>4

LEMMA WayStep == TypeOK /\ ServerOrder /\ DownInv /\ UpInv /\ WayInv /\ [Next]_vars => WayInv'
<1> SUFFICES ASSUME TypeOK, ServerOrder, DownInv, UpInv, WayInv, [Next]_vars PROVE WayInv'
  OBVIOUS
<1>t. /\ s2c \in Seq(Message) /\ c2s \in Seq(Message) /\ tsent \in Nat /\ lsent \in Nat
      /\ cchunk \in Nat /\ schunk \in Nat /\ dchunk \in Nat /\ uchunk \in Nat
      /\ Len(tq) \in Nat /\ Len(lq) \in Nat
  BY DEF TypeOK, StreamTypeOK, ClientTypeOK, ServerTypeOK
<1>d. /\ UpTo(s2c, tsent) /\ UpTo(c2s, lsent) /\ cchunk <= tsent /\ schunk <= lsent
      /\ UpTo(<<>>, lsent)
  BY DEF WayInv, UpTo
<1>n. ASSUME UpTo(s2c', tsent'), cchunk' <= tsent', UpTo(c2s', lsent'), schunk' <= lsent'
      PROVE  WayInv'
  BY <1>n DEF WayInv, UpTo
<1> HIDE DEF WayInv
<1>u. CASE UNCHANGED <<s2c, c2s, cchunk, schunk, tsent, lsent>>
  BY <1>d, <1>n, <1>u
<1>1. CASE (Handshake \/ HandshakeFails) /\ UNCHANGED serverVars
  <2>1. c2s' = c2s \/ c2s' = Append(c2s, Signal("header"))
    BY <1>1 DEF Handshake, HandshakeFails, ClientSend
  <2>0. UpTo(Append(c2s, Signal("header")), lsent)
    BY <1>t, <1>d, SignalUpTo
  <2>2. UpTo(c2s', lsent)
    BY <1>d, <2>0, <2>1
  <2>3. UNCHANGED <<s2c, cchunk, schunk, tsent, lsent>>
    BY <1>1 DEF Handshake, HandshakeFails, ClientSend
  <2> QED BY <1>d, <1>n, <2>2, <2>3
<1>2. CASE \/ StreamCancelled /\ UNCHANGED serverVars
           \/ (ForcedStop \/ StreamBreaks) /\ UNCHANGED clientVars
  <2>1. /\ c2s' \in Beginnings(c2s) /\ s2c' \in Beginnings(s2c)
        /\ UNCHANGED <<cchunk, schunk, tsent, lsent>>
    BY <1>2 DEF StreamCancelled, Cancel, ForcedStop, StreamBreaks, Break
  <2> QED BY <1>t, <1>d, <1>n, <2>1, UpToBeginning
<1>3. CASE RecvDown /\ UNCHANGED serverVars
  <2>1. /\ s2c # <<>> /\ s2c' = Tail(s2c) /\ cchunk' \in {cchunk, Head(s2c).n}
        /\ UNCHANGED <<c2s, schunk, tsent, lsent>>
    BY <1>3 DEF RecvDown, ClientRecv
  <2>2. UpTo(Tail(s2c), tsent) /\ Head(s2c).n <= tsent
    BY <1>t, <1>d, <2>1, UpToTail
  <2> QED BY <1>d, <1>n, <2>1, <2>2
<1>4. CASE SendUp /\ UNCHANGED serverVars
  <2>1. /\ c2s' = c2s \/ c2s' = Append(c2s, Payload(uchunk))
        /\ cread = "send" /\ UNCHANGED <<s2c, cchunk, schunk, tsent, lsent>>
    BY <1>4 DEF SendUp, ClientSend
  <2>2. uchunk <= lsent
    BY <1>t, <2>1 DEF UpInv, LocalQueue
  <2>3. Payload(uchunk) \in Message /\ Payload(uchunk).n = uchunk
    BY <1>t DEF Payload, Message
  <2>4. UpTo(c2s', lsent)
    BY <1>t, <1>d, <2>1, <2>2, <2>3, UpToAppend
  <2> QED BY <1>d, <1>n, <2>1, <2>4
<1>5. CASE LocalSends /\ UNCHANGED serverVars
  <2>1. lsent' = lsent + 1 /\ UNCHANGED <<s2c, c2s, cchunk, schunk, tsent>>
    BY <1>5 DEF LocalSends
  <2>2. UpTo(c2s, lsent + 1)
    BY <1>t, <1>d, UpToGrows
  <2>3. schunk <= lsent + 1
    BY <1>t, <1>d
  <2> QED BY <1>d, <1>n, <2>1, <2>2, <2>3
<1>6. CASE (UpHeader \/ RecvUp) /\ UNCHANGED clientVars
  <2>1. /\ c2s # <<>> /\ c2s' = Tail(c2s) /\ schunk' \in {schunk, Head(c2s).n}
        /\ UNCHANGED <<s2c, cchunk, tsent, lsent>>
    BY <1>6 DEF UpHeader, RecvUp, ServerRecv
  <2>2. UpTo(Tail(c2s), lsent) /\ Head(c2s).n <= lsent
    BY <1>t, <1>d, <2>1, UpToTail
  <2> QED BY <1>d, <1>n, <2>1, <2>2
<1>7. CASE (UpSendError \/ DownAccept \/ HandlerSendsEOF) /\ UNCHANGED clientVars
  <2>1. /\ s2c' = s2c \/ \E kind \in {"error", "accepted", "eof"} : s2c' = Append(s2c, Signal(kind))
        /\ c2s' \in {c2s, <<>>}
        /\ UNCHANGED <<cchunk, schunk, tsent, lsent>>
    BY <1>7 DEF UpSendError, DownAccept, HandlerSendsEOF, ServerSend
  <2>2. UpTo(s2c', tsent)
    BY <1>t, <1>d, <2>1, SignalUpTo
  <2> QED BY <1>d, <1>n, <2>1, <2>2
<1>8. CASE DownSend /\ UNCHANGED clientVars
  <2>1. /\ s2c' = s2c \/ s2c' = Append(s2c, Payload(dchunk))
        /\ sdown \in {"send", "sendlast"} /\ UNCHANGED <<c2s, cchunk, schunk, tsent, lsent>>
    BY <1>8 DEF DownSend, ServerSend
  <2>2. dchunk <= tsent
    BY <1>t, <2>1 DEF DownInv, TargetQueue
  <2>3. Payload(dchunk) \in Message /\ Payload(dchunk).n = dchunk
    BY <1>t DEF Payload, Message
  <2>4. UpTo(s2c', tsent)
    BY <1>t, <1>d, <2>1, <2>2, <2>3, UpToAppend
  <2> QED BY <1>d, <1>n, <2>1, <2>4
<1>9. CASE TargetSends /\ UNCHANGED clientVars
  <2>1. tsent' = tsent + 1 /\ UNCHANGED <<s2c, c2s, cchunk, schunk, lsent>>
    BY <1>9 DEF TargetSends
  <2>2. UpTo(s2c, tsent + 1)
    BY <1>t, <1>d, UpToGrows
  <2>3. cchunk <= tsent + 1
    BY <1>t, <1>d
  <2> QED BY <1>d, <1>n, <2>1, <2>2, <2>3
<1>10. CASE \/ /\ WriteDown \/ AckOffered \/ ReplySuccess \/ ReplyFailure \/ HandlerEnds
               /\ UNCHANGED serverVars
            \/ /\ UpDialled \/ UpCancelled \/ WriteUp \/ Watch \/ HandlerLeaves
               /\ UNCHANGED clientVars
  BY <1>u, <1>10 DEF WriteDown, AckOffered, ReplySuccess, ReplyFailure, HandlerEnds,
     UpDialled, UpCancelled, WriteUp, Watch, HandlerLeaves
<1>11. CASE UNCHANGED <<ends, way>>
  BY <1>u, <1>11 DEF ends, way
<1>12. CASE UNCHANGED vars
  BY <1>u, <1>12
<1> QED
  BY <1>1, <1>2, <1>3, <1>4, <1>5, <1>6, <1>7, <1>8, <1>9, <1>10, <1>11, <1>12, OnlyMoves
     DEF ClientMoves, ServerMoves

----------------------------------------------------------------------------
(* The local client is answered once, and the target dialled once. *)
EndsInv ==
    /\ reply # "done" => \A i \in 1..Len(out) : out[i].kind = "payload"
    /\ conn # "none" => sup \in Dialled

LEMMA EndsStep == TypeOK /\ ServerOrder /\ EndsInv /\ [Next]_vars => EndsInv'
<1> SUFFICES ASSUME TypeOK, ServerOrder, EndsInv, [Next]_vars PROVE EndsInv'
  OBVIOUS
<1>t. out \in Seq(Received)
  BY DEF TypeOK, ClientTypeOK
<1>o. reply' # "done" => \A i \in 1..Len(out') : out'[i].kind = "payload"
  <2>u. CASE out' = out /\ (reply = "done" => reply' = "done")
    BY <2>u DEF EndsInv
  <2>1. CASE WriteDown /\ UNCHANGED serverVars
    <3>1. CASE out' = Append(out, Payload(cchunk))
      <4>1. Payload(cchunk).kind = "payload"
        BY DEF Payload
      <4>2. reply' = reply
        BY <2>1 DEF WriteDown
      <4>3. /\ Len(out') = Len(out) + 1 /\ out'[Len(out) + 1] = Payload(cchunk)
            /\ \A i \in 1..Len(out) : out'[i] = out[i]
        BY <1>t, <3>1
      <4> QED BY <1>t, <4>1, <4>2, <4>3 DEF EndsInv
    <3>2. CASE out' = out
      BY <2>1, <2>u, <3>2 DEF WriteDown
    <3> QED BY <2>1, <3>1, <3>2 DEF WriteDown
  <2>2. CASE (ReplySuccess \/ ReplyFailure \/ HandlerEnds) /\ UNCHANGED serverVars
    BY <2>2 DEF ReplySuccess, ReplyFailure, HandlerEnds
  <2>3. CASE \/ /\ \/ Handshake \/ HandshakeFails \/ StreamCancelled \/ RecvDown
                   \/ SendUp \/ AckOffered \/ LocalSends
                /\ UNCHANGED serverVars
    BY <2>3, <2>u DEF Handshake, HandshakeFails, StreamCancelled, RecvDown, SendUp, AckOffered, LocalSends
  <2>4. CASE UNCHANGED <<out, reply>>
    BY <2>u, <2>4
  <2>5. CASE UNCHANGED <<ends, way, reply>> \/ UNCHANGED clientVars
    BY <2>4, <2>5 DEF ends
  <2> QED
    BY <2>1, <2>2, <2>3, <2>5, OnlyMoves DEF ClientMoves
<1>c. conn' # "none" => sup' \in Dialled
  <2>u. CASE conn' = conn /\ (sup \in Dialled => sup' \in Dialled)
    BY <2>u DEF EndsInv
  <2>1. CASE UpDialled \/ UpCancelled
    BY <2>1 DEF UpDialled, UpCancelled, UpReturn, Dialled
  <2>2. CASE Watch \/ HandlerLeaves \/ HandlerSendsEOF
    BY <2>2 DEF Watch, HandlerLeaves, HandlerSendsEOF, HandlerReturns, CloseTarget, EndsInv
  <2>3. CASE UpHeader \/ UpSendError
    BY <2>3 DEF UpHeader, UpSendError, UpReturn, EndsInv, Dialled
  <2>4. CASE \/ RecvUp \/ WriteUp \/ DownAccept \/ DownSend \/ TargetSends \/ ForcedStop \/ StreamBreaks
    BY <2>u, <2>4 DEF RecvUp, WriteUp, DownAccept, DownSend, TargetSends, ForcedStop, StreamBreaks
  <2>5. CASE UNCHANGED serverVars
    BY <2>u, <2>5
  <2>6. CASE UNCHANGED <<ends, way, reply>> /\ (sup \in Dialled => sup' \in Dialled)
    BY <2>u, <2>6 DEF ends
  <2>7. CASE UNCHANGED vars
    BY <2>5, <2>7
  <2> QED
    BY <2>1, <2>2, <2>3, <2>4, <2>5, <2>6, <2>7, OnlyMoves DEF ServerMoves
<1> QED BY <1>o, <1>c DEF EndsInv

LEMMA SessionStart == Init => WayInv /\ EndsInv /\ Promised!SessionInit
<1> SUFFICES ASSUME Init PROVE WayInv /\ EndsInv /\ Promised!SessionInit
  OBVIOUS
<1>1. /\ c2s = <<>> /\ s2c = <<>> /\ out = <<>> /\ tgot = <<>> /\ conn = "none" /\ fend = "wait"
      /\ tsent = 0 /\ lsent = 0 /\ cchunk = 0 /\ schunk = 0
  BY DEF Init, StreamInit, ClientInit, ServerInit
<1> QED BY <1>1 DEF WayInv, UpTo, EndsInv, Promised!SessionInit

LEMMA SessionStill == UNCHANGED ends => UNCHANGED Promised!sessionVars
BY DEF ends, Promised!sessionVars

(* The target's connection is closed once. *)
LEMMA TargetMoves ==
    ASSUME TypeOK, conn' \in {conn, CloseTarget}, UNCHANGED <<lsent, tgot, tsent, out, fend>>
    PROVE  [Promised!SessionNext]_(Promised!sessionVars)
<1>1. CASE conn' = conn
  BY <1>1 DEF Promised!sessionVars
<1>2. CASE conn = "open" /\ conn' = "closed"
  BY <1>2 DEF Promised!SessionNext, Promised!ConnMoves
<1> QED BY <1>1, <1>2 DEF CloseTarget

LEMMA ClientRefines ==
    ASSUME TypeOK, DownInv, ToldTheTruth, WayInv, EndsInv, ClientMoves, UNCHANGED serverVars
    PROVE  [Promised!SessionNext]_(Promised!sessionVars)
<1>t. out \in Seq(Received) /\ tsent \in Nat /\ Len(out) \in Nat /\ Delivered \in Nat /\ cchunk \in Nat
  BY DownNumbers DEF TypeOK, ClientTypeOK, ServerTypeOK
<1>s. UNCHANGED <<conn, tgot, tsent>>
  OBVIOUS
<1>1. CASE \/ Handshake \/ HandshakeFails \/ StreamCancelled \/ RecvDown \/ SendUp \/ AckOffered
  <2>1. UNCHANGED ends
    BY <1>1 DEF Handshake, HandshakeFails, StreamCancelled, RecvDown, SendUp, AckOffered, ends
  <2> QED BY <2>1, SessionStill
<1>2. CASE WriteDown
  <2>1. UNCHANGED <<lsent, fend>>
    BY <1>2 DEF WriteDown
  <2>2. CASE out' = out
    BY <1>s, <2>1, <2>2 DEF Promised!sessionVars
  <2>3. CASE Reachable /\ out' = Append(out, Payload(cchunk))
    <3>1. Listening /\ crecv = "write"
      BY <1>2, <2>3 DEF WriteDown, Listening, Reachable
    <3>2. cchunk = Delivered + 1 /\ cchunk <= tsent
      BY <3>1 DEF DownInv, DownOnStream, WayInv
    <3>3. Delivered < tsent
      BY <1>t, <3>2
    <3>4. Promised!Given = Delivered
      BY DEF Promised!Given, Delivered, Chunks, Cardinality, Promised!Cardinality
    <3>5. out' = Append(out, [kind |-> "payload", n |-> Delivered + 1])
      BY <2>3, <3>2 DEF Payload
    <3>6. fend # "closed"
      BY <2>3 DEF Reachable
    <3>7. Promised!ToLocal
      BY <1>s, <2>1, <3>3, <3>4, <3>5, <3>6 DEF Promised!ToLocal
    <3> QED BY <3>7 DEF Promised!SessionNext
  <2> QED BY <1>2, <2>2, <2>3 DEF WriteDown
<1>3. CASE ReplySuccess
  <2>1. reply = "reply" /\ UNCHANGED <<lsent, fend>>
    BY <1>3 DEF ReplySuccess
  <2>2. CASE out' = out
    BY <1>s, <2>1, <2>2 DEF Promised!sessionVars
  <2>3. CASE Reachable /\ out' = Append(out, Signal("ok"))
    <3>1. conn # "none"
      BY <2>1 DEF ToldTheTruth, Told
    <3>2. fend # "closed" /\ \A i \in 1..Len(out) : out[i].kind = "payload"
      BY <2>1, <2>3 DEF Reachable, EndsInv
    <3>3. Promised!Answers
      BY <1>s, <2>1, <2>3, <3>1, <3>2 DEF Promised!Answers, Signal
    <3> QED BY <3>3 DEF Promised!SessionNext
  <2> QED BY <1>3, <2>2, <2>3 DEF ReplySuccess, Answer
<1>4. CASE ReplyFailure
  <2>1. reply = "await" /\ UNCHANGED <<lsent, fend>>
    BY <1>4 DEF ReplyFailure
  <2>2. CASE out' = out
    BY <1>s, <2>1, <2>2 DEF Promised!sessionVars
  <2>3. CASE Reachable /\ out' = Append(out, Signal("refused"))
    <3>1. fend # "closed" /\ \A i \in 1..Len(out) : out[i].kind = "payload"
      BY <2>1, <2>3 DEF Reachable, EndsInv
    <3>2. Promised!Answers
      BY <1>s, <2>1, <2>3, <3>1 DEF Promised!Answers, Signal
    <3> QED BY <3>2 DEF Promised!SessionNext
  <2> QED BY <1>4, <2>2, <2>3 DEF ReplyFailure, Answer
<1>5. CASE HandlerEnds
  <2>1. fend = "wait" /\ fend' = "closed" /\ UNCHANGED lsent
    BY <1>5 DEF HandlerEnds
  <2>2. out' \in {out, Append(out, [kind |-> "unavailable", n |-> 0])}
    BY <1>5 DEF HandlerEnds, Answer, Signal
  <2>3. Promised!Ends
    BY <1>s, <2>1, <2>2 DEF Promised!Ends
  <2> QED BY <2>3 DEF Promised!SessionNext
<1>6. CASE LocalSends
  <2>1. fend = "wait" /\ lsent' = lsent + 1 /\ UNCHANGED <<out, fend>>
    BY <1>6 DEF LocalSends
  <2>2. Promised!Sends
    BY <1>s, <2>1 DEF Promised!Sends
  <2> QED BY <2>2 DEF Promised!SessionNext
<1> QED BY <1>1, <1>2, <1>3, <1>4, <1>5, <1>6 DEF ClientMoves

LEMMA ServerRefines ==
    ASSUME TypeOK, UpInv, WayInv, EndsInv, ServerMoves, UNCHANGED clientVars
    PROVE  [Promised!SessionNext]_(Promised!sessionVars)
<1>t. lsent \in Nat /\ schunk \in Nat /\ Len(tgot) \in Nat
  BY DEF TypeOK, ClientTypeOK, ServerTypeOK
<1>s. UNCHANGED <<lsent, out, fend>>
  OBVIOUS
<1>1. CASE \/ UpHeader \/ UpSendError \/ RecvUp \/ DownAccept \/ DownSend \/ ForcedStop \/ StreamBreaks
  <2>1. UNCHANGED ends
    BY <1>1 DEF UpHeader, UpSendError, UpReturn, RecvUp, DownAccept, DownSend, ForcedStop, StreamBreaks, ends
  <2> QED BY <2>1, SessionStill
<1>2. CASE UpDialled
  <2>1. sup = "dial" /\ conn' = "open" /\ UNCHANGED <<tgot, tsent>>
    BY <1>2 DEF UpDialled
  <2>2. conn = "none"
    BY <2>1 DEF EndsInv, Dialled
  <2>3. Promised!ConnMoves
    BY <1>s, <2>1, <2>2 DEF Promised!ConnMoves
  <2> QED BY <2>3 DEF Promised!SessionNext
<1>3. CASE UpCancelled \/ Watch \/ HandlerLeaves \/ HandlerSendsEOF
  <2>1. conn' \in {conn, CloseTarget} /\ UNCHANGED <<tgot, tsent>>
    BY <1>3 DEF UpCancelled, Watch, HandlerLeaves, HandlerSendsEOF, HandlerReturns
  <2> QED BY <1>s, <2>1, TargetMoves
<1>4. CASE WriteUp
  <2>1. srecv = "write" /\ UNCHANGED <<conn, tsent>>
    BY <1>4 DEF WriteUp
  <2>2. CASE tgot' = tgot
    BY <1>s, <2>1, <2>2 DEF Promised!sessionVars
  <2>3. CASE conn = "open" /\ tgot' = Append(tgot, schunk)
    <3>1. schunk = Len(tgot) + 1 /\ schunk <= lsent
      BY <2>1 DEF UpInv, UpOnStream, WayInv
    <3>2. Len(tgot) < lsent
      BY <1>t, <3>1
    <3>3. Promised!ToTarget
      BY <1>s, <2>1, <2>3, <3>1, <3>2 DEF Promised!ToTarget
    <3> QED BY <3>3 DEF Promised!SessionNext
  <2> QED BY <1>4, <2>2, <2>3 DEF WriteUp
<1>5. CASE TargetSends
  <2>1. conn = "open" /\ tsent' = tsent + 1 /\ UNCHANGED <<conn, tgot>>
    BY <1>5 DEF TargetSends
  <2>2. Promised!Sends
    BY <1>s, <2>1 DEF Promised!Sends
  <2> QED BY <2>2 DEF Promised!SessionNext
<1> QED BY <1>1, <1>2, <1>3, <1>4, <1>5 DEF ServerMoves

(* Whatever the goroutines of both sides do, and whatever stops, fails or    *)
(* goes away: between its two ends, client, stream and server are one         *)
(* session.  Nothing else reaches either end, and nothing in another order    *)
(* (rpc/client/forwarder.go, rpc/server/forwarder.go).                        *)
THEOREM TunnelImplementsSession == Spec => ImplementsSession
<1> DEFINE Inv == ServerOrder /\ DownInv /\ UpInv /\ ToldTheTruth /\ WayInv /\ EndsInv
<1>1. TypeOK /\ Inv /\ [Next]_vars => [Promised!SessionNext]_(Promised!sessionVars)
  <2> SUFFICES ASSUME TypeOK, Inv, [Next]_vars PROVE [Promised!SessionNext]_(Promised!sessionVars)
    OBVIOUS
  <2>1. CASE ClientMoves /\ UNCHANGED serverVars
    BY <2>1, ClientRefines
  <2>2. CASE ServerMoves /\ UNCHANGED clientVars
    BY <2>2, ServerRefines
  <2>3. CASE UNCHANGED ends
    BY <2>3, SessionStill
  <2>4. CASE UNCHANGED vars
    BY <2>3, <2>4 DEF ends
  <2>5. UNCHANGED <<ends, way, reply>> => UNCHANGED ends
    OBVIOUS
  <2> QED
    BY <2>1, <2>2, <2>3, <2>4, <2>5, OnlyMoves
<1>2. Spec => []WayInv
  BY SessionStart, WayStep, TunnelTypes, ServerInvariant, DataKept, PTL DEF Spec
<1>3. Spec => []EndsInv
  BY SessionStart, EndsStep, TunnelTypes, ServerInvariant, PTL DEF Spec
<1>4. Spec => []ToldTheTruth
  BY ToldInit, ToldStep, TunnelTypes, PTL DEF Spec
<1>5. Spec => []Inv
  BY <1>2, <1>3, <1>4, ServerInvariant, DataKept, PTL
<1> QED
  BY <1>1, <1>5, TunnelTypes, SessionStart, PTL DEF Spec, ImplementsSession, Promised!SessionSpec
=============================================================================
