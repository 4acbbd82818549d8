------------------------------- MODULE Tunnel -------------------------------
(***************************************************************************)
(* One CONNECT session end to end: local client, front end, Client.Proxy   *)
(* and its forwarder, the gRPC stream, Server.Proxy and its forwarder, and *)
(* the target.                                                             *)
(***************************************************************************)
EXTENDS TunnelClient, TunnelServer

CONSTANTS
    Faults,    \* the kinds of faults looked at
    MaxFaults  \* bound: faults a session meets

VARIABLE faults  \* how many it has met

vars == <<clientVars, serverVars, streamVars, faults>>

Init == StreamInit /\ ClientInit /\ ServerInit /\ faults = 0

(* A step of one side leaves the other side alone. *)
Client(A) == A /\ UNCHANGED <<serverVars, faults>>
Server(A) == A /\ UNCHANGED <<clientVars, faults>>

(* An end point disappears, a side is stopped or the transport fails. *)
Meets(fault) == fault \in Faults /\ faults < MaxFaults /\ faults' = faults + 1
ClientMeets(fault, A) == Meets(fault) /\ A /\ UNCHANGED serverVars
ServerMeets(fault, A) == Meets(fault) /\ A /\ UNCHANGED clientVars

Next ==
    \/ Client(OpenStream) \/ Client(Handshake) \/ Client(HandshakeFails)
    \/ Client(ProxyWaited) \/ Client(StreamCancelled) \/ Client(RecvDown)
    \/ Client(RecvDownFails) \/ Client(WriteDown) \/ Client(DownEnds)
    \/ Client(DownCancels) \/ Client(DownDrained) \/ Client(ReadUp)
    \/ Client(SendUp) \/ Client(UpEnds) \/ Client(AckSelect)
    \/ Client(AckOffered) \/ Client(AckCancelled) \/ Client(ReplySuccess)
    \/ Client(ReplyFailure) \/ Client(ProxyRecorded) \/ Client(HandlerEnds)
    \/ Client(LocalSends) \/ Client(LocalEOF)
    \/ Server(Refuse) \/ Server(Serve) \/ Server(UpHeader)
    \/ Server(UpNoHeader) \/ Server(UpDialled) \/ Server(UpDialFails)
    \/ Server(UpSendError) \/ Server(UpReceiverEnded) \/ Server(UpCancelled)
    \/ Server(UpGroup) \/ Server(RecvUp) \/ Server(RecvUpFails)
    \/ Server(WriteUp) \/ Server(DownAwait) \/ Server(DownAccept)
    \/ Server(DownRead) \/ Server(DownReadEnds) \/ Server(DownSend)
    \/ Server(DownGroup) \/ Server(Watch) \/ Server(HandlerLeaves)
    \/ Server(HandlerWaited) \/ Server(HandlerSendsEOF) \/ Server(TargetSends)
    \/ Server(TargetEOF) \/ Server(ForcedStop)
    \/ ClientMeets("local gone", LocalGone)
    \/ ClientMeets("front stops", FrontStops)
    \/ ServerMeets("target resets", TargetResets)
    \/ ServerMeets("server stops", ServerStops)
    \/ ServerMeets("stream breaks", StreamBreaks)

Spec == Init /\ [][Next]_vars

(* Every goroutine that can run does.  The local client takes what it is   *)
(* sent, the target's dial returns, and a stopping server ends its streams *)
(* by force after a while.  Nobody has to send or to close anything.       *)
FairSpec ==
    /\ Spec
    /\ WF_vars(Client(OpenStream \/ Handshake \/ HandshakeFails \/ ProxyWaited \/ ProxyRecorded))
    /\ WF_vars(Client(StreamCancelled))
    /\ WF_vars(Client(RecvDown \/ RecvDownFails \/ WriteDown))
    /\ WF_vars(Client(DownEnds \/ DownCancels \/ DownDrained))
    /\ WF_vars(Client(ReadUp \/ SendUp))
    /\ WF_vars(Client(UpEnds))
    /\ WF_vars(Client(AckSelect \/ AckOffered \/ AckCancelled))
    /\ WF_vars(Client(ReplySuccess \/ ReplyFailure))
    /\ WF_vars(Client(HandlerEnds))
    /\ WF_vars(Server(UpHeader \/ UpNoHeader \/ UpDialled \/ UpDialFails \/ UpSendError
                      \/ UpReceiverEnded \/ UpCancelled \/ UpGroup))
    /\ WF_vars(Server(RecvUp \/ RecvUpFails \/ WriteUp))
    /\ WF_vars(Server(DownAwait \/ DownAccept \/ DownRead \/ DownReadEnds \/ DownSend \/ DownGroup))
    /\ WF_vars(Server(Watch))
    /\ WF_vars(Server(Serve \/ Refuse \/ HandlerLeaves \/ HandlerWaited \/ HandlerSendsEOF))
    /\ WF_vars(Server(ForcedStop))

----------------------------------------------------------------------------
TypeOK == StreamTypeOK /\ ClientTypeOK /\ ServerTypeOK

Delivered == Chunks(out, Len(out))

(* At most one goroutine of the server is inside Stream.Send, which is not  *)
(* safe for concurrent use (rpc/server/forwarder.go:117-119).               *)
SendingUp == sup = "senderror"
SendingDown == sdown \in {"accept", "send", "sendlast"}
SendingEnd == handler = "sendeof"
SingleSender ==
    /\ ~(SendingUp /\ SendingDown)
    /\ ~(SendingUp /\ SendingEnd)
    /\ ~(SendingDown /\ SendingEnd)

(* Once Server.Proxy has returned, the target it dialled is closed, however *)
(* the dial, the watcher, the upload and the deferred Close interleaved     *)
(* (rpc/server/forwarder.go:83-91).                                         *)
TargetReleased == handler = "returned" => conn # "open"

(* Once Client.Proxy has returned, nothing writes to the caller's writer    *)
(* any more (rpc/client/forwarder.go:127-131).                              *)
NoWriteAfterReturn ==
    proxy \in {"returned", "recorded"} => crecv \in {"idle", "ended"}

(* The chunks that reach either end are the first ones the other end sent, *)
(* in order, none twice and none left out (rpc/client/forwarder.go,         *)
(* rpc/server/forwarder.go: one goroutine reads and sends, one receives and *)
(* writes).                                                                 *)
InOrder ==
    /\ \A i \in 1..Len(out) : out[i].kind = "payload" => out[i].n = Chunks(out, i)
    /\ \A i \in 1..Len(tgot) : tgot[i] = i

(* A session that the server ended because the target had sent everything,  *)
(* and whose end the client has received, has delivered all of it, in       *)
(* order, to a local client that stayed (rpc/server/server.go:162-164).      *)
EndMeansComplete ==
    /\ InOrder
    /\ (serr = "eof" /\ crecverr = "eof" /\ stream # "broken" /\ lend # "gone")
           => Delivered = tsent

(* The local client is told of success only when the target was dialled:    *)
(* the server's answer, the ack goroutine and the front end hand it on      *)
(* (rpc/client/forwarder.go:280-287, http/http.go:317-327).                 *)
SuccessMeansDialled ==
    (\E i \in 1..Len(out) : out[i].kind = "ok") => conn # "none"

(* Once the tunnel is established nothing but the target's bytes is written *)
(* into it: the client no longer expects HTTP framing (http/utils.go:18).   *)
NoErrorInsideTunnel ==
    \A i, j \in 1..Len(out) :
        i < j /\ out[i].kind = "ok" => out[j].kind = "payload"

(* Nobody waits for ever for an answer: Client.Proxy hands over the address *)
(* or closes the channel (rpc/client/forwarder.go:263-294).                 *)
EveryConnectAnswered == reply = "await" ~> reply = "done"

(* When the local client or the target ends, or a side is stopped, both     *)
(* handlers return, wherever their goroutines are blocked: in a dial, in a   *)
(* Recv that only a forced stop ends, in a Send without a window, in a Read  *)
(* (rpc/server/server.go:105-127, rpc/client/forwarder.go:123-135).          *)
SessionEnds ==
    lend # "open" \/ tend # "open" \/ cctx \/ sctx
        ~> fend = "closed" /\ handler \in {"none", "returned"}

----------------------------------------------------------------------------
Promised == INSTANCE Session WITH over <- fend = "closed"

(* What happens between the two ends is a session (rpc/client/forwarder.go, *)
(* rpc/server/forwarder.go).                                                *)
ImplementsSession == Promised!SessionSpec
=============================================================================
