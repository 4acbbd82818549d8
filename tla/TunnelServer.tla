---------------------------- MODULE TunnelServer ----------------------------
(***************************************************************************)
(* The server's side of one tunnelled session: Server.Proxy and the        *)
(* Forwarder of rpc/server, with the target it dials.  Every action is     *)
(* what one goroutine does between two points at which another one, or the *)
(* peer, can see or change what they share.                                *)
(***************************************************************************)
EXTENDS RPCStream

CONSTANT MaxDown  \* bound: chunks the target sends

VARIABLES
    handler,     \* Server.Proxy: "none", "wait", "sendeof", "returned"
    sup,         \* CopyClientToTarget: "idle", "header", "dial", "senderror",
                 \* "select", "ret", "done"
    superr,      \* what it returns, until the errgroup has recorded it
    srecv,       \* its receive goroutine: "idle", "recv", "write", "ended"
    srecverr,    \* what it left in errCh, "none" once that is read
    schunk,      \* the chunk it writes
    sdown,       \* CopyTargetToClient: "idle", "await", "accept", "read",
                 \* "send", "sendlast", "ret", "done"
    sdownerr,
    dchunk,      \* the chunk it sends
    watch,       \* the goroutine that closes the target on cancellation
    ack,         \* Ack holds its token
    ackclosed,   \* Ack is closed
    serr,        \* the first error of the errgroup, "none" before
    sctx,        \* the server's context is cancelled
    conn,        \* Conn: "none", "open", "closed"
    tq,          \* chunks from the target, not yet read
    tsent,       \* how many chunks the target has sent
    tend,        \* the target's sending half: "open", "eof", "reset"
    tgot         \* the chunks the target has received

goroutineVars == <<handler, sup, superr, srecv, srecverr, schunk, sdown, sdownerr, dchunk, watch>>
shareVars == <<ack, ackclosed, serr, conn>>
targetVars == <<tq, tsent, tend, tgot>>
serverVars == <<goroutineVars, shareVars, sctx, targetVars>>

Errors == {"none", "eof", "fail", "canceled", "rpccanceled"}

ServerTypeOK ==
    /\ handler \in {"none", "wait", "sendeof", "returned"}
    /\ sup \in {"idle", "header", "dial", "senderror", "select", "ret", "done"}
    /\ srecv \in {"idle", "recv", "write", "ended"}
    /\ sdown \in {"idle", "await", "accept", "read", "send", "sendlast", "ret", "done"}
    /\ watch \in {"idle", "wait", "done"}
    /\ {superr, srecverr, sdownerr, serr} \subseteq Errors
    /\ {schunk, dchunk, tsent} \subseteq Nat
    /\ ack \in BOOLEAN /\ ackclosed \in BOOLEAN /\ sctx \in BOOLEAN
    /\ conn \in {"none", "open", "closed"}
    /\ tq \in Seq(Nat) /\ tgot \in Seq(Nat)
    /\ tend \in {"open", "eof", "reset"}

ServerInit ==
    /\ handler = "none" /\ sup = "idle" /\ srecv = "idle" /\ sdown = "idle"
    /\ watch = "idle"
    /\ superr = "none" /\ srecverr = "none" /\ sdownerr = "none" /\ serr = "none"
    /\ schunk = 0 /\ dchunk = 0
    /\ ack = FALSE /\ ackclosed = FALSE /\ sctx = FALSE
    /\ conn = "none"
    /\ tq = <<>> /\ tsent = 0 /\ tend = "open" /\ tgot = <<>>

(* The errgroup's context: a member failed, or the server is stopping. *)
ServerDone == serr # "none" \/ sctx

(* Forwarder.Close: once, and only what has been dialled. *)
CloseTarget == IF conn = "open" THEN "closed" ELSE conn

----------------------------------------------------------------------------
(* The stream interceptor checks the user before the handler runs.          *)
Refuse ==
    /\ handler = "none" /\ stream = "open"
    /\ stream' = "refused"
    /\ UNCHANGED <<c2s, s2c, serverVars>>

(* Server.Proxy creates the forwarder and Start both of its goroutines.     *)
Serve ==
    /\ handler = "none" /\ stream = "open"
    /\ handler' = "wait" /\ sup' = "header" /\ sdown' = "await"
    /\ UNCHANGED <<superr, srecv, srecverr, schunk, sdownerr, dchunk, watch,
                   shareVars, sctx, targetVars, streamVars>>

----------------------------------------------------------------------------
(* CopyClientToTarget *)

(* The function returns e; its deferred close ends the wait for the ack.    *)
UpReturn(e) ==
    /\ sup' = "ret" /\ superr' = e
    /\ ackclosed' = TRUE

(* The header has arrived; its address may be malformed or have no route.   *)
UpHeader ==
    /\ sup = "header"
    /\ ServerRecv
    /\ \/ sup' = "dial" /\ UNCHANGED <<superr, ackclosed>>
       \/ UpReturn("fail")
    /\ UNCHANGED <<handler, srecv, srecverr, schunk, sdown, sdownerr, dchunk, watch,
                   ack, serr, conn, sctx, targetVars>>

UpNoHeader ==
    /\ sup = "header"
    /\ \E e \in ServerRecvError : UpReturn(e)
    /\ UNCHANGED <<handler, srecv, srecverr, schunk, sdown, sdownerr, dchunk, watch,
                   ack, serr, conn, sctx, targetVars, streamVars>>

(* The dial succeeded: the ack is given and the receive goroutine started.  *)
UpDialled ==
    /\ sup = "dial"
    /\ conn' = "open" /\ ack' = TRUE
    /\ srecv' = "recv" /\ sup' = "select"
    /\ UNCHANGED <<handler, superr, srecverr, schunk, sdown, sdownerr, dchunk, watch,
                   ackclosed, serr, sctx, targetVars, streamVars>>

UpDialFails ==
    /\ sup = "dial"
    /\ sup' = "senderror"
    /\ UNCHANGED <<handler, superr, srecv, srecverr, schunk, sdown, sdownerr, dchunk, watch,
                   shareVars, sctx, targetVars, streamVars>>

(* The client is told of a failed dial, whether or not the Send succeeds.   *)
UpSendError ==
    /\ sup = "senderror"
    /\ \/ ServerSend(Signal("error"))
       \/ ServerSendError # {} /\ UNCHANGED streamVars
    /\ UpReturn("fail")
    /\ UNCHANGED <<handler, srecv, srecverr, schunk, sdown, sdownerr, dchunk, watch,
                   ack, serr, conn, sctx, targetVars>>

UpReceiverEnded ==
    /\ sup = "select" /\ srecv = "ended"
    /\ UpReturn(srecverr) /\ srecverr' = "none"
    /\ UNCHANGED <<handler, srecv, schunk, sdown, sdownerr, dchunk, watch,
                   ack, serr, conn, sctx, targetVars, streamVars>>

(* Mutant: the upload only ends with its receive goroutine. *)
UpCancelledNever == FALSE /\ UNCHANGED <<serverVars, streamVars>>

(* Cancelled: the target is closed and the receive goroutine is abandoned.  *)
UpCancelled ==
    /\ sup = "select" /\ ServerDone
    /\ conn' = CloseTarget
    /\ UpReturn("canceled")
    /\ UNCHANGED <<handler, srecv, srecverr, schunk, sdown, sdownerr, dchunk, watch,
                   ack, serr, sctx, targetVars, streamVars>>

(* errgroup records the first error. *)
UpGroup ==
    /\ sup = "ret"
    /\ sup' = "done" /\ superr' = "none"
    /\ serr' = IF serr = "none" THEN superr ELSE serr
    /\ UNCHANGED <<handler, srecv, srecverr, schunk, sdown, sdownerr, dchunk, watch,
                   ack, ackclosed, conn, sctx, targetVars, streamVars>>

(* The receive goroutine. *)
RecvUp ==
    /\ srecv = "recv"
    /\ ServerRecv /\ schunk' = Head(c2s).n
    /\ srecv' = "write"
    /\ UNCHANGED <<handler, sup, superr, srecverr, sdown, sdownerr, dchunk, watch,
                   shareVars, sctx, targetVars>>

RecvUpFails ==
    /\ srecv = "recv"
    /\ \E e \in ServerRecvError : srecverr' = e
    /\ srecv' = "ended"
    /\ UNCHANGED <<handler, sup, superr, schunk, sdown, sdownerr, dchunk, watch,
                   shareVars, sctx, targetVars, streamVars>>

WriteUp ==
    /\ srecv = "write"
    /\ \/ /\ conn = "open" /\ tend # "reset"
          /\ tgot' = Append(tgot, schunk)
          /\ srecv' = "recv" /\ UNCHANGED srecverr
       \/ /\ conn = "closed" \/ tend = "reset"
          /\ srecv' = "ended" /\ srecverr' = "fail"
          /\ UNCHANGED tgot
    /\ UNCHANGED <<handler, sup, superr, schunk, sdown, sdownerr, dchunk, watch,
                   shareVars, sctx, tq, tsent, tend, streamVars>>

----------------------------------------------------------------------------
(* CopyTargetToClient *)

(* An error after the group was cancelled is reported as the cancellation.  *)
DownReturn(e) ==
    /\ sdown' = "ret"
    /\ sdownerr' = IF ServerDone THEN "canceled" ELSE e

(* Mutant: the download does not wait for the dial. *)
DownAwaitEager ==
    /\ sdown = "await" /\ sdown' = "accept"
    /\ UNCHANGED <<handler, sup, superr, srecv, srecverr, schunk, sdownerr, dchunk, watch,
                   shareVars, sctx, targetVars, streamVars>>

DownAwait ==
    /\ sdown = "await"
    /\ \/ ack /\ ack' = FALSE /\ sdown' = "accept" /\ UNCHANGED sdownerr
       \/ ~ack /\ ackclosed /\ sdown' = "ret" /\ sdownerr' = "fail" /\ UNCHANGED ack
       \/ ServerDone /\ sdown' = "ret" /\ sdownerr' = "canceled" /\ UNCHANGED ack
    /\ UNCHANGED <<handler, sup, superr, srecv, srecverr, schunk, dchunk, watch,
                   ackclosed, serr, conn, sctx, targetVars, streamVars>>

(* The client is told that the target answered; then the watcher starts.    *)
DownAccept ==
    /\ sdown = "accept"
    /\ \/ /\ ServerSend(Signal("accepted"))
          /\ sdown' = "read" /\ watch' = "wait" /\ UNCHANGED sdownerr
       \/ /\ sdown' = "ret" /\ sdownerr' \in ServerSendError
          /\ UNCHANGED <<watch, streamVars>>
    /\ UNCHANGED <<handler, sup, superr, srecv, srecverr, schunk, dchunk,
                   shareVars, sctx, targetVars>>

(* Mutant: an error is looked at before the data that came with it. *)
DownReadDrops ==
    /\ sdown = "read" /\ conn = "open" /\ tend # "reset" /\ tq # <<>>
    /\ dchunk' = Head(tq) /\ tq' = Tail(tq)
    /\ \/ sdown' = "send" /\ UNCHANGED sdownerr
       \/ tend = "eof" /\ Len(tq) = 1 /\ DownReturn("eof")
    /\ UNCHANGED <<handler, sup, superr, srecv, srecverr, schunk, watch,
                   shareVars, sctx, tsent, tend, tgot, streamVars>>

(* A Read may return the last chunk together with the end.                  *)
DownRead ==
    /\ sdown = "read" /\ conn = "open" /\ tend # "reset" /\ tq # <<>>
    /\ dchunk' = Head(tq) /\ tq' = Tail(tq)
    /\ sdown' \in {"send"} \cup (IF tend = "eof" /\ Len(tq) = 1 THEN {"sendlast"} ELSE {})
    /\ UNCHANGED <<handler, sup, superr, srecv, srecverr, schunk, sdownerr, watch,
                   shareVars, sctx, tsent, tend, tgot, streamVars>>

DownReadEnds ==
    /\ sdown = "read"
    /\ \/ conn = "open" /\ tq = <<>> /\ tend = "eof" /\ DownReturn("eof")
       \/ (conn = "closed" \/ tend = "reset") /\ DownReturn("fail")
    /\ UNCHANGED <<handler, sup, superr, srecv, srecverr, schunk, dchunk, watch,
                   shareVars, sctx, targetVars, streamVars>>

DownSend ==
    /\ sdown \in {"send", "sendlast"}
    /\ \/ /\ ServerSend(Payload(dchunk))
          /\ IF sdown = "send" THEN sdown' = "read" /\ UNCHANGED sdownerr
                               ELSE DownReturn("eof")
       \/ (\E e \in ServerSendError : DownReturn(e)) /\ UNCHANGED streamVars
    /\ UNCHANGED <<handler, sup, superr, srecv, srecverr, schunk, dchunk, watch,
                   shareVars, sctx, targetVars>>

DownGroup ==
    /\ sdown = "ret"
    /\ sdown' = "done" /\ sdownerr' = "none"
    /\ serr' = IF serr = "none" THEN sdownerr ELSE serr
    /\ UNCHANGED <<handler, sup, superr, srecv, srecverr, schunk, dchunk, watch,
                   ack, ackclosed, conn, sctx, targetVars, streamVars>>

(* The watcher: closes the target on cancellation, ends with the download.  *)
Watch ==
    /\ watch = "wait"
    /\ \/ ServerDone /\ conn' = CloseTarget
       \/ sdown \in {"ret", "done"} /\ UNCHANGED conn
    /\ watch' = "done"
    /\ UNCHANGED <<handler, sup, superr, srecv, srecverr, schunk, sdown, sdownerr, dchunk,
                   ack, ackclosed, serr, sctx, targetVars, streamVars>>

----------------------------------------------------------------------------
(* Server.Proxy after Start *)

(* Mutant: the target is left to the watcher and the upload. *)
HandlerReturnsOnly == handler' = "returned" /\ UNCHANGED conn

(* The deferred calls of Proxy, and the end of the stream.                  *)
HandlerReturns ==
    /\ handler' = "returned"
    /\ conn' = CloseTarget

(* A cancelled client is not sent anything. *)
HandlerLeaves ==
    /\ handler = "wait" /\ sup = "done" /\ sdown = "done"
    /\ serr = "rpccanceled"
    /\ HandlerReturns
    /\ UNCHANGED <<sup, superr, srecv, srecverr, schunk, sdown, sdownerr, dchunk, watch,
                   ack, ackclosed, serr, sctx, targetVars, streamVars>>

(* Mutant: the handler goes on with the first member that returned. *)
HandlerWaitedForOne ==
    /\ handler = "wait" /\ (sup = "done" \/ sdown = "done")
    /\ serr # "rpccanceled"
    /\ handler' = "sendeof"
    /\ UNCHANGED <<sup, superr, srecv, srecverr, schunk, sdown, sdownerr, dchunk, watch,
                   shareVars, sctx, targetVars, streamVars>>

HandlerWaited ==
    /\ handler = "wait" /\ sup = "done" /\ sdown = "done"
    /\ serr # "rpccanceled"
    /\ handler' = "sendeof"
    /\ UNCHANGED <<sup, superr, srecv, srecverr, schunk, sdown, sdownerr, dchunk, watch,
                   shareVars, sctx, targetVars, streamVars>>

HandlerSendsEOF ==
    /\ handler = "sendeof"
    /\ \/ /\ stream = "open" /\ Len(s2c) < Window
          /\ s2c' = Append(s2c, Signal("eof"))
          /\ stream' = "finished" /\ c2s' = <<>>
       \/ ServerSendError # {} /\ UNCHANGED streamVars
    /\ HandlerReturns
    /\ UNCHANGED <<sup, superr, srecv, srecverr, schunk, sdown, sdownerr, dchunk, watch,
                   ack, ackclosed, serr, sctx, targetVars>>

----------------------------------------------------------------------------
(* The target and the server's context *)

TargetSends ==
    /\ conn = "open" /\ tend = "open" /\ tsent < MaxDown
    /\ tsent' = tsent + 1 /\ tq' = Append(tq, tsent + 1)
    /\ UNCHANGED <<goroutineVars, shareVars, sctx, tend, tgot, streamVars>>

TargetEOF ==
    /\ conn = "open" /\ tend = "open"
    /\ tend' = "eof"
    /\ UNCHANGED <<goroutineVars, shareVars, sctx, tq, tsent, tgot, streamVars>>

TargetResets ==
    /\ conn = "open" /\ tend # "reset"
    /\ tend' = "reset"
    /\ UNCHANGED <<goroutineVars, shareVars, sctx, tq, tsent, tgot, streamVars>>

ServerStops ==
    /\ ~sctx /\ sctx' = TRUE
    /\ UNCHANGED <<goroutineVars, shareVars, targetVars, streamVars>>

(* ListenAndServe waits a while for GracefulStop, then stops by force.     *)
ForcedStop == sctx /\ Break /\ UNCHANGED serverVars

(* The transport fails by itself. *)
StreamBreaks == Break /\ UNCHANGED serverVars
=============================================================================
