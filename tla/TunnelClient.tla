---------------------------- MODULE TunnelClient ----------------------------
(***************************************************************************)
(* The client's side of one tunnelled session: the CONNECT handler of a    *)
(* front end (HTTP or SOCKS), Client.Proxy and the Forwarder of rpc/client.*)
(* The local client is the program that uses the proxy.                    *)
(***************************************************************************)
EXTENDS RPCStream

CONSTANTS
    Fronts,  \* the front ends looked at, of {"http", "socks"}
    MaxUp    \* bound: chunks the local client sends

VARIABLES
    front,       \* the front end
    proxy,       \* Client.Proxy: "open", "handshake", "wait", "returned",
                 \* "recorded" (in the front end's errgroup)
    proxyerr,    \* what it returns
    crecv,       \* receive goroutine: "idle", "recv", "write", "ended"
    crecverr,
    cchunk,      \* the chunk it writes
    cdown,       \* CopyTargetToSRC: "idle", "select", "drain", "done"
    cread,       \* read goroutine: "idle", "read", "send", "ended"
    creaderr,
    uchunk,      \* the chunk it sends
    cup,         \* CopySRCtoTarget: "idle", "select", "done"
    cack,        \* the ack goroutine: "idle", "select", "offer", "done"
    caddr,       \* the channel localAddr: "empty", "addr", "closed"
    cerr,        \* the first error of the forwarder's errgroup
    cancelled,   \* the forwarder called cancel
    cctx,        \* the front end's context is cancelled
    reply,       \* the goroutine that answers: "await", "reply", "done"
    ferr,        \* the first error of the handler's errgroup
    fend,        \* the handler: "wait", "closed" (with the client's conn)
    lq,          \* chunks from the local client, not yet read
    lsent,       \* how many it has sent
    lend,        \* its sending half: "open", "eof", "gone" (closed)
    out          \* what it has received

routineVars == <<proxy, proxyerr, crecv, crecverr, cchunk, cdown, cread, creaderr, uchunk, cup, cack>>
signalVars == <<caddr, cerr, cancelled>>
frontVars == <<front, reply, ferr, fend>>
localVars == <<lq, lsent, lend, out>>
clientVars == <<routineVars, signalVars, cctx, frontVars, localVars>>

Results == {"none", "eof", "fail", "canceled"}
Answers == {"ok", "refused", "unavailable"}
Received == [kind : Answers \cup {"payload"}, n : Nat]

ClientTypeOK ==
    /\ front \in Fronts
    /\ proxy \in {"open", "handshake", "wait", "returned", "recorded"}
    /\ {proxyerr, crecverr, creaderr, cerr, ferr} \subseteq Results
    /\ crecv \in {"idle", "recv", "write", "ended"}
    /\ cdown \in {"idle", "select", "drain", "done"}
    /\ cread \in {"idle", "read", "send", "ended"}
    /\ cup \in {"idle", "select", "done"}
    /\ cack \in {"idle", "select", "offer", "done"}
    /\ caddr \in {"empty", "addr", "closed"}
    /\ cancelled \in BOOLEAN /\ cctx \in BOOLEAN
    /\ reply \in {"await", "reply", "done"}
    /\ fend \in {"wait", "closed"}
    /\ {cchunk, uchunk, lsent} \subseteq Nat
    /\ lq \in Seq(Nat)
    /\ lend \in {"open", "eof", "gone"}
    /\ out \in Seq(Received)

ClientInit ==
    /\ front \in Fronts
    /\ proxy = "open" /\ proxyerr = "none"
    /\ crecv = "idle" /\ crecverr = "none" /\ cchunk = 0 /\ cdown = "idle"
    /\ cread = "idle" /\ creaderr = "none" /\ uchunk = 0 /\ cup = "idle"
    /\ cack = "idle" /\ caddr = "empty" /\ cerr = "none"
    /\ cancelled = FALSE /\ cctx = FALSE
    /\ reply = "await" /\ ferr = "none" /\ fend = "wait"
    /\ lq = <<>> /\ lsent = 0 /\ lend = "open" /\ out = <<>>

First(old, e) == IF old = "none" THEN e ELSE old

(* The context of the handler's errgroup, the session's and the forwarder's. *)
FrontDone == ferr # "none" \/ cctx
SessionDone == FrontDone \/ cancelled \/ proxy \in {"returned", "recorded"}
ClientDone == cerr # "none" \/ SessionDone

(* The local client takes what is written to it until it or the handler     *)
(* closes the connection.                                                   *)
Reachable == lend # "gone" /\ fend = "wait"

----------------------------------------------------------------------------
(* Client.Proxy.  Its deferred calls cancel the stream and close the        *)
(* channel on which the front end waits for the server's address.           *)

ProxyReturns(e) == proxy' = "returned" /\ proxyerr' = e

OpenStream ==
    /\ proxy = "open"
    /\ \/ ~FrontDone /\ stream' = "open" /\ proxy' = "handshake" /\ UNCHANGED proxyerr
       \/ ProxyReturns("fail") /\ UNCHANGED stream
    /\ UNCHANGED <<c2s, s2c, crecv, crecverr, cchunk, cdown, cread, creaderr, uchunk, cup, cack,
                   signalVars, cctx, frontVars, localVars>>

(* The header is sent and Start starts the three members of its errgroup.   *)
Handshake ==
    /\ proxy = "handshake"
    /\ ClientSend(Signal("header"))
    /\ proxy' = "wait"
    /\ crecv' = "recv" /\ cdown' = "select"
    /\ cread' = "read" /\ cup' = "select"
    /\ cack' = "select"
    /\ UNCHANGED <<proxyerr, crecverr, cchunk, creaderr, uchunk,
                   signalVars, cctx, frontVars, localVars>>

(* Send failed, or its deadline passed, perhaps with the header on its way. *)
HandshakeFails ==
    /\ proxy = "handshake"
    /\ \/ (\E e \in ClientSendError : ProxyReturns(e)) /\ UNCHANGED <<streamVars, cancelled>>
       \/ /\ ProxyReturns("fail") /\ cancelled' = TRUE
          /\ ClientSend(Signal("header")) \/ UNCHANGED streamVars
    /\ UNCHANGED <<crecv, crecverr, cchunk, cdown, cread, creaderr, uchunk, cup, cack,
                   caddr, cerr, cctx, frontVars, localVars>>

(* errgroup.Wait: the end of either stream and a cancellation are no error. *)
ProxyWaited ==
    /\ proxy = "wait" /\ cdown = "done" /\ cup = "done" /\ cack = "done"
    /\ ProxyReturns(IF cerr = "fail" THEN "fail" ELSE "none")
    /\ UNCHANGED <<crecv, crecverr, cchunk, cdown, cread, creaderr, uchunk, cup, cack,
                   signalVars, cctx, frontVars, localVars, streamVars>>

(* A cancelled context ends the stream. *)
StreamCancelled ==
    /\ SessionDone /\ Cancel
    /\ UNCHANGED clientVars

----------------------------------------------------------------------------
(* Download *)

RecvDown ==
    /\ crecv = "recv" /\ ClientRecv
    /\ LET m == Head(s2c) IN
       \/ /\ m.kind = "payload"
          /\ crecv' = "write" /\ cchunk' = m.n /\ UNCHANGED <<crecverr, caddr>>
       \/ /\ m.kind = "accepted"
          /\ caddr' = "addr" /\ UNCHANGED <<crecv, crecverr, cchunk>>
       \/ /\ m.kind = "eof"
          /\ crecv' = "ended" /\ crecverr' = "eof" /\ UNCHANGED <<cchunk, caddr>>
       \/ /\ m.kind = "error"
          /\ crecv' = "ended" /\ crecverr' = "fail" /\ caddr' = "closed" /\ UNCHANGED cchunk
    /\ UNCHANGED <<proxy, proxyerr, cdown, cread, creaderr, uchunk, cup, cack,
                   cerr, cancelled, cctx, frontVars, localVars>>

(* A broken transport ends the session like the end of the stream.          *)
RecvDownFails ==
    /\ crecv = "recv"
    /\ \E e \in ClientRecvError : crecverr' = IF e = "unavailable" THEN "eof" ELSE e
    /\ crecv' = "ended"
    /\ UNCHANGED <<proxy, proxyerr, cchunk, cdown, cread, creaderr, uchunk, cup, cack,
                   signalVars, cctx, frontVars, localVars, streamVars>>

(* The first Write to a client that has gone may still seem to succeed.    *)
WriteDown ==
    /\ crecv = "write"
    /\ \/ /\ Reachable /\ out' = Append(out, Payload(cchunk))
          /\ crecv' = "recv" /\ UNCHANGED crecverr
       \/ ~Reachable /\ crecv' = "ended" /\ crecverr' = "fail" /\ UNCHANGED out
       \/ lend = "gone" /\ fend = "wait" /\ crecv' = "recv" /\ UNCHANGED <<crecverr, out>>
    /\ UNCHANGED <<proxy, proxyerr, cchunk, cdown, cread, creaderr, uchunk, cup, cack,
                   signalVars, cctx, frontVars, lq, lsent, lend, streamVars>>

DownEnds ==
    /\ cdown = "select" /\ crecv = "ended"
    /\ cdown' = "done" /\ cerr' = First(cerr, crecverr)
    /\ UNCHANGED <<proxy, proxyerr, crecv, crecverr, cchunk, cread, creaderr, uchunk, cup, cack,
                   caddr, cancelled, cctx, frontVars, localVars, streamVars>>

(* Mutant: the receive goroutine is not awaited. *)
DownCancelsAtOnce ==
    /\ cdown = "select" /\ ClientDone
    /\ cdown' = "done" /\ cancelled' = TRUE /\ cerr' = First(cerr, "canceled")
    /\ UNCHANGED <<proxy, proxyerr, crecv, crecverr, cchunk, cread, creaderr, uchunk, cup, cack,
                   caddr, cctx, frontVars, localVars, streamVars>>

(* On cancellation the stream is aborted and the receive goroutine awaited. *)
DownCancels ==
    /\ cdown = "select" /\ ClientDone
    /\ cdown' = "drain" /\ cancelled' = TRUE
    /\ UNCHANGED <<proxy, proxyerr, crecv, crecverr, cchunk, cread, creaderr, uchunk, cup, cack,
                   caddr, cerr, cctx, frontVars, localVars, streamVars>>

DownDrained ==
    /\ cdown = "drain" /\ crecv = "ended"
    /\ cdown' = "done" /\ cerr' = First(cerr, "canceled")
    /\ UNCHANGED <<proxy, proxyerr, crecv, crecverr, cchunk, cread, creaderr, uchunk, cup, cack,
                   caddr, cancelled, cctx, frontVars, localVars, streamVars>>

----------------------------------------------------------------------------
(* Upload *)

ReadUp ==
    /\ cread = "read"
    /\ \/ /\ lq # <<>> /\ fend = "wait"
          /\ uchunk' = Head(lq) /\ lq' = Tail(lq)
          /\ cread' = "send" /\ UNCHANGED creaderr
       \/ /\ lq = <<>> /\ lend # "open" /\ fend = "wait"
          /\ cread' = "ended" /\ creaderr' = "eof" /\ UNCHANGED <<uchunk, lq>>
       \/ /\ ~Reachable
          /\ cread' = "ended" /\ creaderr' = "fail" /\ UNCHANGED <<uchunk, lq>>
    /\ UNCHANGED <<proxy, proxyerr, crecv, crecverr, cchunk, cdown, cup, cack,
                   signalVars, cctx, frontVars, lsent, lend, out, streamVars>>

SendUp ==
    /\ cread = "send"
    /\ \/ ClientSend(Payload(uchunk)) /\ cread' = "read" /\ UNCHANGED creaderr
       \/ creaderr' \in ClientSendError /\ cread' = "ended" /\ UNCHANGED streamVars
    /\ UNCHANGED <<proxy, proxyerr, crecv, crecverr, cchunk, cdown, uchunk, cup, cack,
                   signalVars, cctx, frontVars, localVars>>

(* Mutant: the upload waits for its Read. *)
UpEndsWithRead ==
    /\ cup = "select"
    /\ cread = "ended" /\ cerr' = First(cerr, creaderr) /\ creaderr' = "none"
    /\ cup' = "done"
    /\ UNCHANGED <<proxy, proxyerr, crecv, crecverr, cchunk, cdown, cread, uchunk, cack,
                   caddr, cancelled, cctx, frontVars, localVars, streamVars>>

(* On cancellation the upload leaves its goroutine behind in its Read.      *)
UpEnds ==
    /\ cup = "select"
    /\ \/ cread = "ended" /\ cerr' = First(cerr, creaderr) /\ creaderr' = "none"
       \/ ClientDone /\ cerr' = First(cerr, "canceled") /\ UNCHANGED creaderr
    /\ cup' = "done"
    /\ UNCHANGED <<proxy, proxyerr, crecv, crecverr, cchunk, cdown, cread, uchunk, cack,
                   caddr, cancelled, cctx, frontVars, localVars, streamVars>>

----------------------------------------------------------------------------
(* The ack goroutine and the front end's answer *)

(* Cancelled; timed out or refused by the server; or handed the address.    *)
AckSelect ==
    /\ cack = "select"
    /\ \/ /\ ClientDone /\ cack' = "done" /\ cerr' = First(cerr, "canceled")
          /\ UNCHANGED caddr
       \/ cack' = "done" /\ cerr' = First(cerr, "fail") /\ UNCHANGED caddr
       \/ caddr = "addr" /\ caddr' = "empty" /\ cack' = "offer" /\ UNCHANGED cerr
    /\ UNCHANGED <<proxy, proxyerr, crecv, crecverr, cchunk, cdown, cread, creaderr, uchunk, cup,
                   cancelled, cctx, frontVars, localVars, streamVars>>

(* The channel to the front end has no buffer: both sides step together.    *)
AckOffered ==
    /\ cack = "offer" /\ reply = "await"
    /\ cack' = "done" /\ reply' = "reply"
    /\ UNCHANGED <<proxy, proxyerr, crecv, crecverr, cchunk, cdown, cread, creaderr, uchunk, cup,
                   signalVars, cctx, front, ferr, fend, localVars, streamVars>>

AckCancelled ==
    /\ cack = "offer" /\ ClientDone
    /\ cack' = "done" /\ cerr' = First(cerr, "canceled")
    /\ UNCHANGED <<proxy, proxyerr, crecv, crecverr, cchunk, cdown, cread, creaderr, uchunk, cup,
                   caddr, cancelled, cctx, frontVars, localVars, streamVars>>

Answer(kind) == out' = IF Reachable THEN Append(out, Signal(kind)) ELSE out

ReplySuccess ==
    /\ reply = "reply"
    /\ reply' = "done"
    /\ Answer("ok")
    /\ ferr' = IF Reachable THEN ferr ELSE First(ferr, "fail")
    /\ UNCHANGED <<front, fend, routineVars, signalVars, cctx, lq, lsent, lend, streamVars>>

(* The channel was closed without an address: SOCKS is answered here, HTTP  *)
(* by its handler.                                                          *)
ReplyFailure ==
    /\ reply = "await" /\ proxy \in {"returned", "recorded"}
    /\ reply' = "done"
    /\ IF front = "socks" THEN Answer("refused") ELSE UNCHANGED out
    /\ ferr' = First(ferr, "fail")
    /\ UNCHANGED <<front, fend, routineVars, signalVars, cctx, lq, lsent, lend, streamVars>>

ProxyRecorded ==
    /\ proxy = "returned"
    /\ proxy' = "recorded" /\ ferr' = First(ferr, proxyerr) /\ proxyerr' = "none"
    /\ UNCHANGED <<front, reply, fend, crecv, crecverr, cchunk, cdown, cread, creaderr,
                   uchunk, cup, cack, signalVars, cctx, localVars, streamVars>>

(* The handler waited for both goroutines: HTTP serves an error unless it   *)
(* is nil, EOF or a cancellation; then the connection is closed.            *)
HandlerEnds ==
    /\ fend = "wait" /\ reply = "done" /\ proxy = "recorded"
    /\ IF front = "http" /\ ferr = "fail" THEN Answer("unavailable") ELSE UNCHANGED out
    /\ fend' = "closed"
    /\ UNCHANGED <<front, reply, ferr, routineVars, signalVars, cctx, lq, lsent, lend, streamVars>>

----------------------------------------------------------------------------
(* The local client and the front end's context *)

LocalSends ==
    /\ lend = "open" /\ fend = "wait" /\ lsent < MaxUp
    /\ lsent' = lsent + 1 /\ lq' = Append(lq, lsent + 1)
    /\ UNCHANGED <<routineVars, signalVars, cctx, frontVars, lend, out, streamVars>>

LocalEOF ==
    /\ lend = "open" /\ fend = "wait"
    /\ lend' = "eof"
    /\ UNCHANGED <<routineVars, signalVars, cctx, frontVars, lq, lsent, out, streamVars>>

LocalGone ==
    /\ lend # "gone" /\ fend = "wait"
    /\ lend' = "gone"
    /\ UNCHANGED <<routineVars, signalVars, cctx, frontVars, lq, lsent, out, streamVars>>

FrontStops ==
    /\ ~cctx /\ cctx' = TRUE
    /\ UNCHANGED <<routineVars, signalVars, frontVars, localVars, streamVars>>
=============================================================================
