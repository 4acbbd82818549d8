----------------------------- MODULE PacketConn -----------------------------
(***************************************************************************)
(* StreamPacketConn and Client.DialPacket: a net.PacketConn over one gRPC  *)
(* stream of the tunnel.  A goroutine receives for all readers, each write *)
(* sends from a goroutine of its own, and because gRPC knows no deadlines  *)
(* a write that runs out of time cancels the whole stream.                 *)
(***************************************************************************)
EXTENDS RPCStream, PipeDeadline

CONSTANTS
    Readers, Writers, Closers,  \* goroutines that call ReadFrom, WriteTo, Close
    MaxDatagrams,               \* bound: datagrams the server sends
    MaxWrites                   \* bound: datagrams writers send

ASSUME PacketAssumption == MaxDatagrams \in Nat /\ MaxWrites \in Nat

VARIABLES
    dial,      \* DialPacket: "new", "handshake", "conn" (returned), "failed"
    hs,        \* the goroutine that sends the header: "none", "sending", "ok", "err"
    cancelled, \* the context of the stream
    loop,      \* readLoop: "none", "recv", "offer", "ended" (recvCh is closed)
    held,      \* what readLoop has received and offers
    recvCh,    \* the channel to the readers, capacity one
    rd,        \* ReadFrom: "idle", "wait" (holds readMu), "select"
    rch,       \* the read deadline's channel the reader is blocked on, or 0
    wr,        \* WriteTo: "idle", "check" (holds writeMu), "select", "drain"
    wch,       \* the write deadline's channel of the write under way, or 0
    snd,       \* its sending goroutine: "none", "sending", "ok", "err"
    nwrites,   \* datagrams written so far
    cl,        \* Close: "idle", "lock", "closesend", "closed"
    srv,       \* the server's handler: "header", "accept", "session", "end"
    nsent,     \* datagrams the server has sent
    got        \* datagrams readers have returned, in order

dialVars == <<dial, hs>>
loopVars == <<loop, held, recvCh>>
readVars == <<rd, rch, got>>
writeVars == <<wr, wch, snd, nwrites>>
serverVars == <<srv, nsent>>
pvars == <<streamVars, deadlineVars, dialVars, cancelled, loopVars, readVars,
           writeVars, cl, serverVars>>

(* recvMsg with an error: Recv failed. *)
RecvErr == Signal("end")

PTypeOK ==
    /\ StreamTypeOK /\ DeadlineTypeOK
    /\ dial \in {"new", "handshake", "conn", "failed"}
    /\ hs \in {"none", "sending", "ok", "err"}
    /\ cancelled \in BOOLEAN
    /\ loop \in {"none", "recv", "offer", "ended"}
    /\ held \in Message \cup {RecvErr}
    /\ recvCh \in Seq(Message \cup {RecvErr})
    /\ rd \in [Readers -> {"idle", "wait", "select"}]
    /\ rch \in Nat /\ wch \in Nat
    /\ wr \in [Writers -> {"idle", "check", "select", "drain"}]
    /\ snd \in {"none", "sending", "ok", "err"}
    /\ cl \in [Closers -> {"idle", "lock", "closesend", "closed"}]
    /\ srv \in {"header", "accept", "session", "end"}
    /\ nwrites \in Nat /\ nsent \in Nat /\ got \in Seq(Nat)

PInit ==
    /\ StreamInit /\ DeadlineInit
    /\ dial = "new" /\ hs = "none" /\ cancelled = FALSE
    /\ loop = "none" /\ held = RecvErr /\ recvCh = <<>>
    /\ rd = [r \in Readers |-> "idle"] /\ rch = 0 /\ got = <<>>
    /\ wr = [w \in Writers |-> "idle"] /\ wch = 0 /\ snd = "none" /\ nwrites = 0
    /\ cl = [c \in Closers |-> "idle"]
    /\ srv = "header" /\ nsent = 0

readMuFree == \A r \in Readers : rd[r] = "idle"

(* Mutant: CloseSend does not wait for the writer. *)
writeMuFreeAlways == TRUE

writeMuFree ==
    /\ \A w \in Writers : wr[w] = "idle"
    /\ \A c \in Closers : cl[c] # "closesend"

----------------------------------------------------------------------------
(* DialPacket and sendHandshake *)

DialRefused ==
    /\ dial = "new"
    /\ dial' = "failed" /\ cancelled' = TRUE
    /\ UNCHANGED <<streamVars, deadlineVars, hs, loopVars, readVars, writeVars, cl, serverVars>>

DialOpens ==
    /\ dial = "new"
    /\ dial' = "handshake" /\ hs' = "sending"
    /\ stream' = "open"
    /\ UNCHANGED <<c2s, s2c, deadlineVars, cancelled, loopVars, readVars, writeVars, cl, serverVars>>

HeaderSent ==
    /\ hs = "sending"
    /\ \/ ClientSend(Signal("header")) /\ hs' = "ok"
       \/ ClientSendError # {} /\ hs' = "err" /\ UNCHANGED streamVars
    /\ UNCHANGED <<deadlineVars, dial, cancelled, loopVars, readVars, writeVars, cl, serverVars>>

(* The connection is returned, with readLoop started. *)
HandshakeDone ==
    /\ dial = "handshake" /\ hs = "ok"
    /\ dial' = "conn" /\ loop' = "recv"
    /\ UNCHANGED <<streamVars, deadlineVars, hs, cancelled, held, recvCh, readVars, writeVars, cl, serverVars>>

(* The Send failed, or the dial timeout passed first: the stream is given   *)
(* up, and a Send that is still blocked is left to end by itself.           *)
HandshakeFails ==
    /\ dial = "handshake"
    /\ dial' = "failed" /\ cancelled' = TRUE
    /\ UNCHANGED <<streamVars, deadlineVars, hs, loopVars, readVars, writeVars, cl, serverVars>>

(* gRPC ends the stream of a cancelled context. *)
StreamCancelled ==
    /\ cancelled /\ Cancel
    /\ UNCHANGED <<deadlineVars, dialVars, cancelled, loopVars, readVars, writeVars, cl, serverVars>>

----------------------------------------------------------------------------
(* readLoop *)

LoopRecv ==
    /\ loop = "recv"
    /\ \/ ClientRecv /\ held' = Head(s2c)
       \/ ClientRecvError # {} /\ held' = RecvErr /\ UNCHANGED streamVars
    /\ loop' = "offer"
    /\ UNCHANGED <<deadlineVars, dialVars, cancelled, recvCh, readVars, writeVars, cl, serverVars>>

(* Mutant: what a full channel cannot take is dropped. *)
LoopOffersOrDrops ==
    /\ loop = "offer"
    /\ recvCh' = IF recvCh = <<>> THEN <<held>> ELSE recvCh
    /\ held' = RecvErr
    /\ loop' = IF held = RecvErr THEN "ended" ELSE "recv"
    /\ UNCHANGED <<streamVars, deadlineVars, dialVars, cancelled, readVars, writeVars, cl, serverVars>>

LoopOffers ==
    /\ loop = "offer" /\ recvCh = <<>>
    /\ recvCh' = <<held>> /\ held' = RecvErr
    /\ loop' = IF held = RecvErr THEN "ended" ELSE "recv"
    /\ UNCHANGED <<streamVars, deadlineVars, dialVars, cancelled, readVars, writeVars, cl, serverVars>>

LoopCancelled ==
    /\ loop = "offer" /\ cancelled
    /\ loop' = "ended" /\ held' = RecvErr
    /\ UNCHANGED <<streamVars, deadlineVars, dialVars, cancelled, recvCh, readVars, writeVars, cl, serverVars>>

----------------------------------------------------------------------------
(* ReadFrom *)

ReadLocks(r) ==
    /\ dial = "conn" /\ rd[r] = "idle" /\ readMuFree
    /\ rd' = [rd EXCEPT ![r] = "wait"]
    /\ UNCHANGED <<streamVars, deadlineVars, dialVars, cancelled, loopVars, rch, got, writeVars, cl, serverVars>>

(* rdeadline.wait(), once for every turn of the loop. *)
ReadWaits(r) ==
    /\ rd[r] = "wait" /\ Unlocked("read")
    /\ rd' = [rd EXCEPT ![r] = "select"] /\ rch' = ch["read"]
    /\ UNCHANGED <<streamVars, deadlineVars, dialVars, cancelled, loopVars, got, writeVars, cl, serverVars>>

(* The context is done, the deadline has passed, or recvCh is closed.       *)
ReadGivesUp(r) ==
    /\ rd[r] = "select"
    /\ cancelled \/ rch \in shut["read"] \/ (loop = "ended" /\ recvCh = <<>>)
    /\ rd' = [rd EXCEPT ![r] = "idle"] /\ rch' = 0
    /\ UNCHANGED <<streamVars, deadlineVars, dialVars, cancelled, loopVars, got, writeVars, cl, serverVars>>

(* A message: Accepted is skipped, a datagram returned, the rest an error.  *)
ReadTakes(r) ==
    /\ rd[r] = "select" /\ recvCh # <<>>
    /\ recvCh' = <<>> /\ rch' = 0
    /\ LET m == Head(recvCh) IN
       /\ rd' = [rd EXCEPT ![r] = IF m.kind = "accepted" THEN "wait" ELSE "idle"]
       /\ got' = IF m.kind = "payload" THEN Append(got, m.n) ELSE got
    /\ UNCHANGED <<streamVars, deadlineVars, dialVars, cancelled, loop, held, writeVars, cl, serverVars>>

----------------------------------------------------------------------------
(* WriteTo *)

WriteLocks(w) ==
    /\ dial = "conn" /\ wr[w] = "idle" /\ nwrites < MaxWrites /\ writeMuFree
    /\ wr' = [wr EXCEPT ![w] = "check"]
    /\ UNCHANGED <<streamVars, deadlineVars, dialVars, cancelled, loopVars, readVars, wch, snd, nwrites, cl, serverVars>>

(* wdeadline.wait() and the first select, which does not block.             *)
WriteChecks(w) ==
    /\ wr[w] = "check" /\ Unlocked("write")
    /\ IF cancelled \/ isClosedChan("write")
       THEN wr' = [wr EXCEPT ![w] = "idle"] /\ UNCHANGED <<wch, snd, nwrites>>
       ELSE /\ wr' = [wr EXCEPT ![w] = "select"] /\ wch' = ch["write"]
            /\ snd' = "sending" /\ nwrites' = nwrites + 1
    /\ UNCHANGED <<streamVars, deadlineVars, dialVars, cancelled, loopVars, readVars, cl, serverVars>>

WriteSends ==
    /\ snd = "sending"
    /\ \/ ClientSend(Payload(nwrites)) /\ snd' = "ok"
       \/ ClientSendError # {} /\ snd' = "err" /\ UNCHANGED streamVars
    /\ UNCHANGED <<deadlineVars, dialVars, cancelled, loopVars, readVars, wr, wch, nwrites, cl, serverVars>>

(* The Send has ended, and with it the call. *)
WriteReturns(w) ==
    /\ wr[w] \in {"select", "drain"} /\ snd # "sending"
    /\ wr' = [wr EXCEPT ![w] = "idle"] /\ snd' = "none" /\ wch' = 0
    /\ UNCHANGED <<streamVars, deadlineVars, dialVars, cancelled, loopVars, readVars, nwrites, cl, serverVars>>

(* Cancelled by somebody else: the call still waits for its Send. *)
WriteCancelled(w) ==
    /\ wr[w] = "select" /\ cancelled
    /\ wr' = [wr EXCEPT ![w] = "drain"]
    /\ UNCHANGED <<streamVars, deadlineVars, dialVars, cancelled, loopVars, readVars, wch, snd, nwrites, cl, serverVars>>

(* Mutant: a write that is out of time waits for its Send and no more. *)
WriteTimesOutQuietly(w) ==
    /\ wr[w] = "select" /\ wch \in shut["write"]
    /\ wr' = [wr EXCEPT ![w] = "drain"]
    /\ UNCHANGED <<streamVars, deadlineVars, dialVars, cancelled, loopVars, readVars, wch, snd, nwrites, cl, serverVars>>

(* Out of time: the stream is cancelled, which alone ends a blocked Send. *)
WriteTimesOut(w) ==
    /\ wr[w] = "select" /\ wch \in shut["write"]
    /\ cancelled' = TRUE
    /\ wr' = [wr EXCEPT ![w] = "drain"]
    /\ UNCHANGED <<streamVars, deadlineVars, dialVars, loopVars, readVars, wch, snd, nwrites, cl, serverVars>>

----------------------------------------------------------------------------
(* Close *)

(* Mutant: the context is cancelled only after the lock is taken. *)
CloseLocksFirst(c) ==
    /\ dial = "conn" /\ cl[c] = "idle"
    /\ cl' = [cl EXCEPT ![c] = "lock"]
    /\ UNCHANGED <<streamVars, deadlineVars, dialVars, cancelled, loopVars, readVars, writeVars, serverVars>>

CloseCancels(c) ==
    /\ dial = "conn" /\ cl[c] = "idle"
    /\ cancelled' = TRUE
    /\ cl' = [cl EXCEPT ![c] = "lock"]
    /\ UNCHANGED <<streamVars, deadlineVars, dialVars, loopVars, readVars, writeVars, serverVars>>

(* CloseSend, from the moment writeMu is held until it is given back.       *)
CloseSends(c) ==
    /\ \/ cl[c] = "lock" /\ writeMuFree /\ cl' = [cl EXCEPT ![c] = "closesend"]
       \/ cl[c] = "closesend" /\ cl' = [cl EXCEPT ![c] = "closed"]
    /\ UNCHANGED <<streamVars, deadlineVars, dialVars, cancelled, loopVars, readVars, writeVars, serverVars>>

----------------------------------------------------------------------------
(* The server's end: TunnelServer has the details of its handler. *)

ServerTakes ==
    /\ ServerRecv
    /\ srv' = IF srv = "header" THEN "accept" ELSE srv
    /\ UNCHANGED <<deadlineVars, dialVars, cancelled, loopVars, readVars, writeVars, cl, nsent>>

ServerGives ==
    /\ \/ srv = "accept" /\ srv' = "session" /\ nsent' = nsent
          /\ ServerSend(Signal("accepted"))
       \/ srv = "session" /\ nsent < MaxDatagrams
          /\ nsent' = nsent + 1 /\ srv' = srv /\ ServerSend(Payload(nsent + 1))
       \/ srv \in {"accept", "session"} /\ srv' = "end" /\ nsent' = nsent
          /\ ServerSend(Signal("eof"))
    /\ UNCHANGED <<deadlineVars, dialVars, cancelled, loopVars, readVars, writeVars, cl>>

ServerReturns ==
    /\ srv = "end" /\ stream = "open"
    /\ stream' = "finished"
    /\ UNCHANGED <<c2s, s2c, deadlineVars, dialVars, cancelled, loopVars, readVars, writeVars, cl, serverVars>>

TransportBreaks ==
    /\ Break
    /\ UNCHANGED <<deadlineVars, dialVars, cancelled, loopVars, readVars, writeVars, cl, serverVars>>

DeadlineStep ==
    /\ DeadlineNext
    /\ UNCHANGED <<streamVars, dialVars, cancelled, loopVars, readVars, writeVars, cl, serverVars>>

Dialling == DialRefused \/ DialOpens \/ HeaderSent \/ HandshakeDone \/ HandshakeFails
Looping == LoopRecv \/ LoopOffers \/ LoopCancelled
Reading(r) == ReadWaits(r) \/ ReadGivesUp(r) \/ ReadTakes(r)
Writing(w) == WriteChecks(w) \/ WriteReturns(w) \/ WriteCancelled(w) \/ WriteTimesOut(w)

PNext ==
    \/ Dialling \/ StreamCancelled \/ Looping \/ WriteSends
    \/ \E r \in Readers : ReadLocks(r) \/ Reading(r)
    \/ \E w \in Writers : WriteLocks(w) \/ Writing(w)
    \/ \E c \in Closers : CloseCancels(c) \/ CloseSends(c)
    \/ ServerTakes \/ ServerGives \/ ServerReturns \/ TransportBreaks
    \/ DeadlineStep

PSpec == PInit /\ [][PNext]_pvars

(* Goroutines that can run do, gRPC ends what is cancelled, and timers fire; *)
(* a sync.Mutex is not kept for ever from one that waits for it.  Nothing is *)
(* assumed of the peer, and nobody has to make a call.                      *)
FairPSpec ==
    /\ PSpec /\ DeadlineFairness
    /\ WF_pvars(Dialling) /\ WF_pvars(StreamCancelled) /\ WF_pvars(Looping)
    /\ WF_pvars(WriteSends)
    /\ \A r \in Readers : WF_pvars(Reading(r))
    /\ \A w \in Writers : WF_pvars(Writing(w))
    /\ \A c \in Closers : SF_pvars(CloseSends(c))

----------------------------------------------------------------------------
(* Send and CloseSend never overlap on the stream, which gRPC forbids: not  *)
(* two writers, and not Close with a Send that outlives its WriteTo.        *)
SendExclusive ==
    /\ snd = "sending" => \E w \in Writers : wr[w] \in {"select", "drain"}
    /\ snd # "none" => \A c \in Closers : cl[c] # "closesend"
    /\ \A v, w \in Writers : wr[v] # "idle" /\ wr[w] # "idle" => v = w
    /\ \A b, c \in Closers : cl[b] = "closesend" /\ cl[c] = "closesend" => b = c

(* A deadline change reaches the calls that are already blocked: the        *)
(* channel they hold is the one the next expiry closes, or closed already.  *)
BlockedSeesDeadline ==
    /\ \A r \in Readers : rd[r] = "select" => rch = ch["read"] \/ rch \in shut["read"]
    /\ \A w \in Writers : wr[w] = "select" => wch = ch["write"] \/ wch \in shut["write"]

(* A deadline counts as passed only if the one last set has passed, and no  *)
(* callback is left to close a channel twice, which would panic.            *)
ExpiryIsReal ==
    \A d \in Sides : /\ isClosedChan(d) => due[d] = "past"
                     /\ firing[d] > 0 => ~isClosedChan(d) /\ firing[d] = 1

(* The datagrams of the messages ms, by number: the i-th is the chunk that  *)
(* is the i-th of them.                                                      *)
Datagrams(ms) ==
    [i \in 1..Chunks(ms, Len(ms)) |->
        ms[CHOOSE j \in 1..Len(ms) : ms[j].kind = "payload" /\ Chunks(ms, j) = i].n]

(* What readers can still be given: in the channel, in readLoop's hand, on  *)
(* the stream.                                                              *)
Coming ==
    recvCh \o (IF loop = "offer" THEN <<held>> ELSE <<>>)
           \o (IF loop = "ended" THEN <<>> ELSE s2c)

OnTheWay == Datagrams(Coming)

Pipe == INSTANCE PacketPipe
            WITH way <- OnTheWay, open <- ~cancelled /\ stream # "broken"

(* The stream, readLoop and the channel together are one pipe: datagrams    *)
(* are returned in order and without gaps, and lost only after a shutdown.  *)
ImplementsPacketPipe == Pipe!PipeSpec

(* A call that is blocked when its deadline passes ends: ReadFrom leaves    *)
(* its select and WriteTo returns, its blocked Send cancelled.              *)
DeadlineEndsCalls ==
    /\ \A r \in Readers : due["read"] = "past" /\ rd[r] = "select" ~> rd[r] # "select"
    /\ \A w \in Writers : due["write"] = "past" /\ wr[w] = "select" ~> wr[w] = "idle"

(* Close returns although a Send is blocked, and takes readLoop, the reader *)
(* and the writer with it.                                                   *)
CloseEndsCalls ==
    \A c \in Closers :
        cl[c] = "lock" ~> /\ cl[c] = "closed" /\ loop = "ended" /\ snd = "none"
=============================================================================
