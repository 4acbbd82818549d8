------------------------------ MODULE UDPRelay ------------------------------
(* The SOCKS5 UDP ASSOCIATE relay: internal/socks/udp.go and handleAssociate of
   internal/socks/request.go.  Several associations ("relays") run at once and
   share the two process-wide limiters.  Each relay has

     - its handler goroutine (handler), which opens it and tears it down,
     - its Run goroutine (run), which reads the client-facing socket into jobs,
     - a pool of Workers (wpc), which look up or create the flow of a datagram,
     - the one execution of Close that sync.Once admits (closer),
     - one reverse-relay goroutine per flow (rev).

   A flow (a natEntry) is a member of Entries.  An entry is named when its limiter
   token is acquired, so state[e] is exactly "dialing" or "open" while the
   token is held.  An entry id that nothing refers to any more is garbage and is
   reused, and so is the id of a finished relay.

   Time is relative: age[e] is the time since lastSeen and left[e] the time until
   the read deadline, both saturating, so time itself is unbounded.           *)
EXTENDS UDPLimiter, Sequences, FiniteSets

CONSTANTS
    Relays,                 \* association objects
    Workers,                \* the worker pool of a relay (udpWorkerCount)
    Keys,                   \* natKey: client source address and target
    Entries,                \* bound: entries referred to at the same time
    Rejected,               \* datagrams handlePacket drops before it looks for a flow
    NoEntry, NoWorker,      \* nil entry, no singleflight call under way
    JobQueueSize,           \* udpJobQueueSize
    MaxAssociations, MaxAssociationsPerClient,
    MaxNATEntries,          \* per association
    MaxNATEntriesGlobal, MaxNATEntriesPerClient,
    IdleTimeout             \* udpIdleTimeout, in ticks

ASSUME EntryIds == /\ IsFiniteSet(Entries) /\ NoEntry \notin Entries
                   /\ IsFiniteSet(Relays)
ASSUME WorkerIds == NoWorker \notin Workers /\ IsFiniteSet(Workers)
ASSUME Datagrams == Rejected \cap Keys = {}
ASSUME Limits == /\ JobQueueSize \in Nat \ {0}
                 /\ MaxAssociations \in Nat \ {0}
                 /\ MaxAssociationsPerClient \in Nat \ {0}
                 /\ MaxNATEntries \in Nat \ {0}
                 /\ MaxNATEntriesGlobal \in Nat \ {0}
                 /\ MaxNATEntriesPerClient \in Nat \ {0}
                 /\ IdleTimeout \in Nat \ {0}

VARIABLES
    client,    \* relay -> clientKey
    handler,   \* relay -> where handleAssociate is
    closer,    \* relay -> how far Close has come; "open" before, "closed" after
    drained,   \* relay -> entries Drain returned that Close has yet to close
    run,       \* relay -> where Run is
    jobs,      \* relay -> the datagrams queued for the workers
    wpc,       \* relay -> worker -> where it is in handlePacket
    wkey,      \* relay -> worker -> the flow key of its datagram
    went,      \* relay -> worker -> the entry it works on
    victim,    \* relay -> worker -> the entry its Install evicted
    flight,    \* relay -> key -> leader of the singleflight call, or NoWorker
    table,     \* relay -> key -> installed entry, or NoEntry
    state,     \* entry -> "dialing", "open" or "closed"
    owner,     \* entry -> the relay that created it
    key,       \* entry -> its flow key
    payer,     \* entry -> the clientKey its token was acquired for
    rev,       \* entry -> where its reverse relay is; "none" when not running
    age,       \* entry -> time since lastSeen, up to IdleTimeout
    left,      \* entry -> time until the read deadline
    assoc,     \* udpAssociationLimiter
    nat        \* udpNATLimiter

handlerVars == <<client, handler, closer, drained, assoc>>
poolVars    == <<run, jobs>>
workerVars  == <<wpc, wkey, went, victim, flight>>
idVars      == <<owner, key, payer>>
entryVars   == <<state, idVars, rev, age, left, nat>>
vars == <<handlerVars, poolVars, workerVars, table, entryVars>>

Done(r)         == closer[r] # "open"                   \* done is closed
SocketClosed(r) == closer[r] \in {"socket", "draining", "closed"}
Referenced(e)   == \/ rev[e] # "none"
                   \/ \E r \in Relays : e \in drained[r]
                   \/ \E r \in Relays, k \in Keys : table[r][k] = e
                   \/ \E r \in Relays, w \in Workers : e \in {went[r][w], victim[r][w]}
FreeEntries     == {e \in Entries : state[e] = "closed" /\ ~Referenced(e)}
Held            == {e \in Entries : state[e] # "closed"}  \* tokens handed out
Installed(r)    == {k \in Keys : table[r][k] # NoEntry}

----------------------------------------------------------------------------
\* natEntry.Close: closeOnce closes the socket and the route and returns the
\* token.  Later calls, and calls that find it under way, change nothing.
CloseEntry(e) ==
    /\ state' = [state EXCEPT ![e] = "closed"]
    /\ nat' = IF state[e] = "open" THEN Released(nat, payer[e]) ELSE nat

\* natTable.DeleteIf
DeleteIf(r, k, e) ==
    table' = IF table[r][k] = e THEN [table EXCEPT ![r][k] = NoEntry] ELSE table

----------------------------------------------------------------------------
(* handleAssociate and NewUDPRelay.  A refusal (UDP disabled, no UDP route,
   ErrUDPAssociationLimit) leaves no state behind and is not a step here.      *)
Associate(r, c) ==
    /\ handler[r] = "gone"
    /\ \A e \in Entries : owner[e] = r => rev[e] = "none"      \* r is garbage
    /\ MayAcquire(assoc, c, MaxAssociations, MaxAssociationsPerClient)
    /\ assoc' = Acquired(assoc, c)
    /\ client' = [client EXCEPT ![r] = c]
    /\ handler' = [handler EXCEPT ![r] = "listen"]
    /\ closer' = [closer EXCEPT ![r] = "open"]
    /\ UNCHANGED <<drained, poolVars, workerVars, table, entryVars>>

\* Mutant of ListenFails: the error path keeps the association's token.
ListenFailsLeaks(r) ==
    /\ handler[r] = "listen"
    /\ handler' = [handler EXCEPT ![r] = "gone"]
    /\ closer' = [closer EXCEPT ![r] = "closed"]
    /\ UNCHANGED <<client, drained, assoc, poolVars, workerVars, table, entryVars>>

ListenFails(r) ==
    /\ handler[r] = "listen"
    /\ assoc' = Released(assoc, client[r])
    /\ handler' = [handler EXCEPT ![r] = "gone"]
    /\ closer' = [closer EXCEPT ![r] = "closed"]
    /\ UNCHANGED <<client, drained, poolVars, workerVars, table, entryVars>>

Listen(r) ==
    /\ handler[r] = "listen"
    /\ handler' = [handler EXCEPT ![r] = "reply"]
    /\ UNCHANGED <<client, closer, drained, assoc, poolVars, workerVars, table, entryVars>>

\* The success reply cannot be sent, or the bound address is unusable.
ReplyFails(r) ==
    /\ handler[r] = "reply"
    /\ handler' = [handler EXCEPT ![r] = "abort"]
    /\ UNCHANGED <<client, closer, drained, assoc, poolVars, workerVars, table, entryVars>>

\* The reply is sent; Run starts the reader and the worker pool.
Reply(r) ==
    /\ handler[r] = "reply"
    /\ handler' = [handler EXCEPT ![r] = "serve"]
    /\ run' = [run EXCEPT ![r] = "reading"]
    /\ wpc' = [wpc EXCEPT ![r] = [w \in Workers |-> "idle"]]
    /\ UNCHANGED <<client, closer, drained, assoc, jobs, wkey, went, victim, flight, table, entryVars>>

\* The TCP control connection closed, or the server's context ended.
ControlClosed(r) ==
    /\ handler[r] = "serve"
    /\ handler' = [handler EXCEPT ![r] = "teardown"]
    /\ UNCHANGED <<client, closer, drained, assoc, poolVars, workerVars, table, entryVars>>

\* handleAssociate returns: its Close is over and Run, if started, has returned.
HandlerReturns(r) ==
    /\ \/ handler[r] = "abort" /\ closer[r] = "closed"
       \/ handler[r] = "teardown" /\ closer[r] = "closed" /\ run[r] = "returned"
       \/ handler[r] = "serve" /\ run[r] = "returned"
    /\ handler' = [handler EXCEPT ![r] = "gone"]
    /\ UNCHANGED <<client, closer, drained, assoc, poolVars, workerVars, table, entryVars>>

----------------------------------------------------------------------------
(* UDPRelay.Close, called by the handler and by Run's defer; once.Do runs it
   once and makes the other caller wait for its end.                          *)
CloseDone(r) ==
    /\ closer[r] = "open"
    /\ handler[r] \in {"abort", "teardown"} \/ run[r] = "closing"
    /\ closer' = [closer EXCEPT ![r] = "done"]
    /\ UNCHANGED <<client, handler, drained, assoc, poolVars, workerVars, table, entryVars>>

\* Mutant of CloseSocket: Close waits for the reader before it closes the socket
\* the reader is blocked on.
CloseSocketAfterReader(r) ==
    /\ closer[r] = "done"
    /\ run[r] # "reading"
    /\ closer' = [closer EXCEPT ![r] = "socket"]
    /\ UNCHANGED <<client, handler, drained, assoc, poolVars, workerVars, table, entryVars>>

CloseSocket(r) ==
    /\ closer[r] = "done"
    /\ closer' = [closer EXCEPT ![r] = "socket"]
    /\ UNCHANGED <<client, handler, drained, assoc, poolVars, workerVars, table, entryVars>>

Drain(r) ==
    /\ closer[r] = "socket"
    /\ closer' = [closer EXCEPT ![r] = "draining"]
    /\ drained' = [drained EXCEPT ![r] = {table[r][k] : k \in Installed(r)}]
    /\ table' = [table EXCEPT ![r] = [k \in Keys |-> NoEntry]]
    /\ UNCHANGED <<client, handler, assoc, poolVars, workerVars, entryVars>>

\* Mutant of CloseDrained: Drain's entries are dropped without being closed.
ForgetDrained(r, e) ==
    /\ closer[r] = "draining"
    /\ e \in drained[r]
    /\ drained' = [drained EXCEPT ![r] = @ \ {e}]
    /\ UNCHANGED <<client, handler, closer, assoc, poolVars, workerVars, table, entryVars>>

CloseDrained(r, e) ==
    /\ closer[r] = "draining"
    /\ e \in drained[r]
    /\ drained' = [drained EXCEPT ![r] = @ \ {e}]
    /\ CloseEntry(e)
    /\ UNCHANGED <<client, handler, closer, assoc, poolVars, workerVars, table, idVars, rev, age, left>>

ReleaseAssociation(r) ==
    /\ closer[r] = "draining"
    /\ drained[r] = {}
    /\ closer' = [closer EXCEPT ![r] = "closed"]
    /\ assoc' = Released(assoc, client[r])
    /\ UNCHANGED <<client, handler, drained, poolVars, workerVars, table, entryVars>>

----------------------------------------------------------------------------
\* readLoop: a datagram is queued; with the queue full it is dropped (no step).
ReadDatagram(r, d) ==
    /\ run[r] = "reading"
    /\ ~SocketClosed(r)
    /\ Len(jobs[r]) < JobQueueSize
    /\ jobs' = [jobs EXCEPT ![r] = Append(@, d)]
    /\ UNCHANGED <<handlerVars, run, workerVars, table, entryVars>>

\* readLoop ends, on net.ErrClosed after Close or on a read error of its own,
\* and Run closes jobs.
ReaderStops(r) ==
    /\ run[r] = "reading"
    /\ run' = [run EXCEPT ![r] = "joining"]
    /\ UNCHANGED <<handlerVars, jobs, workerVars, table, entryVars>>

\* Mutant of WorkersJoined: Run does not wait for its workers.
WorkersNotJoined(r) ==
    /\ run[r] = "joining"
    /\ run' = [run EXCEPT ![r] = "closing"]
    /\ UNCHANGED <<handlerVars, jobs, workerVars, table, entryVars>>

\* workers.Wait, then the deferred Close.
WorkersJoined(r) ==
    /\ run[r] = "joining"
    /\ \A w \in Workers : wpc[r][w] = "exited"
    /\ run' = [run EXCEPT ![r] = "closing"]
    /\ UNCHANGED <<handlerVars, jobs, workerVars, table, entryVars>>

RunReturns(r) ==
    /\ run[r] = "closing"
    /\ closer[r] = "closed"
    /\ run' = [run EXCEPT ![r] = "returned"]
    /\ UNCHANGED <<handlerVars, jobs, workerVars, table, entryVars>>

----------------------------------------------------------------------------
(* handlePacket and getOrCreateNAT, one worker.                               *)
WorkerPCs == {"exited", "idle", "check", "load", "join", "wait", "recheck",
              "acquire", "dial", "install", "evict", "redone", "undo", "write", "touch"}

Goto(r, w, pc) == wpc' = [wpc EXCEPT ![r][w] = pc]

\* The checks on source address, header and FRAG drop a bad datagram.
Take(r, w) ==
    /\ wpc[r][w] = "idle"
    /\ jobs[r] # <<>>
    /\ jobs' = [jobs EXCEPT ![r] = Tail(@)]
    /\ IF Head(jobs[r]) \in Rejected
       THEN UNCHANGED <<wpc, wkey>>
       ELSE Goto(r, w, "check") /\ wkey' = [wkey EXCEPT ![r][w] = Head(jobs[r])]
    /\ UNCHANGED <<handlerVars, run, went, victim, flight, table, entryVars>>

WorkerExits(r, w) ==
    /\ wpc[r][w] = "idle"
    /\ jobs[r] = <<>>
    /\ run[r] = "joining"
    /\ Goto(r, w, "exited")
    /\ UNCHANGED <<handlerVars, poolVars, wkey, went, victim, flight, table, entryVars>>

CheckDone(r, w) ==
    /\ wpc[r][w] = "check"
    /\ Goto(r, w, IF Done(r) THEN "idle" ELSE "load")
    /\ UNCHANGED <<handlerVars, poolVars, wkey, went, victim, flight, table, entryVars>>

\* Mutant of Load: the lookup ignores part of the key.
LoadAnyFlow(r, w) ==
    \E e \in {table[r][k] : k \in Keys} :
        /\ wpc[r][w] = "load"
        /\ went' = [went EXCEPT ![r][w] = e]
        /\ Goto(r, w, IF e = NoEntry THEN "join" ELSE "write")
        /\ UNCHANGED <<handlerVars, poolVars, wkey, victim, flight, table, entryVars>>

Load(r, w) ==
    LET e == table[r][wkey[r][w]] IN
    /\ wpc[r][w] = "load"
    /\ went' = [went EXCEPT ![r][w] = e]
    /\ Goto(r, w, IF e = NoEntry THEN "join" ELSE "write")
    /\ UNCHANGED <<handlerVars, poolVars, wkey, victim, flight, table, entryVars>>

\* singleflight.Do: the first caller of a key leads, the others wait for it.
Join(r, w) ==
    LET k == wkey[r][w] IN
    /\ wpc[r][w] = "join"
    /\ IF flight[r][k] = NoWorker
       THEN Goto(r, w, "recheck") /\ flight' = [flight EXCEPT ![r][k] = w]
       ELSE Goto(r, w, "wait") /\ UNCHANGED flight
    /\ UNCHANGED <<handlerVars, poolVars, wkey, went, victim, table, entryVars>>

\* Mutant of Answered: only the leader learns the result.
AnsweredLeaderOnly(r, w) == {w}

\* The callers a singleflight call answers: its leader and those waiting on k.
Answered(r, w) ==
    {v \in Workers : v = w \/ (wpc[r][v] = "wait" /\ wkey[r][v] = wkey[r][w])}

\* The leader's function returns e, or an error (NoEntry): singleflight forgets
\* the key and hands the result to everyone waiting, under one lock.
Finish(r, w, e) ==
    /\ flight' = [flight EXCEPT ![r][wkey[r][w]] = NoWorker]
    /\ wpc' = [wpc EXCEPT ![r] = [v \in Workers |->
                 IF v \in Answered(r, w)
                 THEN IF e = NoEntry THEN "idle" ELSE "write"
                 ELSE wpc[r][v]]]
    /\ went' = [went EXCEPT ![r] = [v \in Workers |->
                 IF v \in Answered(r, w) THEN e ELSE went[r][v]]]

\* Mutant of Recheck: the leader does not look at the table a second time.
RecheckSkipped(r, w) ==
    /\ wpc[r][w] = "recheck"
    /\ Goto(r, w, "acquire")
    /\ UNCHANGED <<handlerVars, poolVars, wkey, went, victim, flight, table, entryVars>>

Recheck(r, w) ==
    LET e == table[r][wkey[r][w]] IN
    /\ wpc[r][w] = "recheck"
    /\ IF e = NoEntry
       THEN Goto(r, w, "acquire") /\ UNCHANGED <<went, flight>>
       ELSE Finish(r, w, e)
    /\ UNCHANGED <<handlerVars, poolVars, wkey, victim, table, entryVars>>

\* getRoute fails, the egress cannot dial packets, or the NAT limiter refuses.
Refused(r, w) ==
    /\ wpc[r][w] = "acquire"
    /\ Finish(r, w, NoEntry)
    /\ UNCHANGED <<handlerVars, poolVars, wkey, victim, table, entryVars>>

AcquireToken(r, w) ==
    /\ wpc[r][w] = "acquire"
    /\ MayAcquire(nat, client[r], MaxNATEntriesGlobal, MaxNATEntriesPerClient)
    /\ nat' = Acquired(nat, client[r])
    /\ \E e \in FreeEntries :
         /\ state' = [state EXCEPT ![e] = "dialing"]
         /\ owner' = [owner EXCEPT ![e] = r]
         /\ key' = [key EXCEPT ![e] = wkey[r][w]]
         /\ payer' = [payer EXCEPT ![e] = client[r]]
         /\ went' = [went EXCEPT ![r][w] = e]
    /\ Goto(r, w, "dial")
    /\ UNCHANGED <<handlerVars, poolVars, wkey, victim, flight, table, rev, age, left>>

\* Mutant of DialFails: a failed dial keeps its token.
DialFailsLeaks(r, w) ==
    /\ wpc[r][w] = "dial"
    /\ state' = [state EXCEPT ![went[r][w]] = "closed"]
    /\ Finish(r, w, NoEntry)
    /\ UNCHANGED <<handlerVars, poolVars, wkey, victim, table, idVars, rev, age, left, nat>>

DialFails(r, w) ==
    /\ wpc[r][w] = "dial"
    /\ state' = [state EXCEPT ![went[r][w]] = "closed"]
    /\ nat' = Released(nat, client[r])
    /\ Finish(r, w, NoEntry)
    /\ UNCHANGED <<handlerVars, poolVars, wkey, victim, table, idVars, rev, age, left>>

DialSucceeds(r, w) ==
    /\ wpc[r][w] = "dial"
    /\ state' = [state EXCEPT ![went[r][w]] = "open"]
    /\ age' = [age EXCEPT ![went[r][w]] = 0]
    /\ Goto(r, w, "install")
    /\ UNCHANGED <<handlerVars, poolVars, wkey, went, victim, flight, table, idVars, rev, left, nat>>

Full(r) == Cardinality(Installed(r)) >= MaxNATEntries

\* natTable.Install at its limit evicts an installed entry seen least recently.
LeastRecentlySeen(r) ==
    {k \in Installed(r) : \A l \in Installed(r) : age[table[r][k]] >= age[table[r][l]]}

\* Mutant of Install: the table is allowed one entry too many.
InstallOneMore(r, w) ==
    LET k == wkey[r][w]
        e == went[r][w]
    IN  /\ wpc[r][w] = "install"
        /\ table[r][k] = NoEntry
        /\ \/ /\ Cardinality(Installed(r)) <= MaxNATEntries
              /\ table' = [table EXCEPT ![r][k] = e]
              /\ Goto(r, w, "redone")
              /\ UNCHANGED victim
           \/ /\ Cardinality(Installed(r)) > MaxNATEntries
              /\ \E old \in LeastRecentlySeen(r) :
                   /\ table' = [table EXCEPT ![r] = [@ EXCEPT ![old] = NoEntry, ![k] = e]]
                   /\ victim' = [victim EXCEPT ![r][w] = table[r][old]]
              /\ Goto(r, w, "evict")
        /\ UNCHANGED <<handlerVars, poolVars, wkey, went, flight, entryVars>>

Install(r, w) ==
    LET k == wkey[r][w]
        e == went[r][w]
    IN  /\ wpc[r][w] = "install"
        /\ \/ /\ table[r][k] # NoEntry                 \* somebody installed k
              /\ CloseEntry(e)
              /\ Finish(r, w, table[r][k])
              /\ UNCHANGED <<victim, table>>
           \/ /\ table[r][k] = NoEntry
              /\ ~Full(r)
              /\ table' = [table EXCEPT ![r][k] = e]
              /\ Goto(r, w, "redone")
              /\ UNCHANGED <<went, victim, flight, state, nat>>
           \/ /\ table[r][k] = NoEntry
              /\ Full(r)
              /\ \E old \in LeastRecentlySeen(r) :
                   /\ table' = [table EXCEPT ![r] = [@ EXCEPT ![old] = NoEntry, ![k] = e]]
                   /\ victim' = [victim EXCEPT ![r][w] = table[r][old]]
              /\ Goto(r, w, "evict")
              /\ UNCHANGED <<went, flight, state, nat>>
        /\ UNCHANGED <<handlerVars, poolVars, wkey, idVars, rev, age, left>>

CloseVictim(r, w) ==
    /\ wpc[r][w] = "evict"
    /\ CloseEntry(victim[r][w])
    /\ victim' = [victim EXCEPT ![r][w] = NoEntry]
    /\ Goto(r, w, "redone")
    /\ UNCHANGED <<handlerVars, poolVars, wkey, went, flight, table, idVars, rev, age, left>>

\* Mutant of RecheckDone: done is not looked at again.
StartReverse(r, w) ==
    LET e == went[r][w] IN
    /\ wpc[r][w] = "redone"
    /\ rev' = [rev EXCEPT ![e] = "read"]
    /\ left' = [left EXCEPT ![e] = IdleTimeout]
    /\ Finish(r, w, e)
    /\ UNCHANGED <<handlerVars, poolVars, wkey, victim, table, state, idVars, age, nat>>

\* done is looked at again after Install: if it is closed by now, Drain may have
\* missed the entry, so it is taken back.  Otherwise its reverse relay starts.
RecheckDone(r, w) ==
    LET e == went[r][w] IN
    /\ wpc[r][w] = "redone"
    /\ IF Done(r)
       THEN /\ DeleteIf(r, wkey[r][w], e)
            /\ Goto(r, w, "undo")
            /\ UNCHANGED <<went, flight, rev, left>>
       ELSE /\ rev' = [rev EXCEPT ![e] = "read"]
            /\ left' = [left EXCEPT ![e] = IdleTimeout]
            /\ Finish(r, w, e)
            /\ UNCHANGED table
    /\ UNCHANGED <<handlerVars, poolVars, wkey, victim, state, idVars, age, nat>>

Undo(r, w) ==
    /\ wpc[r][w] = "undo"
    /\ CloseEntry(went[r][w])
    /\ Finish(r, w, NoEntry)
    /\ UNCHANGED <<handlerVars, poolVars, wkey, victim, table, idVars, rev, age, left>>

\* entry.conn.WriteTo, which fails on a closed socket and may fail otherwise.
Write(r, w) ==
    /\ wpc[r][w] = "write"
    /\ \/ /\ state[went[r][w]] = "open"
          /\ Goto(r, w, "touch")
          /\ UNCHANGED went
       \/ /\ Goto(r, w, "idle")
          /\ went' = [went EXCEPT ![r][w] = NoEntry]
    /\ UNCHANGED <<handlerVars, poolVars, wkey, victim, flight, table, entryVars>>

Touch(r, w) ==
    /\ wpc[r][w] = "touch"
    /\ age' = [age EXCEPT ![went[r][w]] = 0]
    /\ Goto(r, w, "idle")
    /\ went' = [went EXCEPT ![r][w] = NoEntry]
    /\ UNCHANGED <<handlerVars, poolVars, wkey, victim, flight, table, state, idVars, rev, left, nat>>

----------------------------------------------------------------------------
(* reverseRelay of one entry.                                                 *)
Current(e) == table[owner[e]][key[e]] = e

\* Before the read deadline a datagram is read from the target and written to
\* the client; only an entry still in the table is touched; a closed client
\* socket ends the loop.
Receive(e) ==
    /\ rev[e] = "read"
    /\ state[e] = "open"
    /\ left[e] > 0
    /\ age' = IF Current(e) THEN [age EXCEPT ![e] = 0] ELSE age
    /\ IF SocketClosed(owner[e])
       THEN rev' = [rev EXCEPT ![e] = "close"] /\ UNCHANGED left
       ELSE left' = [left EXCEPT ![e] = IdleTimeout] /\ UNCHANGED rev
    /\ UNCHANGED <<handlerVars, poolVars, workerVars, table, state, idVars, nat>>

\* A datagram is read and dropped: unexpected source, or no header fits it.
Discard(e) ==
    /\ rev[e] = "read"
    /\ state[e] = "open"
    /\ left[e] > 0
    /\ left' = [left EXCEPT ![e] = IdleTimeout]
    /\ UNCHANGED <<handlerVars, poolVars, workerVars, table, state, idVars, rev, age, nat>>

\* ReadFrom fails: the socket was closed under it, or an error of its own.
ReadError(e) ==
    /\ rev[e] = "read"
    /\ rev' = [rev EXCEPT ![e] = "close"]
    /\ UNCHANGED <<handlerVars, poolVars, workerVars, table, state, idVars, age, left, nat>>

\* Mutant of ReadTimeout: every timeout keeps the flow alive.
ReadTimeoutIgnored(e) ==
    /\ rev[e] = "read"
    /\ left[e] = 0
    /\ left' = [left EXCEPT ![e] = IdleTimeout]
    /\ UNCHANGED <<handlerVars, poolVars, workerVars, table, state, idVars, rev, age, nat>>

\* The read deadline passes.
ReadTimeout(e) ==
    /\ rev[e] = "read"
    /\ left[e] = 0
    /\ IF ~Done(owner[e]) /\ Current(e) /\ age[e] < IdleTimeout
       THEN left' = [left EXCEPT ![e] = IdleTimeout] /\ UNCHANGED rev
       ELSE rev' = [rev EXCEPT ![e] = "close"] /\ UNCHANGED left
    /\ UNCHANGED <<handlerVars, poolVars, workerVars, table, state, idVars, age, nat>>

ReverseCloses(e) ==
    /\ rev[e] = "close"
    /\ CloseEntry(e)
    /\ rev' = [rev EXCEPT ![e] = "delete"]
    /\ UNCHANGED <<handlerVars, poolVars, workerVars, table, idVars, age, left>>

\* Mutant of ReverseDeletes: the table keeps the closed entry.
ReverseKeepsEntry(e) ==
    /\ rev[e] = "delete"
    /\ rev' = [rev EXCEPT ![e] = "none"]
    /\ UNCHANGED <<handlerVars, poolVars, workerVars, table, state, idVars, age, left, nat>>

ReverseDeletes(e) ==
    /\ rev[e] = "delete"
    /\ DeleteIf(owner[e], key[e], e)
    /\ rev' = [rev EXCEPT ![e] = "none"]
    /\ UNCHANGED <<handlerVars, poolVars, workerVars, state, idVars, age, left, nat>>

----------------------------------------------------------------------------
\* Time passes for the entries somebody can still look at.
Tick ==
    LET Aging   == {e \in Entries : Referenced(e) /\ age[e] < IdleTimeout}
        Waiting == {e \in Entries : rev[e] = "read" /\ left[e] > 0}
    IN  /\ Aging \cup Waiting # {}
        /\ age'  = [e \in Entries |-> IF e \in Aging THEN age[e] + 1 ELSE age[e]]
        /\ left' = [e \in Entries |-> IF e \in Waiting THEN left[e] - 1 ELSE left[e]]
        /\ UNCHANGED <<handlerVars, poolVars, workerVars, table, state, idVars, rev, nat>>

Init ==
    /\ \E c \in Clients : client = [r \in Relays |-> c] /\ payer = [e \in Entries |-> c]
    /\ handler = [r \in Relays |-> "gone"]
    /\ closer = [r \in Relays |-> "closed"]
    /\ drained = [r \in Relays |-> {}]
    /\ run = [r \in Relays |-> "returned"]
    /\ jobs = [r \in Relays |-> <<>>]
    /\ wpc = [r \in Relays |-> [w \in Workers |-> "exited"]]
    /\ \E k \in Keys : /\ wkey = [r \in Relays |-> [w \in Workers |-> k]]
                       /\ key = [e \in Entries |-> k]
    /\ went = [r \in Relays |-> [w \in Workers |-> NoEntry]]
    /\ victim = [r \in Relays |-> [w \in Workers |-> NoEntry]]
    /\ flight = [r \in Relays |-> [k \in Keys |-> NoWorker]]
    /\ table = [r \in Relays |-> [k \in Keys |-> NoEntry]]
    /\ state = [e \in Entries |-> "closed"]
    /\ \E r \in Relays : owner = [e \in Entries |-> r]
    /\ rev = [e \in Entries |-> "none"]
    /\ age = [e \in Entries |-> 0]
    /\ left = [e \in Entries |-> 0]
    /\ assoc = NewLimiter
    /\ nat = NewLimiter

RelayStep(r) ==
    \/ \E c \in Clients : Associate(r, c)
    \/ ListenFails(r) \/ Listen(r) \/ ReplyFails(r) \/ Reply(r)
    \/ ControlClosed(r) \/ HandlerReturns(r)
    \/ CloseDone(r) \/ CloseSocket(r) \/ Drain(r)
    \/ \E e \in Entries : CloseDrained(r, e)
    \/ ReleaseAssociation(r)
    \/ \E d \in Keys \cup Rejected : ReadDatagram(r, d)
    \/ ReaderStops(r) \/ WorkersJoined(r) \/ RunReturns(r)

WorkerStep(r, w) ==
    \/ Take(r, w) \/ WorkerExits(r, w) \/ CheckDone(r, w) \/ Load(r, w)
    \/ Join(r, w) \/ Recheck(r, w) \/ Refused(r, w) \/ AcquireToken(r, w)
    \/ DialFails(r, w) \/ DialSucceeds(r, w) \/ Install(r, w)
    \/ CloseVictim(r, w) \/ RecheckDone(r, w) \/ Undo(r, w)
    \/ Write(r, w) \/ Touch(r, w)

ReverseStep(e) ==
    \/ Receive(e) \/ Discard(e) \/ ReadError(e) \/ ReadTimeout(e)
    \/ ReverseCloses(e) \/ ReverseDeletes(e)

Next ==
    \/ \E r \in Relays : RelayStep(r)
    \/ \E r \in Relays, w \in Workers : WorkerStep(r, w)
    \/ \E e \in Entries : ReverseStep(e)
    \/ Tick

Spec == Init /\ [][Next]_vars

\* Every goroutine that can move does; the clock runs; a read on a closed socket
\* returns.  Nothing makes clients, targets or the network act.
Fairness ==
    /\ \A r \in Relays :
         /\ WF_vars(Listen(r) \/ ListenFails(r))
         /\ WF_vars(Reply(r) \/ ReplyFails(r))
         /\ WF_vars(HandlerReturns(r))
         /\ WF_vars(CloseDone(r) \/ CloseSocket(r) \/ Drain(r) \/ ReleaseAssociation(r)
                    \/ \E e \in Entries : CloseDrained(r, e))
         /\ WF_vars(SocketClosed(r) /\ ReaderStops(r))
         /\ WF_vars(WorkersJoined(r) \/ RunReturns(r))
         /\ \A w \in Workers : WF_vars(WorkerStep(r, w))
    /\ \A e \in Entries :
         /\ WF_vars(state[e] = "closed" /\ ReadError(e))
         /\ WF_vars(ReadTimeout(e))
         /\ WF_vars(ReverseCloses(e) \/ ReverseDeletes(e))
    /\ WF_vars(Tick)

FairSpec == Spec /\ Fairness
----------------------------------------------------------------------------
RelayTypeOK ==
    /\ client \in [Relays -> Clients]
    /\ handler \in [Relays -> {"gone", "listen", "reply", "abort", "serve", "teardown"}]
    /\ closer \in [Relays -> {"open", "done", "socket", "draining", "closed"}]
    /\ drained \in [Relays -> SUBSET Entries]
    /\ run \in [Relays -> {"reading", "joining", "closing", "returned"}]
    /\ jobs \in [Relays -> Seq(Keys \cup Rejected)]
    /\ \A r \in Relays : Len(jobs[r]) <= JobQueueSize
    /\ table \in [Relays -> [Keys -> Entries \cup {NoEntry}]]
    /\ assoc \in Limiters

WorkerTypeOK ==
    /\ wpc \in [Relays -> [Workers -> WorkerPCs]]
    /\ wkey \in [Relays -> [Workers -> Keys]]
    /\ went \in [Relays -> [Workers -> Entries \cup {NoEntry}]]
    /\ victim \in [Relays -> [Workers -> Entries \cup {NoEntry}]]
    /\ flight \in [Relays -> [Keys -> Workers \cup {NoWorker}]]

EntryTypeOK ==
    /\ state \in [Entries -> {"dialing", "open", "closed"}]
    /\ owner \in [Entries -> Relays]
    /\ key \in [Entries -> Keys]
    /\ payer \in [Entries -> Clients]
    /\ rev \in [Entries -> {"none", "read", "close", "delete"}]
    /\ age \in [Entries -> 0..IdleTimeout]
    /\ left \in [Entries -> 0..IdleTimeout]
    /\ nat \in Limiters

\* Every variable has its type; the job queue never outgrows its channel.
TypeOK == RelayTypeOK /\ WorkerTypeOK /\ EntryTypeOK

HeldBy(c) == {e \in Held : payer[e] = c}

\* The NAT limiter counts exactly the sockets being dialled or open, in total and
\* per client: no error path, eviction, teardown or double Close leaks a token or
\* returns one twice.
NATAccounting ==
    /\ nat.total = Cardinality(Held)
    /\ \A c \in Clients : nat.byClient[c] = Cardinality(HeldBy(c))

\* Whatever the workers and associations do at once, the outbound sockets stay
\* within the process-wide and the per-client limit.
NATWithinLimits ==
    /\ Cardinality(Held) <= MaxNATEntriesGlobal
    /\ \A c \in Clients : Cardinality(HeldBy(c)) <= MaxNATEntriesPerClient

Associated      == {r \in Relays : closer[r] # "closed"}
AssociatedBy(c) == {r \in Associated : client[r] = c}

\* The association limiter counts exactly the associations not yet closed, on
\* every path out of handleAssociate.
AssociationAccounting ==
    /\ assoc.total = Cardinality(Associated)
    /\ \A c \in Clients : assoc.byClient[c] = Cardinality(AssociatedBy(c))

SocketsOf(r) == {e \in Entries : owner[e] = r /\ state[e] = "open"}

\* An association's table never holds more flows than MaxNATEntries, and its open
\* sockets exceed that by at most one per worker: the one that worker has dialled
\* but not installed, or evicted but not closed.
FlowsWithinLimit ==
    \A r \in Relays :
        /\ Cardinality(Installed(r)) <= MaxNATEntries
        /\ Cardinality(SocketsOf(r)) <= MaxNATEntries + Cardinality(Workers)

\* udp.go's description of MaxNATEntries: it "bounds outbound sockets per
\* association".  The code dials before it evicts.
SocketsWithinMaxNATEntries == \A r \in Relays : Cardinality(SocketsOf(r)) <= MaxNATEntries

\* The worker is between a successful dial and the end of its singleflight call.
Creating(r, w) == wpc[r][w] \in {"install", "evict", "redone", "undo"}

\* Once Close is over, the only sockets of the association still open are those a
\* worker inside getOrCreateNAT is about to close: Drain racing Install strands
\* no socket.
NoStrandedSocket ==
    \A r \in Relays : closer[r] = "closed" =>
        \A e \in SocketsOf(r) :
            \E w \in Workers : Creating(r, w) /\ e \in {went[r][w], victim[r][w]}

\* When handleAssociate has returned, the association has no open socket, no dial
\* under way and no flow in its table.
NothingOutlivesHandler ==
    \A r \in Relays : handler[r] = "gone" =>
        /\ \A e \in Held : owner[e] # r
        /\ Installed(r) = {}

\* A closed flow still in the table is about to be deleted by its reverse relay,
\* so the flow's later datagrams are not sent to a dead socket for ever.
ClosedFlowIsLeaving ==
    \A r \in Relays, k \in Keys :
        table[r][k] # NoEntry /\ state[table[r][k]] = "closed" => rev[table[r][k]] = "delete"

\* Singleflight and the second lookup leave Install no rival for its key: its
\* branch for an existing entry is dead code.
InstallHasNoRival ==
    \A r \in Relays, w \in Workers :
        wpc[r][w] = "install" => table[r][wkey[r][w]] = NoEntry

\* A worker only ever writes its datagram to a flow of its own association and
\* its own key, whoever created the flow.
NoCrossTalk ==
    \A r \in Relays, w \in Workers :
        wpc[r][w] \in {"write", "touch"} =>
            went[r][w] # NoEntry /\ owner[went[r][w]] = r /\ key[went[r][w]] = wkey[r][w]
\* When the control connection closes, handleAssociate ends: Close, the reader,
\* the workers and Run never wait for each other in a circle.
TeardownCompletes == \A r \in Relays : handler[r] = "teardown" ~> handler[r] = "gone"

\* No worker is left behind in a singleflight call, whatever its leader ran into.
EveryWaiterAnswered ==
    \A r \in Relays, w \in Workers : wpc[r][w] = "wait" ~> wpc[r][w] # "wait"

\* The reverse relay of an association that is shut down ends, and with it the
\* last reference to the flow.
ReverseRelayEnds ==
    \A e \in Entries : rev[e] # "none" /\ Done(owner[e]) ~> rev[e] = "none"

\* A flow that stays open for ever is used for ever: it is touched again and
\* again, or the target keeps sending datagrams that are dropped.
IdleFlowExpires ==
    \A e \in Entries :
        <>[](state[e] = "open") => []<>(age[e] = 0) \/ []<><<Discard(e)>>_vars
=============================================================================
