--------------------------- MODULE UDPRelayProofs ---------------------------
(* Theorems about UDPRelay, for any number of clients, relays, workers, flow keys
   and entries and any limits.  FlowInv, the inductive invariant of this module, says
   what the relay's goroutines may hold in their hands and how far apart they can
   be; UDPRelayResources adds to it.                                           *)
EXTENDS UDPRelay, FiniteSetTheorems, TLAPS

(***************************************************************************)
(* The inductive invariant.                                                *)
(***************************************************************************)
\* Where a worker has an entry in its hands, and what it knows about it: the
\* entry is of the worker's own association and of its datagram's flow.
HandsOn == {"dial", "install", "evict", "redone", "undo", "write", "touch"}

WorkerFlow ==
    \A r \in Relays, w \in Workers :
        /\ wpc[r][w] \in HandsOn =>
              /\ went[r][w] \in Entries
              /\ owner[went[r][w]] = r
              /\ key[went[r][w]] = wkey[r][w]
        /\ wpc[r][w] = "evict" => victim[r][w] \in Entries
        /\ wpc[r][w] # "evict" => victim[r][w] = NoEntry

\* An installed entry is of the table's association, under its own key.
TableMatches ==
    \A r \in Relays, k \in Keys :
        table[r][k] # NoEntry => owner[table[r][k]] = r /\ key[table[r][k]] = k

\* How far handler, Run, workers and Close can be apart.
Lifecycle ==
    \A r \in Relays :
        /\ handler[r] \in {"gone", "listen", "reply", "abort"} => run[r] = "returned"
        /\ handler[r] = "gone" => closer[r] = "closed"
        /\ handler[r] \in {"listen", "reply"} => closer[r] = "open"
        /\ handler[r] \in {"serve", "teardown"} /\ run[r] = "returned" => closer[r] = "closed"
        /\ run[r] \in {"closing", "returned"} => \A w \in Workers : wpc[r][w] = "exited"
        /\ closer[r] # "draining" => drained[r] = {}

\* An entry being dialled is in the hands of one worker and of nobody else.
DialingIsPrivate ==
    /\ \A r \in Relays, w \in Workers : wpc[r][w] = "dial" => state[went[r][w]] = "dialing"
    /\ \A r \in Relays, v, w \in Workers :
          wpc[r][v] = "dial" /\ wpc[r][w] = "dial" /\ went[r][v] = went[r][w] => v = w
    /\ \A e \in Entries : state[e] = "dialing" =>
          /\ rev[e] = "none"
          /\ \A r \in Relays : e \notin drained[r]
          /\ \A r \in Relays, k \in Keys : table[r][k] # e
          /\ \A r \in Relays, w \in Workers : victim[r][w] # e
          /\ \A r \in Relays, w \in Workers : went[r][w] = e => wpc[r][w] = "dial"
          /\ \E w \in Workers : wpc[owner[e]][w] = "dial" /\ went[owner[e]][w] = e

FlowInv == TypeOK /\ WorkerFlow /\ TableMatches /\ Lifecycle /\ DialingIsPrivate

----------------------------------------------------------------------------
(***************************************************************************)
(* What the steps shared by several actions do.                            *)
(***************************************************************************)

\* The limiter's operations keep it a limiter.
LEMMA LimiterTypes ==
    ASSUME NEW l \in Limiters, NEW c \in Clients
    PROVE  /\ Acquired(l, c) \in Limiters
           /\ Released(l, c) \in Limiters
BY DEF Limiters, Acquired, Released

\* A worker that moves on moves alone.
LEMMA GotoFacts ==
    ASSUME TypeOK, NEW r \in Relays, NEW w \in Workers, NEW pc \in WorkerPCs, Goto(r, w, pc)
    PROVE  /\ wpc' \in [Relays -> [Workers -> WorkerPCs]]
           /\ wpc'[r][w] = pc
           /\ \A s \in Relays, v \in Workers : s # r \/ v # w => wpc'[s][v] = wpc[s][v]
BY DEF TypeOK, WorkerTypeOK, Goto

\* The end of a singleflight call reaches its leader and its waiters.
LEMMA FinishFacts ==
    ASSUME TypeOK, NEW r \in Relays, NEW w \in Workers, NEW e \in Entries \cup {NoEntry},
           Finish(r, w, e)
    PROVE  /\ flight' \in [Relays -> [Keys -> Workers \cup {NoWorker}]]
           /\ wpc' \in [Relays -> [Workers -> WorkerPCs]]
           /\ went' \in [Relays -> [Workers -> Entries \cup {NoEntry}]]
           /\ \A v \in Answered(r, w) :
                 /\ went'[r][v] = e
                 /\ wpc'[r][v] = IF e = NoEntry THEN "idle" ELSE "write"
           /\ \A s \in Relays, v \in Workers : s # r \/ v \notin Answered(r, w) =>
                 wpc'[s][v] = wpc[s][v] /\ went'[s][v] = went[s][v]
<1>1. wkey[r][w] \in Keys
    BY DEF TypeOK, WorkerTypeOK
<1>2. flight' \in [Relays -> [Keys -> Workers \cup {NoWorker}]]
    BY <1>1 DEF TypeOK, WorkerTypeOK, Finish
<1>3. wpc' \in [Relays -> [Workers -> WorkerPCs]]
    BY DEF TypeOK, WorkerTypeOK, Finish, WorkerPCs
<1>4. went' \in [Relays -> [Workers -> Entries \cup {NoEntry}]]
    BY DEF TypeOK, WorkerTypeOK, Finish
<1>5. \A v \in Answered(r, w) :
         /\ went'[r][v] = e
         /\ wpc'[r][v] = IF e = NoEntry THEN "idle" ELSE "write"
    BY DEF TypeOK, WorkerTypeOK, Finish, Answered
<1>6. \A s \in Relays, v \in Workers : s # r \/ v \notin Answered(r, w) =>
         wpc'[s][v] = wpc[s][v] /\ went'[s][v] = went[s][v]
    BY DEF TypeOK, WorkerTypeOK, Finish
<1> QED
    BY <1>2, <1>3, <1>4, <1>5, <1>6

\* Closing an entry touches no other entry.
LEMMA CloseEntryFacts ==
    ASSUME TypeOK, NEW e \in Entries, CloseEntry(e)
    PROVE  /\ state' \in [Entries -> {"dialing", "open", "closed"}]
           /\ nat' \in Limiters
           /\ state'[e] = "closed"
           /\ \A f \in Entries : f # e => state'[f] = state[f]
<1>1. payer[e] \in Clients /\ nat \in Limiters
    BY DEF TypeOK, EntryTypeOK
<1>2. nat' \in Limiters
    BY <1>1, LimiterTypes DEF CloseEntry
<1> QED
    BY <1>2 DEF TypeOK, EntryTypeOK, CloseEntry

\* DeleteIf empties the slot of the entry it is given, and no other slot.
LEMMA DeleteIfFacts ==
    ASSUME TypeOK, NEW r \in Relays, NEW k \in Keys, NEW e \in Entries, DeleteIf(r, k, e)
    PROVE  /\ table' \in [Relays -> [Keys -> Entries \cup {NoEntry}]]
           /\ table'[r][k] = IF table[r][k] = e THEN NoEntry ELSE table[r][k]
           /\ \A s \in Relays, l \in Keys : s # r \/ l # k => table'[s][l] = table[s][l]
           /\ \A s \in Relays, l \in Keys : table'[s][l] \in {NoEntry, table[s][l]}
<1>1. CASE table[r][k] = e
    BY <1>1 DEF TypeOK, RelayTypeOK, DeleteIf
<1>2. CASE table[r][k] # e
    BY <1>2 DEF TypeOK, RelayTypeOK, DeleteIf
<1> QED
    BY <1>1, <1>2

(***************************************************************************)
(* Type correctness.                                                       *)
(***************************************************************************)
\* The initial state has the types.
LEMMA TypeInit == Init => TypeOK
BY Limits DEF Init, TypeOK, RelayTypeOK, WorkerTypeOK, EntryTypeOK, NewLimiter, Limiters,
      WorkerPCs

\* The steps of handler, Close and Run keep the types.
LEMMA TypeRelayStep ==
    ASSUME TypeOK, NEW r \in Relays, RelayStep(r)
    PROVE  TypeOK'
<1> USE DEF TypeOK, RelayTypeOK, WorkerTypeOK, EntryTypeOK, vars, handlerVars, poolVars,
        workerVars, idVars, entryVars
<1>1. ASSUME NEW c \in Clients, Associate(r, c) PROVE TypeOK'
    BY <1>1, LimiterTypes DEF Associate
<1>2. CASE ListenFails(r)
    BY <1>2, LimiterTypes DEF ListenFails
<1>3. CASE Listen(r)
    BY <1>3 DEF Listen
<1>4. CASE ReplyFails(r)
    BY <1>4 DEF ReplyFails
<1>5. CASE Reply(r)
    BY <1>5 DEF Reply, WorkerPCs
<1>6. CASE ControlClosed(r)
    BY <1>6 DEF ControlClosed
<1>7. CASE HandlerReturns(r)
    BY <1>7 DEF HandlerReturns
<1>8. CASE CloseDone(r)
    BY <1>8 DEF CloseDone
<1>9. CASE CloseSocket(r)
    BY <1>9 DEF CloseSocket
<1>10. CASE Drain(r)
    BY <1>10 DEF Drain, Installed
<1>11. CASE ReleaseAssociation(r)
    BY <1>11, LimiterTypes DEF ReleaseAssociation
<1>12. CASE ReaderStops(r)
    BY <1>12 DEF ReaderStops
<1>13. CASE WorkersJoined(r)
    BY <1>13 DEF WorkersJoined
<1>14. CASE RunReturns(r)
    BY <1>14 DEF RunReturns
<1>15. ASSUME NEW e \in Entries, CloseDrained(r, e) PROVE TypeOK'
    BY <1>15, CloseEntryFacts DEF CloseDrained
<1>16. ASSUME NEW d \in Keys \cup Rejected, ReadDatagram(r, d) PROVE TypeOK'
    BY <1>16, Limits DEF ReadDatagram
<1> QED
    BY <1>1, <1>2, <1>3, <1>4, <1>5, <1>6, <1>7, <1>8, <1>9, <1>10, <1>11, <1>12, <1>13, <1>14, <1>15, <1>16 DEF RelayStep

\* The steps of a worker keep the types; that it has an entry in its hands where
\* it uses one is WorkerFlow.
LEMMA TypeWorkerStep ==
    ASSUME TypeOK, WorkerFlow, NEW r \in Relays, NEW w \in Workers, WorkerStep(r, w)
    PROVE  TypeOK'
<1> DEFINE k == wkey[r][w]
           e == went[r][w]
<1>0. /\ k \in Keys /\ e \in Entries \cup {NoEntry} /\ client[r] \in Clients
      /\ table[r][k] \in Entries \cup {NoEntry} /\ nat \in Limiters
    BY DEF TypeOK, RelayTypeOK, WorkerTypeOK, EntryTypeOK
<1>a. wpc[r][w] \in HandsOn => e \in Entries
    BY DEF WorkerFlow
<1>b. \A pc \in WorkerPCs : Goto(r, w, pc) => wpc' \in [Relays -> [Workers -> WorkerPCs]]
    BY GotoFacts
<1> HIDE DEF k, e
<1>c. ASSUME NEW f \in Entries \cup {NoEntry}, Finish(r, w, f)
      PROVE  /\ flight' \in [Relays -> [Keys -> Workers \cup {NoWorker}]]
             /\ wpc' \in [Relays -> [Workers -> WorkerPCs]]
             /\ went' \in [Relays -> [Workers -> Entries \cup {NoEntry}]]
    BY <1>c, FinishFacts
<1> USE <1>0
<1> USE DEF TypeOK, RelayTypeOK, WorkerTypeOK, EntryTypeOK, vars, handlerVars, poolVars,
        workerVars, idVars, entryVars, WorkerPCs
<1>1. CASE Take(r, w)
  <2>1. Head(jobs[r]) \in Keys \cup Rejected /\ jobs[r] # <<>>
    BY <1>1 DEF Take
  <2>2. jobs' \in [Relays -> Seq(Keys \cup Rejected)]
    BY <1>1 DEF Take
  <2>3. \A s \in Relays : Len(jobs'[s]) <= JobQueueSize
    BY <1>1, <2>1, Limits DEF Take
  <2>4. RelayTypeOK' /\ EntryTypeOK'
    BY <1>1, <2>2, <2>3 DEF Take
  <2>5. CASE Head(jobs[r]) \in Rejected
    BY <1>1, <2>4, <2>5 DEF Take
  <2>6. CASE Head(jobs[r]) \notin Rejected
    <3>1. Goto(r, w, "check") /\ wkey' = [wkey EXCEPT ![r][w] = Head(jobs[r])]
      BY <1>1, <2>6 DEF Take
    <3>2. wkey' \in [Relays -> [Workers -> Keys]]
      BY <2>1, <2>6, <3>1
    <3> QED
      BY <1>1, <1>b, <2>4, <3>1, <3>2 DEF Take
  <2> QED
    BY <2>5, <2>6
<1>2. CASE WorkerExits(r, w)
    BY <1>2, <1>b DEF WorkerExits
<1>3. CASE CheckDone(r, w)
    BY <1>3, <1>b DEF CheckDone
<1>4. CASE Load(r, w)
    BY <1>4, <1>b DEF Load, k
<1>5. CASE Join(r, w)
  <2>1. CASE flight[r][k] = NoWorker
    <3>1. Goto(r, w, "recheck") /\ flight' = [flight EXCEPT ![r][k] = w]
      BY <1>5, <2>1 DEF Join, k
    <3>2. flight' \in [Relays -> [Keys -> Workers \cup {NoWorker}]]
      BY <3>1
    <3> QED
      BY <1>5, <1>b, <3>1, <3>2 DEF Join
  <2>2. CASE flight[r][k] # NoWorker
    BY <1>5, <1>b, <2>2 DEF Join, k
  <2> QED
    BY <2>1, <2>2
<1>6. CASE Recheck(r, w)
  <2>1. CASE table[r][k] = NoEntry
    BY <1>6, <1>b, <2>1 DEF Recheck, k
  <2>2. CASE table[r][k] # NoEntry
    BY <1>6, <1>c, <2>2 DEF Recheck, k
  <2> QED
    BY <2>1, <2>2
<1>7. CASE Refused(r, w)
    BY <1>7, <1>c DEF Refused
<1>8. CASE AcquireToken(r, w)
  <2>1. PICK f \in Entries :
           /\ state' = [state EXCEPT ![f] = "dialing"]
           /\ owner' = [owner EXCEPT ![f] = r]
           /\ key' = [key EXCEPT ![f] = wkey[r][w]]
           /\ payer' = [payer EXCEPT ![f] = client[r]]
           /\ went' = [went EXCEPT ![r][w] = f]
    BY <1>8 DEF AcquireToken, FreeEntries
  <2>2. nat' \in Limiters
    BY <1>8, LimiterTypes DEF AcquireToken
  <2>3. went' \in [Relays -> [Workers -> Entries \cup {NoEntry}]]
    BY <2>1
  <2>4. EntryTypeOK'
    BY <1>8, <2>1, <2>2 DEF AcquireToken, k
  <2> QED
    BY <1>8, <1>b, <2>3, <2>4 DEF AcquireToken
<1>9. CASE DialFails(r, w)
    BY <1>9, <1>a, <1>c, LimiterTypes DEF DialFails, HandsOn, e
<1>10. CASE DialSucceeds(r, w)
  <2>1. RelayTypeOK' /\ WorkerTypeOK'
    BY <1>10, <1>b DEF DialSucceeds
  <2>2. EntryTypeOK'
    BY <1>10, <1>a, Limits DEF DialSucceeds, HandsOn, e
  <2> QED
    BY <2>1, <2>2
<1>11. CASE Install(r, w)
  <2>0. e \in Entries
    BY <1>11, <1>a DEF Install, HandsOn
  <2>1. CASE table[r][k] # NoEntry
    <3>1. CloseEntry(e) /\ Finish(r, w, table[r][k]) /\ UNCHANGED <<victim, table>>
      BY <1>11, <2>1 DEF Install, k, e
    <3>2. state' \in [Entries -> {"dialing", "open", "closed"}] /\ nat' \in Limiters
      BY <2>0, <3>1, CloseEntryFacts
    <3> QED
      BY <1>11, <1>c, <3>1, <3>2 DEF Install
  <2>2. CASE table[r][k] = NoEntry /\ ~Full(r)
    <3>1. /\ table' = [table EXCEPT ![r][k] = e] /\ Goto(r, w, "redone")
          /\ UNCHANGED <<went, victim, flight, state, nat>>
      BY <1>11, <2>2 DEF Install, k, e
    <3>2. table' \in [Relays -> [Keys -> Entries \cup {NoEntry}]]
      BY <2>0, <3>1
    <3> QED
      BY <1>11, <1>b, <3>1, <3>2 DEF Install
  <2>3. CASE table[r][k] = NoEntry /\ Full(r)
    <3>1. PICK old \in Keys :
             /\ table' = [table EXCEPT ![r] = [@ EXCEPT ![old] = NoEntry, ![k] = e]]
             /\ victim' = [victim EXCEPT ![r][w] = table[r][old]]
      BY <1>11, <2>3 DEF Install, k, e, LeastRecentlySeen, Installed
    <3>2. table[r][old] \in Entries \cup {NoEntry}
      BY <3>1
    <3>3. Goto(r, w, "evict") /\ UNCHANGED <<went, flight, state, nat>>
      BY <1>11, <2>3 DEF Install, k, e
    <3>4. RelayTypeOK'
      BY <1>11, <2>0, <3>1 DEF Install
    <3> QED
      BY <1>11, <1>b, <3>1, <3>2, <3>3, <3>4 DEF Install
  <2> QED
    BY <2>1, <2>2, <2>3
<1>12. CASE CloseVictim(r, w)
  <2>1. victim[r][w] \in Entries
    BY <1>12 DEF CloseVictim, WorkerFlow
  <2> QED
    BY <1>12, <1>b, <2>1, CloseEntryFacts DEF CloseVictim
<1>13. CASE RecheckDone(r, w)
  <2>0. e \in Entries
    BY <1>13, <1>a DEF RecheckDone, HandsOn
  <2>1. CASE Done(r)
    <3>1. DeleteIf(r, k, e) /\ Goto(r, w, "undo") /\ UNCHANGED <<went, flight, rev, left>>
      BY <1>13, <2>1 DEF RecheckDone, k, e
    <3>2. table' \in [Relays -> [Keys -> Entries \cup {NoEntry}]]
      BY <2>0, <3>1, DeleteIfFacts
    <3> QED
      BY <1>13, <1>b, <3>1, <3>2 DEF RecheckDone
  <2>2. CASE ~Done(r)
    <3>1. /\ rev' = [rev EXCEPT ![e] = "read"] /\ left' = [left EXCEPT ![e] = IdleTimeout]
          /\ Finish(r, w, e) /\ UNCHANGED table
      BY <1>13, <2>2 DEF RecheckDone, k, e
    <3>2. rev' \in [Entries -> {"none", "read", "close", "delete"}]
          /\ left' \in [Entries -> 0..IdleTimeout]
      BY <2>0, <3>1, Limits
    <3> QED
      BY <1>13, <1>c, <3>1, <3>2 DEF RecheckDone
  <2> QED
    BY <2>1, <2>2
<1>14. CASE Undo(r, w)
  <2>1. e \in Entries
    BY <1>14, <1>a DEF Undo, HandsOn
  <2>2. state' \in [Entries -> {"dialing", "open", "closed"}] /\ nat' \in Limiters
    BY <1>14, <2>1, CloseEntryFacts DEF Undo, e
  <2> QED
    BY <1>14, <1>c, <2>2 DEF Undo
<1>15. CASE Write(r, w)
  <2>1. RelayTypeOK' /\ EntryTypeOK'
    BY <1>15 DEF Write
  <2>2. wpc' \in [Relays -> [Workers -> WorkerPCs]]
    BY <1>15, <1>b DEF Write
  <2>3. went' = went \/ went' = [went EXCEPT ![r][w] = NoEntry]
    BY <1>15 DEF Write
  <2>4. went' \in [Relays -> [Workers -> Entries \cup {NoEntry}]]
    <3>1. CASE went' = went
      BY <3>1
    <3>2. CASE went' = [went EXCEPT ![r][w] = NoEntry]
      BY <3>2
    <3> QED
      BY <2>3, <3>1, <3>2
  <2> QED
    BY <1>15, <2>1, <2>2, <2>4 DEF Write
<1>16. CASE Touch(r, w)
  <2>1. age' \in [Entries -> 0..IdleTimeout]
    BY <1>16, <1>a, Limits DEF Touch, HandsOn, e
  <2>2. went' \in [Relays -> [Workers -> Entries \cup {NoEntry}]]
    BY <1>16 DEF Touch
  <2> QED
    BY <1>16, <1>b, <2>1, <2>2 DEF Touch
<1> QED
    BY <1>1, <1>2, <1>3, <1>4, <1>5, <1>6, <1>7, <1>8, <1>9, <1>10, <1>11, <1>12, <1>13,
       <1>14, <1>15, <1>16 DEF WorkerStep

\* The steps of a reverse relay keep the types.
LEMMA TypeReverseStep ==
    ASSUME TypeOK, NEW e \in Entries, ReverseStep(e)
    PROVE  TypeOK'
<1> USE DEF TypeOK, RelayTypeOK, WorkerTypeOK, EntryTypeOK, vars, handlerVars, poolVars,
        workerVars, idVars, entryVars
<1>1. CASE Receive(e)
  <2>1. age' \in [Entries -> 0..IdleTimeout]
    BY <1>1, Limits DEF Receive
  <2>2. /\ rev' \in [Entries -> {"none", "read", "close", "delete"}]
        /\ left' \in [Entries -> 0..IdleTimeout]
    <3>1. CASE SocketClosed(owner[e])
      BY <1>1, <3>1 DEF Receive
    <3>2. CASE ~SocketClosed(owner[e])
      <4>1. left' = [left EXCEPT ![e] = IdleTimeout] /\ UNCHANGED rev
        BY <1>1, <3>2 DEF Receive
      <4> QED
        BY <4>1, Limits
    <3> QED
      BY <3>1, <3>2
  <2> QED
    BY <1>1, <2>1, <2>2 DEF Receive
<1>2. CASE Discard(e)
    BY <1>2, Limits DEF Discard
<1>3. CASE ReadError(e)
    BY <1>3 DEF ReadError
<1>4. CASE ReadTimeout(e)
  <2>1. /\ rev' \in [Entries -> {"none", "read", "close", "delete"}]
        /\ left' \in [Entries -> 0..IdleTimeout]
    <3>1. CASE ~Done(owner[e]) /\ Current(e) /\ age[e] < IdleTimeout
      <4>1. left' = [left EXCEPT ![e] = IdleTimeout] /\ UNCHANGED rev
        BY <1>4, <3>1 DEF ReadTimeout
      <4> QED
        BY <4>1, Limits
    <3>2. CASE ~(~Done(owner[e]) /\ Current(e) /\ age[e] < IdleTimeout)
      BY <1>4, <3>2 DEF ReadTimeout
    <3> QED
      BY <3>1, <3>2
  <2> QED
    BY <1>4, <2>1 DEF ReadTimeout
<1>5. CASE ReverseCloses(e)
    BY <1>5, CloseEntryFacts DEF ReverseCloses
<1>6. CASE ReverseDeletes(e)
    BY <1>6, DeleteIfFacts DEF ReverseDeletes
<1> QED
    BY <1>1, <1>2, <1>3, <1>4, <1>5, <1>6 DEF ReverseStep

\* The clock keeps the types: ages and deadlines saturate.
LEMMA TypeTick ==
    ASSUME TypeOK, Tick
    PROVE  TypeOK'
BY Limits DEF Tick, TypeOK, RelayTypeOK, WorkerTypeOK, EntryTypeOK, vars, handlerVars,
     poolVars, workerVars, idVars, entryVars

\* No step leaves the types.
LEMMA TypeStep ==
    ASSUME TypeOK, WorkerFlow, [Next]_vars
    PROVE  TypeOK'
<1>1. CASE UNCHANGED vars
    BY <1>1 DEF TypeOK, RelayTypeOK, WorkerTypeOK, EntryTypeOK, vars, handlerVars, poolVars,
         workerVars, idVars, entryVars
<1> QED
    BY <1>1, TypeRelayStep, TypeWorkerStep, TypeReverseStep, TypeTick DEF Next

(***************************************************************************)
(* The life of an association.                                             *)
(***************************************************************************)
\* A worker step leaves the handlers, the Runs, the Closes and the workers of
\* other associations alone, and is not made by a worker that has exited.
LEMMA WorkerIsLocal ==
    ASSUME TypeOK, WorkerFlow, NEW r \in Relays, NEW w \in Workers, WorkerStep(r, w)
    PROVE  /\ UNCHANGED <<handlerVars, run>>
           /\ wpc[r][w] # "exited"
           /\ \A s \in Relays : s # r => wpc'[s] = wpc[s]
<1> USE DEF TypeOK, WorkerTypeOK, handlerVars, poolVars
<1>1. CASE Take(r, w)
    BY <1>1 DEF Take, Goto
<1>2. CASE WorkerExits(r, w)
    BY <1>2 DEF WorkerExits, Goto
<1>3. CASE CheckDone(r, w)
    BY <1>3 DEF CheckDone, Goto
<1>4. CASE Load(r, w)
    BY <1>4 DEF Load, Goto
<1>5. CASE Join(r, w)
    BY <1>5 DEF Join, Goto
<1>6. CASE Recheck(r, w)
    BY <1>6 DEF Recheck, Goto, Finish
<1>7. CASE Refused(r, w)
    BY <1>7 DEF Refused, Finish
<1>8. CASE AcquireToken(r, w)
    BY <1>8 DEF AcquireToken, Goto
<1>9. CASE DialFails(r, w)
    BY <1>9 DEF DialFails, Finish
<1>10. CASE DialSucceeds(r, w)
    BY <1>10 DEF DialSucceeds, Goto
<1>11. CASE Install(r, w)
    BY <1>11 DEF Install, Goto, Finish
<1>12. CASE CloseVictim(r, w)
    BY <1>12 DEF CloseVictim, Goto
<1>13. CASE RecheckDone(r, w)
    BY <1>13 DEF RecheckDone, Goto, Finish
<1>14. CASE Undo(r, w)
    BY <1>14 DEF Undo, Finish
<1>15. CASE Write(r, w)
    BY <1>15 DEF Write, Goto
<1>16. CASE Touch(r, w)
    BY <1>16 DEF Touch, Goto
<1> QED
    BY <1>1, <1>2, <1>3, <1>4, <1>5, <1>6, <1>7, <1>8, <1>9, <1>10, <1>11, <1>12, <1>13, <1>14, <1>15, <1>16 DEF WorkerStep

\* Handler, Run, workers and Close stay in step.
LEMMA LifecycleStep ==
    ASSUME TypeOK, WorkerFlow, Lifecycle, [Next]_vars
    PROVE  Lifecycle'
<1> USE DEF Lifecycle, TypeOK, RelayTypeOK, WorkerTypeOK, handlerVars, poolVars, workerVars
<1>1. ASSUME UNCHANGED <<handlerVars, run, wpc>> PROVE Lifecycle'
    BY <1>1
<1>2. ASSUME NEW r \in Relays, RelayStep(r) PROVE Lifecycle'
  <2>1. ASSUME NEW c \in Clients, Associate(r, c) PROVE Lifecycle'
    BY <2>1 DEF Associate
  <2>2. CASE ListenFails(r)
    BY <2>2 DEF ListenFails
  <2>3. CASE Listen(r)
    BY <2>3 DEF Listen
  <2>4. CASE ReplyFails(r)
    BY <2>4 DEF ReplyFails
  <2>5. CASE Reply(r)
    BY <2>5 DEF Reply
  <2>6. CASE ControlClosed(r)
    BY <2>6 DEF ControlClosed
  <2>7. CASE HandlerReturns(r)
    BY <2>7 DEF HandlerReturns
  <2>8. CASE CloseDone(r)
    BY <2>8 DEF CloseDone
  <2>9. CASE CloseSocket(r)
    BY <2>9 DEF CloseSocket
  <2>10. CASE Drain(r)
    BY <2>10 DEF Drain
  <2>11. CASE ReleaseAssociation(r)
    BY <2>11 DEF ReleaseAssociation
  <2>12. CASE ReaderStops(r)
    BY <2>12 DEF ReaderStops
  <2>13. CASE WorkersJoined(r)
    BY <2>13 DEF WorkersJoined
  <2>14. CASE RunReturns(r)
    BY <2>14 DEF RunReturns
  <2>15. ASSUME NEW e \in Entries, CloseDrained(r, e) PROVE Lifecycle'
    BY <2>15 DEF CloseDrained
  <2>16. ASSUME NEW d \in Keys \cup Rejected, ReadDatagram(r, d) PROVE Lifecycle'
    BY <2>16, <1>1 DEF ReadDatagram
  <2> QED
    BY <1>2, <2>1, <2>2, <2>3, <2>4, <2>5, <2>6, <2>7, <2>8, <2>9, <2>10, <2>11, <2>12, <2>13, <2>14, <2>15, <2>16 DEF RelayStep
<1>3. ASSUME NEW r \in Relays, NEW w \in Workers, WorkerStep(r, w) PROVE Lifecycle'
  <2>1. /\ UNCHANGED <<handlerVars, run>>
        /\ wpc[r][w] # "exited"
        /\ \A s \in Relays : s # r => wpc'[s] = wpc[s]
    BY <1>3, WorkerIsLocal
  <2>2. run[r] \notin {"closing", "returned"}
    BY <2>1
  <2>3. \A s \in Relays : run'[s] \in {"closing", "returned"} =>
            \A v \in Workers : wpc'[s][v] = "exited"
    <3> SUFFICES ASSUME NEW s \in Relays, run'[s] \in {"closing", "returned"}, NEW v \in Workers
                 PROVE  wpc'[s][v] = "exited"
      OBVIOUS
    <3>1. run[s] \in {"closing", "returned"} /\ s # r
      BY <2>1, <2>2
    <3> QED
      BY <2>1, <3>1
  <2> QED
    BY <2>1, <2>3
<1>4. ASSUME NEW e \in Entries, ReverseStep(e) PROVE Lifecycle'
    BY <1>1, <1>4 DEF ReverseStep, Receive, Discard, ReadError, ReadTimeout, ReverseCloses,
         ReverseDeletes
<1>5. CASE Tick
    BY <1>1, <1>5 DEF Tick
<1>6. CASE UNCHANGED vars
    BY <1>1, <1>6 DEF vars
<1> QED
    BY <1>2, <1>3, <1>4, <1>5, <1>6 DEF Next

(***************************************************************************)
(* Entries, tables and the workers' hands.                                 *)
(***************************************************************************)
\* No step installs an entry in a foreign slot, and no entry is renamed while it is
\* installed.
LEMMA TableMatchesStep ==
    ASSUME TypeOK, WorkerFlow, TableMatches, [Next]_vars
    PROVE  TableMatches'
<1> USE DEF TableMatches, TypeOK, RelayTypeOK, WorkerTypeOK, EntryTypeOK, handlerVars,
        poolVars, workerVars, idVars, entryVars
<1>1. ASSUME UNCHANGED <<table, owner, key>> PROVE TableMatches'
    BY <1>1
<1>2. ASSUME NEW r \in Relays, RelayStep(r) PROVE TableMatches'
  <2>1. CASE Drain(r)
    BY <2>1 DEF Drain
  <2>2. CASE ~Drain(r)
    BY <1>1, <1>2, <2>2 DEF RelayStep, Associate, ListenFails, Listen, ReplyFails, Reply,
       ControlClosed, HandlerReturns, CloseDone, CloseSocket, CloseDrained,
       ReleaseAssociation, ReadDatagram, ReaderStops, WorkersJoined, RunReturns
  <2> QED
    BY <2>1, <2>2
<1>3. ASSUME NEW r \in Relays, NEW w \in Workers, WorkerStep(r, w) PROVE TableMatches'
  <2>1. CASE AcquireToken(r, w)
    <3>1. PICK f \in FreeEntries :
             /\ owner' = [owner EXCEPT ![f] = r]
             /\ key' = [key EXCEPT ![f] = wkey[r][w]]
      BY <2>1 DEF AcquireToken
    <3>2. \A s \in Relays, k \in Keys : table[s][k] # f
      BY <3>1 DEF FreeEntries, Referenced
    <3> QED
      BY <2>1, <3>1, <3>2 DEF AcquireToken
  <2>2. CASE Install(r, w)
    <3>1. went[r][w] \in Entries /\ owner[went[r][w]] = r /\ key[went[r][w]] = wkey[r][w]
      BY <2>2 DEF Install, WorkerFlow, HandsOn
    <3>2. UNCHANGED <<owner, key>> /\ wkey[r][w] \in Keys
      BY <2>2 DEF Install
    <3>3. CASE table[r][wkey[r][w]] # NoEntry
      BY <1>1, <2>2, <3>2, <3>3 DEF Install
    <3>4. CASE table[r][wkey[r][w]] = NoEntry /\ ~Full(r)
      <4>1. table' = [table EXCEPT ![r][wkey[r][w]] = went[r][w]]
        BY <2>2, <3>4 DEF Install
      <4> QED
        BY <3>1, <3>2, <4>1
    <3>5. CASE table[r][wkey[r][w]] = NoEntry /\ Full(r)
      <4>1. PICK old \in Keys :
               table' = [table EXCEPT ![r] =
                            [@ EXCEPT ![old] = NoEntry, ![wkey[r][w]] = went[r][w]]]
        BY <2>2, <3>5 DEF Install, LeastRecentlySeen, Installed
      <4> QED
        BY <3>1, <3>2, <4>1
    <3> QED
      BY <3>3, <3>4, <3>5
  <2>3. CASE RecheckDone(r, w)
    <3>1. went[r][w] \in Entries /\ wkey[r][w] \in Keys /\ UNCHANGED <<owner, key>>
      BY <2>3 DEF RecheckDone, WorkerFlow, HandsOn
    <3>2. CASE Done(r)
      <4>1. DeleteIf(r, wkey[r][w], went[r][w])
        BY <2>3, <3>2 DEF RecheckDone
      <4>2. \A s \in Relays, k \in Keys : table'[s][k] \in {NoEntry, table[s][k]}
        BY <3>1, <4>1, DeleteIfFacts
      <4> QED
        BY <3>1, <4>2
    <3>3. CASE ~Done(r)
      BY <1>1, <2>3, <3>1, <3>3 DEF RecheckDone
    <3> QED
      BY <3>2, <3>3
  <2>4. CASE ~AcquireToken(r, w) /\ ~Install(r, w) /\ ~RecheckDone(r, w)
    BY <1>1, <1>3, <2>4 DEF WorkerStep, Take, WorkerExits, CheckDone, Load, Join, Recheck,
       Refused, DialFails, DialSucceeds, CloseVictim, Undo, Write, Touch
  <2> QED
    BY <2>1, <2>2, <2>3, <2>4
<1>4. ASSUME NEW e \in Entries, ReverseStep(e) PROVE TableMatches'
  <2>1. CASE ReverseDeletes(e)
    <3>1. /\ DeleteIf(owner[e], key[e], e) /\ UNCHANGED <<owner, key>>
          /\ owner[e] \in Relays /\ key[e] \in Keys
      BY <2>1 DEF ReverseDeletes
    <3>2. \A s \in Relays, k \in Keys : table'[s][k] \in {NoEntry, table[s][k]}
      BY <3>1, DeleteIfFacts
    <3> QED
      BY <3>1, <3>2
  <2>2. CASE ~ReverseDeletes(e)
    BY <1>1, <1>4, <2>2 DEF ReverseStep, Receive, Discard, ReadError, ReadTimeout,
       ReverseCloses
  <2> QED
    BY <2>1, <2>2
<1>5. CASE Tick
    BY <1>1, <1>5 DEF Tick
<1>6. CASE UNCHANGED vars
    BY <1>1, <1>6 DEF vars
<1> QED
    BY <1>2, <1>3, <1>4, <1>5, <1>6 DEF Next

\* The entry a finished singleflight call hands out is of the leader's flow, and
\* every worker it is handed to waits for that flow.
LEMMA FinishKeepsFlow ==
    ASSUME TypeOK, WorkerFlow, NEW r \in Relays, NEW w \in Workers,
           NEW e \in Entries \cup {NoEntry}, Finish(r, w, e),
           e # NoEntry => owner[e] = r /\ key[e] = wkey[r][w],
           wpc[r][w] # "evict", UNCHANGED <<wkey, victim, owner, key>>
    PROVE  WorkerFlow'
<1>1. /\ \A v \in Answered(r, w) :
            /\ went'[r][v] = e
            /\ wpc'[r][v] = IF e = NoEntry THEN "idle" ELSE "write"
      /\ \A s \in Relays, v \in Workers : s # r \/ v \notin Answered(r, w) =>
            wpc'[s][v] = wpc[s][v] /\ went'[s][v] = went[s][v]
    BY FinishFacts
<1>2. \A v \in Answered(r, w) : wkey[r][v] = wkey[r][w] /\ wpc[r][v] # "evict"
    BY DEF Answered
<1> QED
    BY <1>1, <1>2 DEF WorkerFlow, HandsOn, TypeOK, EntryTypeOK

\* A worker that moves alone keeps the others' knowledge; its own is checked.
LEMMA MoveKeepsFlow ==
    ASSUME WorkerFlow, NEW r \in Relays, NEW w \in Workers, UNCHANGED <<owner, key>>,
           \A s \in Relays, v \in Workers : s # r \/ v # w =>
               /\ wpc'[s][v] = wpc[s][v] /\ went'[s][v] = went[s][v]
               /\ wkey'[s][v] = wkey[s][v] /\ victim'[s][v] = victim[s][v],
           wpc'[r][w] \in HandsOn => /\ went'[r][w] \in Entries
                                     /\ owner[went'[r][w]] = r
                                     /\ key[went'[r][w]] = wkey'[r][w],
           wpc'[r][w] = "evict" => victim'[r][w] \in Entries,
           wpc'[r][w] # "evict" => victim'[r][w] = NoEntry
    PROVE  WorkerFlow'
BY DEF WorkerFlow

\* No step puts a foreign entry into a worker's hands.
LEMMA WorkerFlowStep ==
    ASSUME TypeOK, WorkerFlow, TableMatches, Lifecycle, [Next]_vars
    PROVE  WorkerFlow'
<1> USE DEF TypeOK, RelayTypeOK, WorkerTypeOK, EntryTypeOK, handlerVars, poolVars, workerVars,
        idVars, entryVars
<1>1. ASSUME UNCHANGED <<workerVars, idVars>> PROVE WorkerFlow'
    BY <1>1 DEF WorkerFlow
<1>2. ASSUME NEW r \in Relays, RelayStep(r) PROVE WorkerFlow'
  <2>1. CASE Reply(r)
    BY <2>1 DEF Reply, WorkerFlow, Lifecycle, HandsOn
  <2>2. CASE ~Reply(r)
    BY <1>1, <1>2, <2>2 DEF RelayStep, Associate, ListenFails, Listen, ReplyFails, Drain,
       ControlClosed, HandlerReturns, CloseDone, CloseSocket, CloseDrained,
       ReleaseAssociation, ReadDatagram, ReaderStops, WorkersJoined, RunReturns
  <2> QED
    BY <2>1, <2>2
<1>3. ASSUME NEW r \in Relays, NEW w \in Workers, WorkerStep(r, w) PROVE WorkerFlow'
  <2> DEFINE k == wkey[r][w]
             e == went[r][w]
  <2>0. /\ k \in Keys /\ e \in Entries \cup {NoEntry}
        /\ table[r][k] \in Entries \cup {NoEntry}
        /\ table[r][k] # NoEntry => owner[table[r][k]] = r /\ key[table[r][k]] = k
    BY DEF TableMatches
  <2>a. wpc[r][w] \in HandsOn => e \in Entries /\ owner[e] = r /\ key[e] = k
    BY DEF WorkerFlow
  <2>b. wpc[r][w] # "evict" => victim[r][w] = NoEntry
    BY DEF WorkerFlow
  <2>c. \A pc \in WorkerPCs : Goto(r, w, pc) =>
           /\ wpc'[r][w] = pc
           /\ \A s \in Relays, v \in Workers : s # r \/ v # w => wpc'[s][v] = wpc[s][v]
    BY GotoFacts
  <2>1. CASE Take(r, w)
    <3>1. CASE Head(jobs[r]) \in Rejected
      BY <1>1, <2>1, <3>1 DEF Take
    <3>2. CASE Head(jobs[r]) \notin Rejected
      <4>1. /\ Goto(r, w, "check") /\ wkey' = [wkey EXCEPT ![r][w] = Head(jobs[r])]
            /\ UNCHANGED <<went, victim, owner, key>> /\ victim[r][w] = NoEntry
        BY <2>1, <2>b, <3>2 DEF Take
      <4> QED
        BY <2>c, <4>1, MoveKeepsFlow DEF HandsOn, WorkerPCs
    <3> QED
      BY <3>1, <3>2
  <2>2. CASE WorkerExits(r, w)
    BY <2>2, <2>b, <2>c, MoveKeepsFlow DEF WorkerExits, HandsOn, WorkerPCs
  <2>3. CASE CheckDone(r, w)
    BY <2>3, <2>b, <2>c, MoveKeepsFlow DEF CheckDone, HandsOn, WorkerPCs
  <2>4. CASE Load(r, w)
    <3>1. went'[r][w] = table[r][k]
      BY <2>4 DEF Load
    <3>2. \A s \in Relays, v \in Workers : s # r \/ v # w => went'[s][v] = went[s][v]
      BY <2>4 DEF Load
    <3>3. wpc'[r][w] = (IF table[r][k] = NoEntry THEN "join" ELSE "write")
          /\ \A s \in Relays, v \in Workers : s # r \/ v # w => wpc'[s][v] = wpc[s][v]
      BY <2>4, <2>c DEF Load, WorkerPCs
    <3>4. UNCHANGED <<wkey, victim, owner, key>> /\ victim[r][w] = NoEntry
      BY <2>4, <2>b DEF Load
    <3> HIDE DEF k
    <3>5. wpc'[r][w] \in HandsOn => /\ went'[r][w] \in Entries
                                    /\ owner[went'[r][w]] = r
                                    /\ key[went'[r][w]] = wkey'[r][w]
      BY <2>0, <3>1, <3>3, <3>4 DEF HandsOn, k
    <3>6. wpc'[r][w] # "evict" /\ victim'[r][w] = NoEntry
      BY <3>3, <3>4
    <3>7. \A s \in Relays, v \in Workers : s # r \/ v # w =>
             /\ wpc'[s][v] = wpc[s][v] /\ went'[s][v] = went[s][v]
             /\ wkey'[s][v] = wkey[s][v] /\ victim'[s][v] = victim[s][v]
      BY <3>2, <3>3, <3>4
    <3> QED
      BY <3>4, <3>5, <3>6, <3>7, MoveKeepsFlow
  <2>5. CASE Join(r, w)
    <3>1. Goto(r, w, "recheck") \/ Goto(r, w, "wait")
      BY <2>5 DEF Join
    <3> QED
      BY <2>5, <2>b, <2>c, <3>1, MoveKeepsFlow DEF Join, HandsOn, WorkerPCs
  <2>6. CASE Recheck(r, w)
    <3>1. CASE table[r][k] = NoEntry
      BY <2>6, <2>b, <2>c, <3>1, MoveKeepsFlow DEF Recheck, HandsOn, WorkerPCs
    <3>2. CASE table[r][k] # NoEntry
      BY <2>6, <2>0, <3>2, FinishKeepsFlow DEF Recheck
    <3> QED
      BY <3>1, <3>2
  <2>7. CASE Refused(r, w)
    BY <2>7, FinishKeepsFlow DEF Refused
  <2>8. CASE AcquireToken(r, w)
    <3>1. PICK f \in FreeEntries :
             /\ owner' = [owner EXCEPT ![f] = r]
             /\ key' = [key EXCEPT ![f] = wkey[r][w]]
             /\ went' = [went EXCEPT ![r][w] = f]
      BY <2>8 DEF AcquireToken
    <3>2. f \in Entries /\ \A s \in Relays, v \in Workers : went[s][v] # f
      BY <3>1 DEF FreeEntries, Referenced
    <3>3. went'[r][w] = f /\ owner'[f] = r /\ key'[f] = wkey'[r][w]
      BY <2>8, <3>1, <3>2 DEF AcquireToken
    <3>4. wpc'[r][w] = "dial" /\ victim'[r][w] = NoEntry
      BY <2>8, <2>b, <2>c DEF AcquireToken, WorkerPCs
    <3>5. \A s \in Relays, v \in Workers : s # r \/ v # w =>
             /\ wpc'[s][v] = wpc[s][v] /\ went'[s][v] = went[s][v]
             /\ wkey'[s][v] = wkey[s][v] /\ victim'[s][v] = victim[s][v]
             /\ owner'[went[s][v]] = owner[went[s][v]] /\ key'[went[s][v]] = key[went[s][v]]
      BY <2>8, <2>c, <3>1, <3>2 DEF AcquireToken, WorkerPCs
    <3> SUFFICES ASSUME NEW s \in Relays, NEW v \in Workers
                 PROVE  /\ wpc'[s][v] \in HandsOn =>
                              /\ went'[s][v] \in Entries
                              /\ owner'[went'[s][v]] = s
                              /\ key'[went'[s][v]] = wkey'[s][v]
                        /\ wpc'[s][v] = "evict" => victim'[s][v] \in Entries
                        /\ wpc'[s][v] # "evict" => victim'[s][v] = NoEntry
      BY DEF WorkerFlow, HandsOn
    <3>6. CASE s = r /\ v = w
      BY <3>2, <3>3, <3>4, <3>6
    <3>7. CASE s # r \/ v # w
      BY <3>5, <3>7 DEF WorkerFlow
    <3> QED
      BY <3>6, <3>7
  <2>9. CASE DialFails(r, w)
    BY <2>9, FinishKeepsFlow DEF DialFails
  <2>10. CASE DialSucceeds(r, w)
    BY <2>10, <2>a, <2>b, <2>c, MoveKeepsFlow DEF DialSucceeds, HandsOn, WorkerPCs
  <2>11. CASE Install(r, w)
    <3>1. CASE table[r][k] # NoEntry
      BY <2>11, <2>0, <3>1, FinishKeepsFlow DEF Install
    <3>2. CASE table[r][k] = NoEntry /\ ~Full(r)
      <4>1. /\ Goto(r, w, "redone") /\ UNCHANGED <<went, wkey, victim, owner, key>>
            /\ wpc[r][w] = "install"
        BY <2>11, <3>2 DEF Install
      <4> QED
        BY <2>a, <2>b, <2>c, <4>1, MoveKeepsFlow DEF HandsOn, WorkerPCs
    <3>3. CASE table[r][k] = NoEntry /\ Full(r)
      <4>1. PICK old \in Installed(r) : victim' = [victim EXCEPT ![r][w] = table[r][old]]
        BY <2>11, <3>3 DEF Install, LeastRecentlySeen
      <4>2. table[r][old] \in Entries
        BY <4>1 DEF Installed
      <4>3. /\ victim'[r][w] = table[r][old]
            /\ \A s \in Relays, v \in Workers : s # r \/ v # w => victim'[s][v] = victim[s][v]
        BY <4>1
      <4>4. Goto(r, w, "evict") /\ UNCHANGED <<went, wkey, owner, key>>
        BY <2>11, <3>3 DEF Install
      <4>5. e \in Entries /\ owner[e] = r /\ key[e] = k
        BY <2>11, <2>a DEF Install, HandsOn
      <4> QED
        BY <2>c, <4>2, <4>3, <4>4, <4>5, MoveKeepsFlow DEF WorkerPCs
    <3> QED
      BY <3>1, <3>2, <3>3
  <2>12. CASE CloseVictim(r, w)
    <3>1. /\ Goto(r, w, "redone") /\ victim' = [victim EXCEPT ![r][w] = NoEntry]
          /\ UNCHANGED <<went, wkey, owner, key>> /\ wpc[r][w] = "evict"
      BY <2>12 DEF CloseVictim
    <3>2. /\ victim'[r][w] = NoEntry
          /\ \A s \in Relays, v \in Workers : s # r \/ v # w => victim'[s][v] = victim[s][v]
      BY <3>1
    <3> QED
      BY <2>a, <2>c, <3>1, <3>2, MoveKeepsFlow DEF HandsOn, WorkerPCs
  <2>13. CASE RecheckDone(r, w)
    <3>1. CASE Done(r)
      <4>1. /\ Goto(r, w, "undo") /\ UNCHANGED <<went, wkey, victim, owner, key>>
            /\ wpc[r][w] = "redone"
        BY <2>13, <3>1 DEF RecheckDone
      <4> QED
        BY <2>a, <2>b, <2>c, <4>1, MoveKeepsFlow DEF HandsOn, WorkerPCs
    <3>2. CASE ~Done(r)
      BY <2>13, <2>0, <2>a, <3>2, FinishKeepsFlow DEF RecheckDone, HandsOn
    <3> QED
      BY <3>1, <3>2
  <2>14. CASE Undo(r, w)
    BY <2>14, FinishKeepsFlow DEF Undo
  <2>15. CASE Write(r, w)
    <3>1. CASE Goto(r, w, "touch") /\ UNCHANGED went
      BY <2>15, <2>a, <2>b, <2>c, <3>1, MoveKeepsFlow DEF Write, HandsOn, WorkerPCs
    <3>2. CASE Goto(r, w, "idle") /\ went' = [went EXCEPT ![r][w] = NoEntry]
      BY <2>15, <2>b, <2>c, <3>2, MoveKeepsFlow DEF Write, HandsOn, WorkerPCs
    <3> QED
      BY <2>15, <3>1, <3>2 DEF Write
  <2>16. CASE Touch(r, w)
    BY <2>16, <2>b, <2>c, MoveKeepsFlow DEF Touch, HandsOn, WorkerPCs
  <2> QED
    BY <1>3, <2>1, <2>2, <2>3, <2>4, <2>5, <2>6, <2>7, <2>8, <2>9, <2>10, <2>11, <2>12,
       <2>13, <2>14, <2>15, <2>16 DEF WorkerStep
<1>4. ASSUME NEW e \in Entries, ReverseStep(e) PROVE WorkerFlow'
    BY <1>1, <1>4 DEF ReverseStep, Receive, Discard, ReadError, ReadTimeout, ReverseCloses,
       ReverseDeletes
<1>5. CASE Tick
    BY <1>1, <1>5 DEF Tick
<1>6. CASE UNCHANGED vars
    BY <1>1, <1>6 DEF vars
<1> QED
    BY <1>2, <1>3, <1>4, <1>5, <1>6 DEF Next

(***************************************************************************)
(* Dials under way.                                                        *)
(***************************************************************************)
\* A step that starts and ends no dial, and puts no entry being dialled anywhere,
\* keeps every dial private.
LEMMA QuietKeepsDialing ==
    ASSUME TypeOK, WorkerFlow, DialingIsPrivate, UNCHANGED owner,
           \A e \in Entries : state'[e] = "dialing" <=> state[e] = "dialing",
           \A e \in Entries : state[e] = "dialing" =>
               /\ rev'[e] = "none"
               /\ \A s \in Relays : e \notin drained'[s]
               /\ \A s \in Relays, k \in Keys : table'[s][k] # e
               /\ \A s \in Relays, v \in Workers : victim'[s][v] # e,
           \A s \in Relays, v \in Workers :
               \/ wpc'[s][v] = wpc[s][v] /\ went'[s][v] = went[s][v]
               \/ /\ wpc[s][v] # "dial" /\ wpc'[s][v] # "dial"
                  /\ \A e \in Entries : state[e] = "dialing" => went'[s][v] # e
    PROVE  DialingIsPrivate'
<1>0. \A e \in Entries : owner[e] \in Relays
    BY DEF TypeOK, EntryTypeOK
<1>1. \A s \in Relays, v \in Workers : wpc'[s][v] = "dial" =>
         wpc[s][v] = "dial" /\ went'[s][v] = went[s][v] /\ state'[went'[s][v]] = "dialing"
  <2> SUFFICES ASSUME NEW s \in Relays, NEW v \in Workers, wpc'[s][v] = "dial"
               PROVE  /\ wpc[s][v] = "dial" /\ went'[s][v] = went[s][v]
                      /\ state'[went'[s][v]] = "dialing"
    OBVIOUS
  <2>1. wpc[s][v] = "dial" /\ went'[s][v] = went[s][v] /\ state[went[s][v]] = "dialing"
    BY DEF DialingIsPrivate
  <2>2. went[s][v] \in Entries
    BY <2>1 DEF WorkerFlow, HandsOn
  <2> QED
    BY <2>1, <2>2
<1>2. ASSUME NEW e \in Entries, state'[e] = "dialing"
      PROVE  /\ rev'[e] = "none"
             /\ \A r \in Relays : e \notin drained'[r]
             /\ \A r \in Relays, k \in Keys : table'[r][k] # e
             /\ \A r \in Relays, w \in Workers : victim'[r][w] # e
             /\ \A r \in Relays, w \in Workers : went'[r][w] = e => wpc'[r][w] = "dial"
             /\ \E w \in Workers : wpc'[owner'[e]][w] = "dial" /\ went'[owner'[e]][w] = e
  <2>1. state[e] = "dialing"
    BY <1>2
  <2>2. \A r \in Relays, w \in Workers : went'[r][w] = e => wpc'[r][w] = "dial"
    BY <2>1 DEF DialingIsPrivate
  <2>3. \E w \in Workers : wpc'[owner'[e]][w] = "dial" /\ went'[owner'[e]][w] = e
    BY <1>0, <2>1 DEF DialingIsPrivate
  <2> QED
    BY <2>1, <2>2, <2>3
<1>3. \A r \in Relays, v, w \in Workers :
         wpc'[r][v] = "dial" /\ wpc'[r][w] = "dial" /\ went'[r][v] = went'[r][w] => v = w
    BY <1>1 DEF DialingIsPrivate
<1> QED
    BY <1>1, <1>2, <1>3 DEF DialingIsPrivate

\* A worker's step leaves every entry being dialled to the worker that dials it.
LEMMA DialingWorkerStep ==
    ASSUME TypeOK, WorkerFlow, DialingIsPrivate, NEW r \in Relays, NEW w \in Workers,
           WorkerStep(r, w)
    PROVE  DialingIsPrivate'
<1> USE DEF TypeOK, RelayTypeOK, WorkerTypeOK, EntryTypeOK, handlerVars, poolVars, workerVars,
        idVars, entryVars
<1> DEFINE k == wkey[r][w]
           e == went[r][w]
           Dialed(f) == f \in Entries /\ state[f] = "dialing"
<1>0. \A f \in Entries : state[f] = "dialing" =>
         /\ rev[f] = "none"
         /\ \A s \in Relays : f \notin drained[s]
         /\ \A s \in Relays, l \in Keys : table[s][l] # f
         /\ \A s \in Relays, v \in Workers : victim[s][v] # f
         /\ \A s \in Relays, v \in Workers : went[s][v] = f => wpc[s][v] = "dial"
    BY DEF DialingIsPrivate
<1>a. /\ k \in Keys /\ e \in Entries \cup {NoEntry}
      /\ table[r][k] \in Entries \cup {NoEntry} /\ ~Dialed(table[r][k]) /\ ~Dialed(NoEntry)
    BY <1>0, EntryIds
<1>b. wpc[r][w] \in HandsOn => e \in Entries /\ owner[e] = r
    BY DEF WorkerFlow
<1>c. wpc[r][w] # "dial" => ~Dialed(e)
    BY <1>0
<1> HIDE DEF k
\* Steps of one worker that neither starts nor ends a dial.
<1>d. ASSUME NEW pc \in WorkerPCs, Goto(r, w, pc), pc # "dial", wpc[r][w] # "dial",
             \A s \in Relays, v \in Workers : s # r \/ v # w => went'[s][v] = went[s][v],
             ~Dialed(went'[r][w])
      PROVE  \A s \in Relays, v \in Workers :
                \/ wpc'[s][v] = wpc[s][v] /\ went'[s][v] = went[s][v]
                \/ /\ wpc[s][v] # "dial" /\ wpc'[s][v] # "dial"
                   /\ \A f \in Entries : state[f] = "dialing" => went'[s][v] # f
  <2>1. /\ wpc'[r][w] = pc
        /\ \A s \in Relays, v \in Workers : s # r \/ v # w => wpc'[s][v] = wpc[s][v]
    BY <1>d, GotoFacts
  <2> QED
    BY <1>d, <2>1
<1>e. ASSUME NEW f \in Entries \cup {NoEntry}, Finish(r, w, f), wpc[r][w] # "dial", ~Dialed(f)
      PROVE  \A s \in Relays, v \in Workers :
                \/ wpc'[s][v] = wpc[s][v] /\ went'[s][v] = went[s][v]
                \/ /\ wpc[s][v] # "dial" /\ wpc'[s][v] # "dial"
                   /\ \A g \in Entries : state[g] = "dialing" => went'[s][v] # g
  <2>1. /\ \A v \in Answered(r, w) :
              /\ went'[r][v] = f
              /\ wpc'[r][v] = IF f = NoEntry THEN "idle" ELSE "write"
        /\ \A s \in Relays, v \in Workers : s # r \/ v \notin Answered(r, w) =>
              wpc'[s][v] = wpc[s][v] /\ went'[s][v] = went[s][v]
    BY <1>e, FinishFacts
  <2>2. \A v \in Answered(r, w) : wpc[r][v] # "dial" /\ wpc'[r][v] # "dial"
    BY <1>e, <2>1 DEF Answered
  <2> QED
    BY <1>e, <2>1, <2>2
<1>f. ASSUME UNCHANGED <<victim, drained, table, state, owner, rev>>,
             \A s \in Relays, v \in Workers :
                \/ wpc'[s][v] = wpc[s][v] /\ went'[s][v] = went[s][v]
                \/ /\ wpc[s][v] # "dial" /\ wpc'[s][v] # "dial"
                   /\ \A f \in Entries : state[f] = "dialing" => went'[s][v] # f
      PROVE  DialingIsPrivate'
    BY <1>0, <1>f, QuietKeepsDialing
<1> HIDE DEF Dialed
<1>1. CASE Take(r, w)
  <2>1. UNCHANGED <<went, victim, drained, table, state, owner, rev>> /\ wpc[r][w] = "idle"
    BY <1>1 DEF Take
  <2>2. UNCHANGED wpc \/ Goto(r, w, "check")
    BY <1>1 DEF Take
  <2> QED
    BY <1>c, <1>d, <1>f, <2>1, <2>2 DEF WorkerPCs
<1>2. CASE WorkerExits(r, w)
    BY <1>2, <1>c, <1>d, <1>f DEF WorkerExits, WorkerPCs
<1>3. CASE CheckDone(r, w)
    BY <1>3, <1>c, <1>d, <1>f DEF CheckDone, WorkerPCs
<1>4. CASE Load(r, w)
  <2>1. /\ went'[r][w] = table[r][k]
        /\ \A s \in Relays, v \in Workers : s # r \/ v # w => went'[s][v] = went[s][v]
    BY <1>4 DEF Load, k
  <2>2. UNCHANGED <<victim, drained, table, state, owner, rev>> /\ wpc[r][w] = "load"
    BY <1>4 DEF Load
  <2>3. Goto(r, w, "join") \/ Goto(r, w, "write")
    BY <1>4 DEF Load
  <2> QED
    BY <1>a, <1>d, <1>f, <2>1, <2>2, <2>3 DEF WorkerPCs
<1>5. CASE Join(r, w)
  <2>1. Goto(r, w, "recheck") \/ Goto(r, w, "wait")
    BY <1>5 DEF Join
  <2> QED
    BY <1>5, <1>c, <1>d, <1>f, <2>1 DEF Join, WorkerPCs
<1>6. CASE Recheck(r, w)
  <2>1. UNCHANGED <<victim, drained, table, state, owner, rev>> /\ wpc[r][w] = "recheck"
    BY <1>6 DEF Recheck
  <2>2. (Goto(r, w, "acquire") /\ UNCHANGED went) \/ Finish(r, w, table[r][k])
    BY <1>6 DEF Recheck, k
  <2> QED
    BY <1>a, <1>c, <1>d, <1>e, <1>f, <2>1, <2>2 DEF WorkerPCs
<1>7. CASE Refused(r, w)
    BY <1>7, <1>a, <1>e, <1>f DEF Refused
<1>15. CASE Write(r, w)
  <2>1. UNCHANGED <<victim, drained, table, state, owner, rev>> /\ wpc[r][w] = "write"
    BY <1>15 DEF Write
  <2>2. CASE Goto(r, w, "touch") /\ UNCHANGED went
    BY <1>c, <1>d, <1>f, <2>1, <2>2 DEF WorkerPCs
  <2>3. CASE Goto(r, w, "idle") /\ went' = [went EXCEPT ![r][w] = NoEntry]
    BY <1>a, <1>d, <1>f, <2>1, <2>3 DEF WorkerPCs
  <2> QED
    BY <1>15, <2>2, <2>3 DEF Write
<1>16. CASE Touch(r, w)
  <2>1. UNCHANGED <<victim, drained, table, state, owner, rev>> /\ wpc[r][w] = "touch"
    BY <1>16 DEF Touch
  <2>2. Goto(r, w, "idle") /\ went' = [went EXCEPT ![r][w] = NoEntry]
    BY <1>16 DEF Touch
  <2> QED
    BY <1>a, <1>d, <1>f, <2>1, <2>2 DEF WorkerPCs
<1>8. CASE AcquireToken(r, w)
  <2>1. PICK f \in FreeEntries :
           /\ state' = [state EXCEPT ![f] = "dialing"]
           /\ owner' = [owner EXCEPT ![f] = r]
           /\ went' = [went EXCEPT ![r][w] = f]
    BY <1>8 DEF AcquireToken
  <2>2. /\ f \in Entries /\ state[f] = "closed" /\ rev[f] = "none"
        /\ \A s \in Relays : f \notin drained[s]
        /\ \A s \in Relays, l \in Keys : table[s][l] # f
        /\ \A s \in Relays, v \in Workers : victim[s][v] # f /\ went[s][v] # f
    BY <2>1 DEF FreeEntries, Referenced
  <2>3. /\ wpc'[r][w] = "dial" /\ went'[r][w] = f /\ state'[f] = "dialing" /\ owner'[f] = r
        /\ \A s \in Relays, v \in Workers : s # r \/ v # w =>
              wpc'[s][v] = wpc[s][v] /\ went'[s][v] = went[s][v]
        /\ \A g \in Entries : g # f => state'[g] = state[g] /\ owner'[g] = owner[g]
        /\ UNCHANGED <<victim, drained, table, rev>>
        /\ wpc[r][w] = "acquire"
    BY <1>8, <2>1, <2>2, GotoFacts DEF AcquireToken, WorkerPCs
  <2>4. \A s \in Relays, v \in Workers : wpc'[s][v] = "dial" => state'[went'[s][v]] = "dialing"
    <3> SUFFICES ASSUME NEW s \in Relays, NEW v \in Workers, wpc'[s][v] = "dial"
                 PROVE  state'[went'[s][v]] = "dialing"
      OBVIOUS
    <3>1. CASE s = r /\ v = w
      BY <2>3, <3>1
    <3>2. CASE s # r \/ v # w
      <4>1. wpc[s][v] = "dial" /\ went'[s][v] = went[s][v]
        BY <2>3, <3>2
      <4>2. went[s][v] \in Entries /\ state[went[s][v]] = "dialing" /\ went[s][v] # f
        BY <2>2, <4>1 DEF WorkerFlow, HandsOn, DialingIsPrivate
      <4> QED
        BY <2>3, <4>1, <4>2
    <3> QED
      BY <3>1, <3>2
  <2>5. \A s \in Relays, u, v \in Workers :
           wpc'[s][u] = "dial" /\ wpc'[s][v] = "dial" /\ went'[s][u] = went'[s][v] => u = v
    <3> SUFFICES ASSUME NEW s \in Relays, NEW u \in Workers, NEW v \in Workers,
                        wpc'[s][u] = "dial", wpc'[s][v] = "dial", went'[s][u] = went'[s][v],
                        u # v
                 PROVE  FALSE
      OBVIOUS
    <3>1. CASE s # r \/ (u # w /\ v # w)
      BY <2>3, <3>1 DEF DialingIsPrivate
    <3>2. CASE s = r /\ u = w
      BY <2>2, <2>3, <3>2
    <3>3. CASE s = r /\ v = w
      BY <2>2, <2>3, <3>3
    <3> QED
      BY <3>1, <3>2, <3>3
  <2>6. ASSUME NEW g \in Entries, state'[g] = "dialing"
        PROVE  /\ rev'[g] = "none"
               /\ \A s \in Relays : g \notin drained'[s]
               /\ \A s \in Relays, l \in Keys : table'[s][l] # g
               /\ \A s \in Relays, v \in Workers : victim'[s][v] # g
               /\ \A s \in Relays, v \in Workers : went'[s][v] = g => wpc'[s][v] = "dial"
               /\ \E v \in Workers : wpc'[owner'[g]][v] = "dial" /\ went'[owner'[g]][v] = g
    <3>1. CASE g = f
      <4>1. \A s \in Relays, v \in Workers : went'[s][v] = g => s = r /\ v = w
        BY <2>2, <2>3, <3>1
      <4>2. wpc'[owner'[g]][w] = "dial" /\ went'[owner'[g]][w] = g
        BY <2>3, <3>1
      <4>3. /\ rev'[g] = "none"
            /\ \A s \in Relays : g \notin drained'[s]
            /\ \A s \in Relays, l \in Keys : table'[s][l] # g
            /\ \A s \in Relays, v \in Workers : victim'[s][v] # g
        BY <2>2, <2>3, <3>1
      <4> QED
        BY <2>3, <4>1, <4>2, <4>3
    <3>2. CASE g # f
      <4>1. state[g] = "dialing" /\ owner'[g] = owner[g] /\ owner[g] \in Relays
        BY <2>3, <2>6, <3>2
      <4>2. PICK v \in Workers : wpc[owner[g]][v] = "dial" /\ went[owner[g]][v] = g
        BY <4>1 DEF DialingIsPrivate
      <4>a. owner[g] # r \/ v # w
        BY <2>3, <4>2
      <4>3. wpc'[owner'[g]][v] = "dial" /\ went'[owner'[g]][v] = g
        BY <2>3, <4>1, <4>2, <4>a
      <4>b. \A s \in Relays, u \in Workers : went[s][u] = g => wpc[s][u] = "dial"
        BY <1>0, <4>1
      <4>4. ASSUME NEW s \in Relays, NEW u \in Workers, went'[s][u] = g
            PROVE  wpc'[s][u] = "dial"
        <5>1. s # r \/ u # w
          BY <2>3, <3>2, <4>4
        <5> QED
          BY <2>3, <4>4, <4>b, <5>1
      <4> QED
        BY <1>0, <2>3, <4>1, <4>3, <4>4
    <3> QED
      BY <3>1, <3>2
  <2> QED
    BY <2>4, <2>5, <2>6 DEF DialingIsPrivate
\* Steps that end the dial of e.
<1>g. ASSUME wpc[r][w] = "dial", e \in Entries, state'[e] # "dialing",
             \A f \in Entries : f # e => state'[f] = state[f],
             UNCHANGED <<victim, drained, table, owner, rev>>,
             wpc'[r][w] # "dial",
             \A s \in Relays, v \in Workers : s # r \/ v # w =>
                \/ wpc'[s][v] = wpc[s][v] /\ went'[s][v] = went[s][v]
                \/ /\ wpc[s][v] # "dial" /\ wpc'[s][v] # "dial"
                   /\ \A f \in Entries : state[f] = "dialing" => went'[s][v] # f,
             went'[r][w] \in {e, NoEntry}
      PROVE  DialingIsPrivate'
  <2>1. \A s \in Relays, v \in Workers : wpc'[s][v] = "dial" =>
           /\ wpc[s][v] = "dial" /\ went'[s][v] = went[s][v]
           /\ state'[went'[s][v]] = "dialing"
    <3> SUFFICES ASSUME NEW s \in Relays, NEW v \in Workers, wpc'[s][v] = "dial"
                 PROVE  /\ wpc[s][v] = "dial" /\ went'[s][v] = went[s][v]
                        /\ state'[went'[s][v]] = "dialing"
      OBVIOUS
    <3>1. s # r \/ v # w
      BY <1>g
    <3>2. wpc[s][v] = "dial" /\ went'[s][v] = went[s][v]
      BY <1>g, <3>1
    <3>3. /\ went[s][v] \in Entries /\ owner[went[s][v]] = s
          /\ state[went[s][v]] = "dialing" /\ owner[e] = r
      BY <1>g, <3>2 DEF WorkerFlow, HandsOn, DialingIsPrivate
    <3>4. went[s][v] # e
      BY <1>g, <3>1, <3>2, <3>3 DEF DialingIsPrivate
    <3> QED
      BY <1>g, <3>2, <3>3, <3>4
  <2>2. \A s \in Relays, u, v \in Workers :
           wpc'[s][u] = "dial" /\ wpc'[s][v] = "dial" /\ went'[s][u] = went'[s][v] => u = v
    BY <2>1 DEF DialingIsPrivate
  <2>3. ASSUME NEW g \in Entries, state'[g] = "dialing"
        PROVE  /\ rev'[g] = "none"
               /\ \A s \in Relays : g \notin drained'[s]
               /\ \A s \in Relays, l \in Keys : table'[s][l] # g
               /\ \A s \in Relays, v \in Workers : victim'[s][v] # g
               /\ \A s \in Relays, v \in Workers : went'[s][v] = g => wpc'[s][v] = "dial"
               /\ \E v \in Workers : wpc'[owner'[g]][v] = "dial" /\ went'[owner'[g]][v] = g
    <3>1. g # e /\ state[g] = "dialing" /\ owner[g] \in Relays /\ g # NoEntry
      BY <1>g, <2>3, EntryIds
    <3>2. PICK v \in Workers : wpc[owner[g]][v] = "dial" /\ went[owner[g]][v] = g
      BY <3>1 DEF DialingIsPrivate
    <3>3. owner[g] # r \/ v # w
      BY <3>1, <3>2
    <3>4. wpc'[owner'[g]][v] = "dial" /\ went'[owner'[g]][v] = g
      BY <1>g, <3>1, <3>2, <3>3
    <3>a. \A s \in Relays, u \in Workers : went[s][u] = g => wpc[s][u] = "dial"
      BY <1>0, <3>1
    <3>5. ASSUME NEW s \in Relays, NEW u \in Workers, went'[s][u] = g
          PROVE  wpc'[s][u] = "dial"
      <4>1. s # r \/ u # w
        BY <1>g, <3>1, <3>5
      <4>2. \/ wpc'[s][u] = wpc[s][u] /\ went'[s][u] = went[s][u]
            \/ \A f \in Entries : state[f] = "dialing" => went'[s][u] # f
        BY <1>g, <4>1
      <4> QED
        BY <3>1, <3>5, <3>a, <4>2
    <3> QED
      BY <1>0, <1>g, <3>1, <3>4, <3>5
  <2> QED
    BY <2>1, <2>2, <2>3 DEF DialingIsPrivate
<1>9. CASE DialFails(r, w)
  <2>1. /\ wpc[r][w] = "dial" /\ e \in Entries /\ Finish(r, w, NoEntry)
        /\ state' = [state EXCEPT ![e] = "closed"]
        /\ UNCHANGED <<victim, drained, table, owner, rev>>
    BY <1>9, <1>b DEF DialFails, HandsOn
  <2>2. /\ \A v \in Answered(r, w) : went'[r][v] = NoEntry /\ wpc'[r][v] = "idle"
        /\ \A s \in Relays, v \in Workers : s # r \/ v \notin Answered(r, w) =>
              wpc'[s][v] = wpc[s][v] /\ went'[s][v] = went[s][v]
    BY <2>1, FinishFacts
  <2>3. w \in Answered(r, w) /\ \A v \in Answered(r, w) : v # w => wpc[r][v] # "dial"
    BY DEF Answered
  <2>4. \A s \in Relays, v \in Workers : s # r \/ v # w =>
           \/ wpc'[s][v] = wpc[s][v] /\ went'[s][v] = went[s][v]
           \/ /\ wpc[s][v] # "dial" /\ wpc'[s][v] # "dial"
              /\ \A f \in Entries : state[f] = "dialing" => went'[s][v] # f
    BY <2>2, <2>3, EntryIds
  <2> QED
    BY <1>g, <2>1, <2>2, <2>3, <2>4
<1>10. CASE DialSucceeds(r, w)
  <2>1. /\ wpc[r][w] = "dial" /\ e \in Entries /\ Goto(r, w, "install")
        /\ state' = [state EXCEPT ![e] = "open"]
        /\ UNCHANGED <<went, victim, drained, table, owner, rev>>
    BY <1>10, <1>b DEF DialSucceeds, HandsOn
  <2>2. /\ wpc'[r][w] = "install"
        /\ \A s \in Relays, v \in Workers : s # r \/ v # w => wpc'[s][v] = wpc[s][v]
    BY <2>1, GotoFacts DEF WorkerPCs
  <2> QED
    BY <1>g, <2>1, <2>2
\* Steps of a worker in Creating.
<1>h. ASSUME \A s \in Relays, v \in Workers :
                \/ wpc'[s][v] = wpc[s][v] /\ went'[s][v] = went[s][v]
                \/ /\ wpc[s][v] # "dial" /\ wpc'[s][v] # "dial"
                   /\ \A f \in Entries : state[f] = "dialing" => went'[s][v] # f,
             \A f \in Entries : state'[f] = "dialing" <=> state[f] = "dialing",
             \A f \in Entries : state[f] = "dialing" => rev'[f] = rev[f],
             \A f \in Entries : state[f] = "dialing" =>
                \A s \in Relays, l \in Keys : table'[s][l] # f,
             \A f \in Entries : state[f] = "dialing" =>
                \A s \in Relays, v \in Workers : victim'[s][v] # f,
             UNCHANGED <<drained, owner>>
      PROVE  DialingIsPrivate'
    BY <1>0, <1>h, QuietKeepsDialing
<1>11. CASE Install(r, w)
  <2>1. /\ wpc[r][w] = "install" /\ e \in Entries /\ ~Dialed(e)
        /\ UNCHANGED <<drained, owner, rev>>
    BY <1>11, <1>b, <1>c DEF Install, HandsOn
  <2>2. CASE table[r][k] # NoEntry
    <3>1. CloseEntry(e) /\ Finish(r, w, table[r][k]) /\ UNCHANGED <<victim, table>>
      BY <1>11, <2>2 DEF Install, k
    <3>2. \A f \in Entries : state'[f] = "dialing" <=> state[f] = "dialing"
      BY <2>1, <3>1, CloseEntryFacts DEF Dialed
    <3> QED
      BY <1>0, <1>a, <1>e, <1>h, <2>1, <3>1, <3>2
  <2>3. CASE table[r][k] = NoEntry /\ ~Full(r)
    <3>1. /\ table' = [table EXCEPT ![r][k] = e] /\ Goto(r, w, "redone")
          /\ UNCHANGED <<went, victim, flight, state, nat>>
      BY <1>11, <2>3 DEF Install, k
    <3>2. \A f \in Entries : state[f] = "dialing" =>
             \A s \in Relays, l \in Keys : table'[s][l] # f
      BY <1>0, <1>a, <2>1, <3>1 DEF Dialed
    <3> QED
      BY <1>0, <1>d, <1>h, <2>1, <3>1, <3>2 DEF WorkerPCs
  <2>4. CASE table[r][k] = NoEntry /\ Full(r)
    <3>1. PICK old \in Keys :
             /\ table' = [table EXCEPT ![r] = [@ EXCEPT ![old] = NoEntry, ![k] = e]]
             /\ victim' = [victim EXCEPT ![r][w] = table[r][old]]
      BY <1>11, <2>4 DEF Install, LeastRecentlySeen, Installed, k
    <3>2. Goto(r, w, "evict") /\ UNCHANGED <<went, flight, state, nat>>
      BY <1>11, <2>4 DEF Install, k
    <3>3. \A f \in Entries : state[f] = "dialing" =>
             \A s \in Relays, l \in Keys : table'[s][l] # f
      BY <1>0, <1>a, <2>1, <3>1, EntryIds DEF Dialed
    <3>4. \A f \in Entries : state[f] = "dialing" =>
             \A s \in Relays, v \in Workers : victim'[s][v] # f
      BY <1>0, <3>1
    <3> QED
      BY <1>d, <1>h, <2>1, <3>2, <3>3, <3>4 DEF WorkerPCs
  <2> QED
    BY <2>2, <2>3, <2>4
<1>12. CASE CloseVictim(r, w)
  <2>1. /\ wpc[r][w] = "evict" /\ CloseEntry(victim[r][w]) /\ Goto(r, w, "redone")
        /\ victim' = [victim EXCEPT ![r][w] = NoEntry]
        /\ UNCHANGED <<went, drained, table, owner, rev>>
    BY <1>12 DEF CloseVictim
  <2>2. victim[r][w] \in Entries /\ ~Dialed(victim[r][w])
    BY <1>0, <2>1 DEF WorkerFlow, Dialed
  <2>3. \A f \in Entries : state'[f] = "dialing" <=> state[f] = "dialing"
    BY <2>1, <2>2, CloseEntryFacts DEF Dialed
  <2>4. \A f \in Entries : state[f] = "dialing" =>
           \A s \in Relays, v \in Workers : victim'[s][v] # f
    BY <1>0, <2>1, EntryIds
  <2> QED
    BY <1>0, <1>c, <1>d, <1>h, <2>1, <2>3, <2>4 DEF WorkerPCs
<1>13. CASE RecheckDone(r, w)
  <2>1. /\ wpc[r][w] = "redone" /\ e \in Entries /\ ~Dialed(e)
        /\ UNCHANGED <<victim, drained, owner, state>>
    BY <1>13, <1>b, <1>c DEF RecheckDone, HandsOn
  <2>2. CASE Done(r)
    <3>1. DeleteIf(r, k, e) /\ Goto(r, w, "undo") /\ UNCHANGED <<went, flight, rev, left>>
      BY <1>13, <2>2 DEF RecheckDone, k
    <3>2. \A s \in Relays, l \in Keys : table'[s][l] \in {NoEntry, table[s][l]}
      BY <1>a, <2>1, <3>1, DeleteIfFacts
    <3>3. \A f \in Entries : state[f] = "dialing" =>
             \A s \in Relays, l \in Keys : table'[s][l] # f
      BY <1>0, <3>2, EntryIds
    <3> QED
      BY <1>0, <1>d, <1>h, <2>1, <3>1, <3>3 DEF WorkerPCs
  <2>3. CASE ~Done(r)
    <3>1. rev' = [rev EXCEPT ![e] = "read"] /\ Finish(r, w, e) /\ UNCHANGED table
      BY <1>13, <2>3 DEF RecheckDone
    <3>2. \A f \in Entries : state[f] = "dialing" => rev'[f] = rev[f]
      BY <2>1, <3>1 DEF Dialed
    <3> QED
      BY <1>0, <1>e, <1>h, <2>1, <3>1, <3>2
  <2> QED
    BY <2>2, <2>3
<1>14. CASE Undo(r, w)
  <2>1. /\ wpc[r][w] = "undo" /\ e \in Entries /\ ~Dialed(e) /\ CloseEntry(e)
        /\ Finish(r, w, NoEntry) /\ UNCHANGED <<victim, drained, table, owner, rev>>
    BY <1>14, <1>b, <1>c DEF Undo, HandsOn
  <2>2. \A f \in Entries : state'[f] = "dialing" <=> state[f] = "dialing"
    BY <2>1, CloseEntryFacts DEF Dialed
  <2> QED
    BY <1>0, <1>a, <1>e, <1>h, <2>1, <2>2
<1> QED
    BY <1>1, <1>2, <1>3, <1>4, <1>5, <1>6, <1>7, <1>8, <1>9, <1>10, <1>11, <1>12, <1>13,
       <1>14, <1>15, <1>16 DEF WorkerStep

\* Nobody gets hold of an entry before its dial is over.
LEMMA DialingStep ==
    ASSUME TypeOK, WorkerFlow, Lifecycle, DialingIsPrivate, [Next]_vars
    PROVE  DialingIsPrivate'
<1> USE DEF TypeOK, RelayTypeOK, WorkerTypeOK, EntryTypeOK, handlerVars, poolVars, workerVars,
        idVars, entryVars
<1>0. \A e \in Entries : state[e] = "dialing" =>
         /\ rev[e] = "none"
         /\ \A s \in Relays : e \notin drained[s]
         /\ \A s \in Relays, k \in Keys : table[s][k] # e
         /\ \A s \in Relays, v \in Workers : victim[s][v] # e
         /\ \A s \in Relays, v \in Workers : went[s][v] = e => wpc[s][v] = "dial"
    BY DEF DialingIsPrivate
<1>1. ASSUME UNCHANGED <<wpc, went, victim, drained, table, state, owner, rev>>
      PROVE  DialingIsPrivate'
    BY <1>1 DEF DialingIsPrivate
<1>2. ASSUME NEW r \in Relays, RelayStep(r) PROVE DialingIsPrivate'
  <2>1. CASE Reply(r)
    <3>1. \A v \in Workers : wpc[r][v] = "exited"
      BY <2>1 DEF Reply, Lifecycle
    <3>2. \A s \in Relays, v \in Workers :
             \/ wpc'[s][v] = wpc[s][v] /\ went'[s][v] = went[s][v]
             \/ /\ wpc[s][v] # "dial" /\ wpc'[s][v] # "dial"
                /\ \A e \in Entries : state[e] = "dialing" => went'[s][v] # e
      BY <1>0, <2>1, <3>1 DEF Reply
    <3> QED
      BY <1>0, <2>1, <3>2, QuietKeepsDialing DEF Reply
  <2>2. CASE Drain(r)
    <3>1. \A e \in Entries : state[e] = "dialing" =>
             /\ \A s \in Relays : e \notin drained'[s]
             /\ \A s \in Relays, k \in Keys : table'[s][k] # e
      BY <1>0, <2>2, EntryIds DEF Drain, Installed
    <3> QED
      BY <1>0, <2>2, <3>1, QuietKeepsDialing DEF Drain
  <2>3. ASSUME NEW e \in Entries, CloseDrained(r, e) PROVE DialingIsPrivate'
    <3>1. state[e] # "dialing" /\ CloseEntry(e)
      BY <1>0, <2>3 DEF CloseDrained
    <3>2. \A f \in Entries : state'[f] = "dialing" <=> state[f] = "dialing"
      BY <3>1, CloseEntryFacts
    <3>3. \A s \in Relays : drained'[s] \subseteq drained[s]
      BY <2>3 DEF CloseDrained
    <3> QED
      BY <1>0, <2>3, <3>2, <3>3, QuietKeepsDialing DEF CloseDrained
  <2>4. CASE ~Reply(r) /\ ~Drain(r) /\ ~\E e \in Entries : CloseDrained(r, e)
    BY <1>1, <1>2, <2>4 DEF RelayStep, Associate, ListenFails, Listen, ReplyFails,
       ControlClosed, HandlerReturns, CloseDone, CloseSocket, ReleaseAssociation,
       ReadDatagram, ReaderStops, WorkersJoined, RunReturns
  <2> QED
    BY <2>1, <2>2, <2>3, <2>4
<1>4. ASSUME NEW e \in Entries, ReverseStep(e) PROVE DialingIsPrivate'
  <2>0. ASSUME rev[e] # "none", \A f \in Entries : f # e => rev'[f] = rev[f],
               \A f \in Entries : state'[f] = "dialing" <=> state[f] = "dialing",
               \A s \in Relays, k \in Keys : table'[s][k] \in {NoEntry, table[s][k]},
               UNCHANGED <<wpc, went, victim, drained, owner>>
        PROVE  DialingIsPrivate'
    BY <1>0, <2>0, EntryIds, QuietKeepsDialing
  <2>1. CASE Receive(e)
    <3>1. \A f \in Entries : f # e => rev'[f] = rev[f]
      BY <2>1 DEF Receive
    <3> QED
      BY <2>0, <2>1, <3>1 DEF Receive
  <2>2. CASE Discard(e)
    BY <2>0, <2>2 DEF Discard
  <2>3. CASE ReadError(e)
    BY <2>0, <2>3 DEF ReadError
  <2>4. CASE ReadTimeout(e)
    <3>1. \A f \in Entries : f # e => rev'[f] = rev[f]
      BY <2>4 DEF ReadTimeout
    <3> QED
      BY <2>0, <2>4, <3>1 DEF ReadTimeout
  <2>5. CASE ReverseCloses(e)
    <3>1. \A f \in Entries : f # e => rev'[f] = rev[f]
      BY <2>5 DEF ReverseCloses
    <3>2. \A f \in Entries : state'[f] = "dialing" <=> state[f] = "dialing"
      BY <1>0, <2>5, CloseEntryFacts DEF ReverseCloses
    <3> QED
      BY <2>0, <2>5, <3>1, <3>2 DEF ReverseCloses
  <2>6. CASE ReverseDeletes(e)
    <3>1. \A s \in Relays, k \in Keys : table'[s][k] \in {NoEntry, table[s][k]}
      BY <2>6, DeleteIfFacts DEF ReverseDeletes
    <3> QED
      BY <2>0, <2>6, <3>1 DEF ReverseDeletes
  <2> QED
    BY <1>4, <2>1, <2>2, <2>3, <2>4, <2>5, <2>6 DEF ReverseStep
<1>5. CASE Tick
    BY <1>1, <1>5 DEF Tick
<1>6. CASE UNCHANGED vars
    BY <1>1, <1>6 DEF vars
<1>3. ASSUME NEW r \in Relays, NEW w \in Workers, WorkerStep(r, w) PROVE DialingIsPrivate'
    BY <1>3, DialingWorkerStep
<1> QED
    BY <1>2, <1>3, <1>4, <1>5, <1>6 DEF Next

(***************************************************************************)
(* The invariant and what follows from it.                                 *)
(***************************************************************************)
\* The invariant holds initially.
LEMMA FlowInit == Init => FlowInv
<1> SUFFICES ASSUME Init PROVE FlowInv
    OBVIOUS
<1>1. TypeOK
    BY TypeInit
<1>2. WorkerFlow /\ TableMatches /\ Lifecycle /\ DialingIsPrivate
    BY DEF Init, WorkerFlow, HandsOn, TableMatches, Lifecycle, DialingIsPrivate
<1> QED
    BY <1>1, <1>2 DEF FlowInv

\* Every step keeps the invariant.
LEMMA FlowStep == FlowInv /\ [Next]_vars => FlowInv'
BY TypeStep, LifecycleStep, TableMatchesStep, WorkerFlowStep, DialingStep DEF FlowInv

\* The invariant holds in every state.
THEOREM FlowInvariant == Spec => []FlowInv
BY FlowInit, FlowStep, PTL DEF Spec

\* Every variable keeps its type and the job queue never outgrows its channel,
\* whatever the goroutines of however many associations do.
THEOREM TypeCorrect == Spec => []TypeOK
<1>1. FlowInv => TypeOK
    BY DEF FlowInv
<1> QED
    BY <1>1, FlowInvariant, PTL

\* A worker writes its datagram only to a flow of its own association and its own
\* key, also when another worker created the flow and singleflight shared it.
THEOREM DatagramsStayInTheirFlow == Spec => []NoCrossTalk
<1>1. FlowInv => NoCrossTalk
    BY EntryIds DEF FlowInv, WorkerFlow, HandsOn, NoCrossTalk
<1> QED
    BY <1>1, FlowInvariant, PTL
=============================================================================
