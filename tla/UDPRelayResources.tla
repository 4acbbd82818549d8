------------------------- MODULE UDPRelayResources -------------------------
(* What a UDPRelay holds, for any number of associations, workers, flows and
   clients.  Teardown: Close's Drain races the workers' Install, and still no
   socket is left behind.  The flow table: one leader per key, and a closed flow
   is on its way out.  The limits: the limiters leak no token and take none back
   twice, and no association has more sockets than it may.                     *)
EXTENDS UDPRelayProofs


\* A reverse relay deletes its table slot only after it has closed the entry.
DeleteAfterClose == \A e \in Entries : rev[e] = "delete" => state[e] = "closed"

TableDrained(r) == closer[r] \in {"draining", "closed"}

\* Every open entry has somebody who closes it.
Covered(e) ==
    LET r == owner[e] IN
    \/ \E w \in Workers : wpc[r][w] \in {"install", "undo"} /\ went[r][w] = e
    \/ \E w \in Workers : wpc[r][w] = "evict" /\ victim[r][w] = e
    \/ e \in drained[r]
    \/ ~TableDrained(r) /\ table[r][key[e]] = e
    \/ TableDrained(r) /\ \E w \in Workers : wpc[r][w] \in {"evict", "redone"} /\ went[r][w] = e

OpenIsCovered == \A e \in Entries : state[e] = "open" => Covered(e)

\* What is installed after Drain is installed by a worker that will take it back.
LateInstallIsTemporary ==
    \A r \in Relays, k \in Keys : TableDrained(r) /\ table[r][k] # NoEntry =>
        \E w \in Workers : wpc[r][w] \in {"evict", "redone"} /\ went[r][w] = table[r][k]


\* A relay that has not started serving has an empty table.
FreshTable ==
    \A r \in Relays, k \in Keys : handler[r] \in {"listen", "reply"} => table[r][k] = NoEntry

ShutInv ==
    /\ FlowInv
    /\ DeleteAfterClose
    /\ OpenIsCovered
    /\ LateInstallIsTemporary
    /\ FreshTable

----------------------------------------------------------------------------
\* Whoever covers an entry goes on doing so, except that a worker that moves may
\* give up the entries in X.
LEMMA CoverFrame ==
    ASSUME FlowInv, OpenIsCovered, NEW X \in SUBSET Entries,
           \A e \in Entries \ X : state'[e] = "open" =>
              /\ state[e] = "open" /\ owner'[e] = owner[e] /\ key'[e] = key[e]
              /\ TableDrained(owner[e])' <=> TableDrained(owner[e])
              /\ \A s \in Relays : e \in drained[s] => e \in drained'[s]
              /\ \A s \in Relays, k \in Keys : table[s][k] = e => table'[s][k] = e,
           \A s \in Relays, v \in Workers : wpc[s][v] \in {"install", "evict", "redone", "undo"} =>
              \/ wpc'[s][v] = wpc[s][v] /\ went'[s][v] = went[s][v] /\ victim'[s][v] = victim[s][v]
              \/ \A e \in Entries \ X : e # went[s][v] /\ e # victim[s][v]
    PROVE  \A e \in Entries \ X : state'[e] = "open" => Covered(e)'
<1> SUFFICES ASSUME NEW e \in Entries \ X, state'[e] = "open" PROVE Covered(e)'
    OBVIOUS
<1> DEFINE r == owner[e]
<1>1. /\ state[e] = "open" /\ owner'[e] = r /\ key'[e] = key[e]
      /\ TableDrained(r)' <=> TableDrained(r)
      /\ e \in drained[r] => e \in drained'[r]
      /\ table[r][key[e]] = e => table'[r][key[e]] = e
      /\ r \in Relays /\ key[e] \in Keys
    BY DEF FlowInv, TypeOK, EntryTypeOK
<1>2. Covered(e)
    BY <1>1 DEF OpenIsCovered
<1>3. ASSUME NEW w \in Workers, wpc[r][w] \in {"install", "evict", "redone", "undo"},
             e \in {went[r][w], victim[r][w]}
      PROVE  wpc'[r][w] = wpc[r][w] /\ went'[r][w] = went[r][w] /\ victim'[r][w] = victim[r][w]
    BY <1>1, <1>3
<1> HIDE DEF r
<1>4. Covered(e) =
        \/ \E w \in Workers : wpc[r][w] \in {"install", "undo"} /\ went[r][w] = e
        \/ \E w \in Workers : wpc[r][w] = "evict" /\ victim[r][w] = e
        \/ e \in drained[r]
        \/ ~TableDrained(r) /\ table[r][key[e]] = e
        \/ TableDrained(r) /\ \E w \in Workers : wpc[r][w] \in {"evict", "redone"} /\ went[r][w] = e
    BY DEF Covered, r
<1>5. Covered(e)' =
        \/ \E w \in Workers : wpc'[r][w] \in {"install", "undo"} /\ went'[r][w] = e
        \/ \E w \in Workers : wpc'[r][w] = "evict" /\ victim'[r][w] = e
        \/ e \in drained'[r]
        \/ ~TableDrained(r)' /\ table'[r][key[e]] = e
        \/ TableDrained(r)' /\ \E w \in Workers : wpc'[r][w] \in {"evict", "redone"} /\ went'[r][w] = e
    BY <1>1 DEF Covered, TableDrained
<1>6. CASE \E w \in Workers : wpc[r][w] \in {"install", "undo"} /\ went[r][w] = e
    BY <1>3, <1>5, <1>6
<1>7. CASE \E w \in Workers : wpc[r][w] = "evict" /\ victim[r][w] = e
    BY <1>3, <1>5, <1>7
<1>8. CASE e \in drained[r] \/ (~TableDrained(r) /\ table[r][key[e]] = e)
    BY <1>1, <1>5, <1>8
<1>9. CASE TableDrained(r) /\ \E w \in Workers : wpc[r][w] \in {"evict", "redone"} /\ went[r][w] = e
    BY <1>1, <1>3, <1>5, <1>9
<1> QED
    BY <1>2, <1>4, <1>6, <1>7, <1>8, <1>9

\* With no exception, every open entry stays covered.
LEMMA CoverKept ==
    ASSUME FlowInv, OpenIsCovered,
           \A e \in Entries : state'[e] = "open" =>
              /\ state[e] = "open" /\ owner'[e] = owner[e] /\ key'[e] = key[e]
              /\ TableDrained(owner[e])' <=> TableDrained(owner[e])
              /\ \A s \in Relays : e \in drained[s] => e \in drained'[s]
              /\ \A s \in Relays, k \in Keys : table[s][k] = e => table'[s][k] = e,
           \A s \in Relays, v \in Workers : wpc[s][v] \in {"install", "evict", "redone", "undo"} =>
              wpc'[s][v] = wpc[s][v] /\ went'[s][v] = went[s][v] /\ victim'[s][v] = victim[s][v]
    PROVE  OpenIsCovered'
<1>1. PICK X \in SUBSET Entries : X = {}
    OBVIOUS
<1>2. \A e \in Entries \ X : state'[e] = "open" => Covered(e)'
    BY CoverFrame
<1> QED
    BY <1>1, <1>2 DEF OpenIsCovered

(***************************************************************************)
(* The steps of handler, Close and Run.                                    *)
(***************************************************************************)
\* A relay without running workers and with an empty table has no open socket.
LEMMA NothingOpen ==
    ASSUME FlowInv, OpenIsCovered, NEW r \in Relays,
           \A w \in Workers : wpc[r][w] = "exited", drained[r] = {},
           TableDrained(r) \/ \A k \in Keys : table[r][k] = NoEntry,
           NEW e \in Entries, owner[e] = r
    PROVE  state[e] # "open"
<1>1. key[e] \in Keys
    BY DEF FlowInv, TypeOK, EntryTypeOK
<1>2. ~Covered(e)
    BY <1>1, EntryIds DEF Covered
<1> QED
    BY <1>2 DEF OpenIsCovered

\* Drain hands every installed entry to Close before the table forgets it.
LEMMA CoverRelayStep ==
    ASSUME ShutInv, NEW r \in Relays, RelayStep(r)
    PROVE  OpenIsCovered'
<1> USE DEF ShutInv, FlowInv, TypeOK, RelayTypeOK, WorkerTypeOK, EntryTypeOK, handlerVars,
        poolVars, workerVars, idVars, entryVars
<1>1. ASSUME UNCHANGED <<wpc, went, victim, table, state, owner, key>>,
             \A s \in Relays : TableDrained(s)' <=> TableDrained(s),
             \A e \in Entries, s \in Relays : state'[e] = "open" /\ e \in drained[s] => e \in drained'[s]
      PROVE  OpenIsCovered'
    BY <1>1, CoverKept
\* A step that moves closer[r] when r has no open socket.
<1>2. ASSUME UNCHANGED <<wpc, went, victim, table, state, owner, key, drained>>,
             \A e \in Entries : owner[e] = r => state[e] # "open",
             \A s \in Relays \ {r} : closer'[s] = closer[s]
      PROVE  OpenIsCovered'
    BY <1>2, CoverKept DEF TableDrained
<1>3. ASSUME NEW c \in Clients, Associate(r, c) PROVE OpenIsCovered'
  <2>1. /\ \A w \in Workers : wpc[r][w] = "exited"
        /\ drained[r] = {} /\ closer[r] = "closed"
    BY <1>3 DEF Associate, Lifecycle
  <2>2. \A e \in Entries : owner[e] = r => state[e] # "open"
    BY <2>1, NothingOpen DEF TableDrained
  <2> QED
    BY <1>2, <1>3, <2>2 DEF Associate
<1>4. CASE ListenFails(r)
  <2>a. run[r] = "returned" /\ closer[r] = "open"
    BY <1>4 DEF ListenFails, Lifecycle
  <2>b. (\A w \in Workers : wpc[r][w] = "exited") /\ drained[r] = {}
    BY <2>a DEF Lifecycle
  <2>c. \A k \in Keys : table[r][k] = NoEntry
    BY <1>4 DEF ListenFails, FreshTable
  <2>1. /\ \A w \in Workers : wpc[r][w] = "exited"
        /\ drained[r] = {} /\ \A k \in Keys : table[r][k] = NoEntry
    BY <2>b, <2>c
  <2>2. \A e \in Entries : owner[e] = r => state[e] # "open"
    BY <2>1, NothingOpen
  <2> QED
    BY <1>2, <1>4, <2>2 DEF ListenFails
<1>5. CASE Reply(r)
  <2>1. \A w \in Workers : wpc[r][w] = "exited"
    BY <1>5 DEF Reply, Lifecycle
  <2>2. \A s \in Relays, v \in Workers : wpc[s][v] \in {"install", "evict", "redone", "undo"} =>
           wpc'[s][v] = wpc[s][v] /\ went'[s][v] = went[s][v] /\ victim'[s][v] = victim[s][v]
    BY <1>5, <2>1 DEF Reply
  <2> QED
    BY <1>5, <2>2, CoverKept DEF Reply, TableDrained
<1>6. CASE CloseDone(r) \/ CloseSocket(r) \/ ReleaseAssociation(r)
  <2>1. \A s \in Relays : TableDrained(s)' <=> TableDrained(s)
    BY <1>6 DEF CloseDone, CloseSocket, ReleaseAssociation, TableDrained
  <2> QED
    BY <1>1, <1>6, <2>1 DEF CloseDone, CloseSocket, ReleaseAssociation
<1>7. CASE Drain(r)
  <2> SUFFICES ASSUME NEW e \in Entries, state'[e] = "open" PROVE Covered(e)'
    BY DEF OpenIsCovered
  <2>a. /\ state[e] = "open" /\ UNCHANGED <<wpc, went, victim, owner, key>>
        /\ owner[e] \in Relays /\ key[e] \in Keys
    BY <1>7 DEF Drain
  <2>e. closer[r] = "socket" /\ closer' = [closer EXCEPT ![r] = "draining"]
    BY <1>7 DEF Drain
  <2>f. drained[r] = {}
    BY <2>e DEF Lifecycle
  <2>b. ~TableDrained(r) /\ TableDrained(r)' /\ drained[r] = {}
    BY <2>e, <2>f DEF TableDrained
  <2>c. \A s \in Relays \ {r} :
           closer'[s] = closer[s] /\ drained'[s] = drained[s] /\ table'[s] = table[s]
    BY <1>7 DEF Drain
  <2>d. drained'[r] = {table[r][k] : k \in Installed(r)}
    BY <1>7 DEF Drain
  <2>1. /\ state[e] = "open" /\ UNCHANGED <<wpc, went, victim, owner, key>>
        /\ owner[e] \in Relays /\ key[e] \in Keys
        /\ ~TableDrained(r) /\ TableDrained(r)'
        /\ \A s \in Relays \ {r} : closer'[s] = closer[s] /\ drained'[s] = drained[s] /\ table'[s] = table[s]
        /\ drained'[r] = {table[r][k] : k \in Installed(r)} /\ drained[r] = {}
    BY <2>a, <2>b, <2>c, <2>d
  <2>2. Covered(e)
    BY <2>1 DEF OpenIsCovered
  <2>3. CASE owner[e] # r
    BY <2>1, <2>2, <2>3 DEF Covered, TableDrained
  <2>4. CASE owner[e] = r
    <3>1. CASE table[r][key[e]] = e
      <4>1. e \in drained'[r]
        BY <2>1, <3>1, EntryIds DEF Installed
      <4> QED
        BY <2>1, <2>4, <4>1 DEF Covered
    <3>2. CASE table[r][key[e]] # e
      BY <2>1, <2>2, <2>4, <3>2 DEF Covered
    <3> QED
      BY <3>1, <3>2
  <2> QED
    BY <2>3, <2>4
<1>8. ASSUME NEW f \in Entries, CloseDrained(r, f) PROVE OpenIsCovered'
  <2>1. \A e \in Entries : state'[e] = "open" => e # f /\ state[e] = "open"
    BY <1>8, CloseEntryFacts DEF CloseDrained
  <2>2. \A s \in Relays, e \in Entries : e # f /\ e \in drained[s] => e \in drained'[s]
    BY <1>8 DEF CloseDrained
  <2> QED
    BY <1>8, <2>1, <2>2, CoverKept DEF CloseDrained, TableDrained
<1>9. CASE Listen(r) \/ ReplyFails(r) \/ ControlClosed(r) \/ HandlerReturns(r)
           \/ (\E d \in Keys \cup Rejected : ReadDatagram(r, d))
           \/ ReaderStops(r) \/ WorkersJoined(r) \/ RunReturns(r)
    BY <1>1, <1>9 DEF Listen, ReplyFails, ControlClosed, HandlerReturns, ReadDatagram,
       ReaderStops, WorkersJoined, RunReturns, TableDrained
<1> QED
    BY <1>3, <1>4, <1>5, <1>6, <1>7, <1>8, <1>9 DEF RelayStep

(***************************************************************************)
(* The steps of the workers.                                               *)
(***************************************************************************)
\* The ways to be covered, before a step and after it.
LEMMA CoverMeaning ==
    ASSUME NEW e, NEW r, owner[e] = r
    PROVE  Covered(e) <=>
             \/ \E v \in Workers : wpc[r][v] \in {"install", "undo"} /\ went[r][v] = e
             \/ \E v \in Workers : wpc[r][v] = "evict" /\ victim[r][v] = e
             \/ e \in drained[r]
             \/ ~TableDrained(r) /\ table[r][key[e]] = e
             \/ TableDrained(r) /\ \E v \in Workers : wpc[r][v] \in {"evict", "redone"} /\ went[r][v] = e
BY DEF Covered

\* The same, after a step.
LEMMA CoverMeaningNext ==
    ASSUME NEW CONSTANT e, NEW CONSTANT r, owner'[e] = r
    PROVE  Covered(e)' <=>
             \/ \E v \in Workers : wpc'[r][v] \in {"install", "undo"} /\ went'[r][v] = e
             \/ \E v \in Workers : wpc'[r][v] = "evict" /\ victim'[r][v] = e
             \/ e \in drained'[r]
             \/ ~TableDrained(r)' /\ table'[r][key'[e]] = e
             \/ TableDrained(r)' /\ \E v \in Workers : wpc'[r][v] \in {"evict", "redone"} /\ went'[r][v] = e
BY DEF Covered, TableDrained

\* A worker passes on the entries a and b in its hands: each is closed or covered
\* after the step, and all other entries keep their cover.
LEMMA HandOver ==
    ASSUME FlowInv, OpenIsCovered, NEW r \in Relays, NEW w \in Workers,
           UNCHANGED <<closer, drained, owner, key>>,
           NEW CONSTANT a \in Entries, NEW CONSTANT b \in Entries,
           \A s \in Relays, v \in Workers : s # r \/ v # w =>
              \/ wpc'[s][v] = wpc[s][v] /\ went'[s][v] = went[s][v] /\ victim'[s][v] = victim[s][v]
              \/ wpc[s][v] = "wait",
           \A f \in Entries : f # a /\ f # b =>
              /\ state'[f] = "open" => state[f] = "open"
              /\ \A s \in Relays, l \in Keys : table[s][l] = f => table'[s][l] = f
              /\ f # went[r][w] /\ f # victim[r][w],
           state'[a] = "open" => Covered(a)',
           state'[b] = "open" => Covered(b)'
    PROVE  OpenIsCovered'
<1>1. PICK X \in SUBSET Entries : X = {a, b}
    OBVIOUS
<1>2. \A s \in Relays, v \in Workers : wpc[s][v] \in {"install", "evict", "redone", "undo"} =>
         \/ wpc'[s][v] = wpc[s][v] /\ went'[s][v] = went[s][v] /\ victim'[s][v] = victim[s][v]
         \/ \A f \in Entries \ X : f # went[s][v] /\ f # victim[s][v]
    BY <1>1
<1>3. \A f \in Entries \ X : state'[f] = "open" =>
         /\ state[f] = "open" /\ owner'[f] = owner[f] /\ key'[f] = key[f]
         /\ TableDrained(owner[f])' <=> TableDrained(owner[f])
         /\ \A s \in Relays : f \in drained[s] => f \in drained'[s]
         /\ \A s \in Relays, k \in Keys : table[s][k] = f => table'[s][k] = f
    BY <1>1 DEF TableDrained
<1>4. \A f \in Entries \ X : state'[f] = "open" => Covered(f)'
    BY <1>2, <1>3, CoverFrame
<1>5. ASSUME NEW f \in Entries, state'[f] = "open" PROVE Covered(f)'
  <2>1. CASE f \in X
    <3>1. f = a \/ f = b
      BY <1>1, <2>1
    <3> QED
      BY <1>5, <3>1
  <2>2. CASE f \notin X
    BY <1>4, <1>5, <2>2
  <2> QED
    BY <2>1, <2>2
<1> QED
    BY <1>5 DEF OpenIsCovered

\* The worker that creates an entry covers it until the table or Close does.
LEMMA CoverCreating ==
    ASSUME ShutInv, NEW r \in Relays, NEW w \in Workers,
           DialSucceeds(r, w) \/ Install(r, w) \/ CloseVictim(r, w) \/ RecheckDone(r, w) \/ Undo(r, w)
    PROVE  OpenIsCovered'
<1>a. FlowInv /\ TypeOK /\ WorkerFlow /\ TableMatches /\ OpenIsCovered
    BY DEF ShutInv, FlowInv
<1>b. UNCHANGED <<closer, drained, owner, key>> /\ wpc[r][w] \in HandsOn
    BY DEF DialSucceeds, Install, CloseVictim, RecheckDone, Undo, handlerVars, idVars, HandsOn
<1>c. TableDrained(r)' <=> TableDrained(r)
    BY <1>b DEF TableDrained
<1>d. PICK k \in Keys : k = wkey[r][w]
    BY <1>a DEF TypeOK, WorkerTypeOK
<1>e. PICK e \in Entries : e = went[r][w]
    BY <1>a, <1>b DEF WorkerFlow
<1>f. owner[e] = r /\ key[e] = k /\ owner'[e] = r /\ key'[e] = k
    BY <1>a, <1>b, <1>d, <1>e DEF WorkerFlow
<1>g. /\ table \in [Relays -> [Keys -> Entries \cup {NoEntry}]]
      /\ victim \in [Relays -> [Workers -> Entries \cup {NoEntry}]]
      /\ state \in [Entries -> {"dialing", "open", "closed"}]
    BY <1>a DEF TypeOK, RelayTypeOK, WorkerTypeOK, EntryTypeOK
<1>h. ASSUME NEW pc \in WorkerPCs, Goto(r, w, pc), UNCHANGED went
      PROVE  /\ wpc'[r][w] = pc /\ went'[r][w] = e
             /\ \A s \in Relays, v \in Workers : s # r \/ v # w =>
                   wpc'[s][v] = wpc[s][v] /\ went'[s][v] = went[s][v]
    BY <1>a, <1>e, <1>h, GotoFacts
<1>i. ASSUME NEW f \in Entries \cup {NoEntry}, Finish(r, w, f)
      PROVE  \A s \in Relays, v \in Workers : s # r \/ v # w =>
                \/ wpc'[s][v] = wpc[s][v] /\ went'[s][v] = went[s][v]
                \/ wpc[s][v] = "wait"
    BY <1>a, <1>i, FinishFacts DEF Answered
<1>j. wpc[r][w] # "evict" => victim[r][w] = NoEntry
    BY <1>a DEF WorkerFlow
<1>1. CASE DialSucceeds(r, w)
  <2>1. /\ wpc[r][w] = "dial" /\ state' = [state EXCEPT ![e] = "open"] /\ Goto(r, w, "install")
        /\ UNCHANGED <<went, victim, table>>
    BY <1>1, <1>e DEF DialSucceeds
  <2>2. /\ wpc'[r][w] = "install" /\ went'[r][w] = e
        /\ \A s \in Relays, v \in Workers : s # r \/ v # w =>
              wpc'[s][v] = wpc[s][v] /\ went'[s][v] = went[s][v]
    BY <1>h, <2>1 DEF WorkerPCs
  <2>3. Covered(e)'
    BY <1>f, <2>2, CoverMeaningNext
  <2>4. \A f \in Entries : f # e /\ state'[f] = "open" => state[f] = "open"
    BY <1>g, <2>1
  <2> QED
    BY <1>a, <1>b, <1>e, <1>j, <2>1, <2>2, <2>3, <2>4, EntryIds, HandOver
<1>2. CASE CloseVictim(r, w)
  <2>1. PICK f \in Entries : f = victim[r][w]
    BY <1>2, <1>a DEF CloseVictim, WorkerFlow
  <2>2. /\ wpc[r][w] = "evict" /\ CloseEntry(f) /\ Goto(r, w, "redone")
        /\ victim' = [victim EXCEPT ![r][w] = NoEntry]
        /\ UNCHANGED <<went, table>>
    BY <1>2, <2>1 DEF CloseVictim
  <2>3. /\ wpc'[r][w] = "redone" /\ went'[r][w] = e
        /\ \A s \in Relays, v \in Workers : s # r \/ v # w =>
              wpc'[s][v] = wpc[s][v] /\ went'[s][v] = went[s][v]
    BY <1>h, <2>2 DEF WorkerPCs
  <2>4. \A s \in Relays, v \in Workers : s # r \/ v # w => victim'[s][v] = victim[s][v]
    BY <1>g, <2>2
  <2>5. state'[f] = "closed" /\ \A g \in Entries : g # f => state'[g] = state[g]
    BY <1>a, <2>2, CloseEntryFacts
  <2>6. ASSUME state'[e] = "open" PROVE Covered(e)'
    <3>1. Covered(e) /\ e # f
      BY <1>a, <2>5, <2>6 DEF OpenIsCovered
    <3>2. CASE \E v \in Workers : wpc[r][v] \in {"install", "undo"} /\ went[r][v] = e
      BY <1>f, <2>2, <2>3, <3>2, CoverMeaningNext
    <3>3. CASE \E v \in Workers : wpc[r][v] = "evict" /\ victim[r][v] = e
      BY <1>f, <2>1, <2>3, <2>4, <3>1, <3>3, CoverMeaningNext
    <3>4. CASE e \in drained[r] \/ (~TableDrained(r) /\ table[r][key[e]] = e)
      BY <1>b, <1>c, <1>f, <2>2, <3>4, CoverMeaningNext
    <3>5. CASE TableDrained(r)
      BY <1>c, <1>f, <2>3, <3>5, CoverMeaningNext
    <3> QED
      BY <1>f, <3>1, <3>2, <3>3, <3>4, <3>5, CoverMeaning
  <2> QED
    BY <1>a, <1>b, <1>e, <2>1, <2>2, <2>3, <2>4, <2>5, <2>6, HandOver
<1>3. CASE Undo(r, w)
  <2>1. /\ wpc[r][w] = "undo" /\ CloseEntry(e) /\ Finish(r, w, NoEntry)
        /\ UNCHANGED <<victim, table>>
    BY <1>3, <1>e DEF Undo
  <2>2. \A s \in Relays, v \in Workers : s # r \/ v # w =>
           \/ wpc'[s][v] = wpc[s][v] /\ went'[s][v] = went[s][v]
           \/ wpc[s][v] = "wait"
    BY <1>i, <2>1
  <2>3. state'[e] = "closed" /\ \A f \in Entries : f # e => state'[f] = state[f]
    BY <1>a, <2>1, CloseEntryFacts
  <2> QED
    BY <1>a, <1>b, <1>e, <1>j, <2>1, <2>2, <2>3, EntryIds, HandOver
<1>4. CASE RecheckDone(r, w) /\ Done(r)
  <2>1. /\ wpc[r][w] = "redone" /\ DeleteIf(r, k, e) /\ Goto(r, w, "undo")
        /\ UNCHANGED <<went, victim, state>>
    BY <1>4, <1>d, <1>e DEF RecheckDone
  <2>2. /\ wpc'[r][w] = "undo" /\ went'[r][w] = e
        /\ \A s \in Relays, v \in Workers : s # r \/ v # w =>
              wpc'[s][v] = wpc[s][v] /\ went'[s][v] = went[s][v]
    BY <1>h, <2>1 DEF WorkerPCs
  <2>3. Covered(e)'
    BY <1>f, <2>2, CoverMeaningNext
  <2>4. \A s \in Relays, l \in Keys : table[s][l] # e => table'[s][l] = table[s][l]
    BY <1>a, <2>1, DeleteIfFacts
  <2> QED
    BY <1>a, <1>b, <1>e, <1>j, <2>1, <2>2, <2>3, <2>4, EntryIds, HandOver
<1>5. CASE RecheckDone(r, w) /\ ~Done(r)
  <2>1. /\ wpc[r][w] = "redone" /\ Finish(r, w, e) /\ ~TableDrained(r)
        /\ UNCHANGED <<victim, state, table>>
    BY <1>5, <1>e DEF RecheckDone, Done, TableDrained
  <2>2. \A s \in Relays, v \in Workers : s # r \/ v # w =>
           \/ wpc'[s][v] = wpc[s][v] /\ went'[s][v] = went[s][v]
           \/ wpc[s][v] = "wait"
    BY <1>i, <2>1
  <2>3. ASSUME state'[e] = "open" PROVE Covered(e)'
    <3>1. Covered(e)
      BY <1>a, <2>1, <2>3 DEF OpenIsCovered
    <3>2. ASSUME NEW v \in Workers, wpc[r][v] \in {"install", "undo", "evict"}
          PROVE  wpc'[r][v] = wpc[r][v] /\ went'[r][v] = went[r][v] /\ victim'[r][v] = victim[r][v]
      BY <2>1, <2>2, <3>2
    <3>3. CASE \E v \in Workers : wpc[r][v] \in {"install", "undo"} /\ went[r][v] = e
      BY <1>f, <3>2, <3>3, CoverMeaningNext
    <3>4. CASE \E v \in Workers : wpc[r][v] = "evict" /\ victim[r][v] = e
      BY <1>f, <3>2, <3>4, CoverMeaningNext
    <3>5. CASE e \in drained[r] \/ table[r][key[e]] = e
      BY <1>b, <1>c, <1>f, <2>1, <3>5, CoverMeaningNext
    <3> QED
      BY <1>f, <2>1, <3>1, <3>3, <3>4, <3>5, CoverMeaning
  <2> QED
    BY <1>a, <1>b, <1>e, <1>j, <2>1, <2>2, <2>3, EntryIds, HandOver
<1>6. CASE Install(r, w) /\ table[r][k] # NoEntry
  <2>1. /\ wpc[r][w] = "install" /\ CloseEntry(e) /\ Finish(r, w, table[r][k])
        /\ UNCHANGED <<victim, table>>
    BY <1>6, <1>d, <1>e DEF Install
  <2>2. \A s \in Relays, v \in Workers : s # r \/ v # w =>
           \/ wpc'[s][v] = wpc[s][v] /\ went'[s][v] = went[s][v]
           \/ wpc[s][v] = "wait"
    <3>1. PICK f \in Entries \cup {NoEntry} : f = table[r][k]
      BY <1>g
    <3> QED
      BY <1>i, <2>1, <3>1
  <2>3. state'[e] = "closed" /\ \A f \in Entries : f # e => state'[f] = state[f]
    BY <1>a, <2>1, CloseEntryFacts
  <2> QED
    BY <1>a, <1>b, <1>e, <1>j, <2>1, <2>2, <2>3, EntryIds, HandOver
<1>7. CASE Install(r, w) /\ table[r][k] = NoEntry /\ ~Full(r)
  <2>1. /\ wpc[r][w] = "install" /\ table' = [table EXCEPT ![r][k] = e] /\ Goto(r, w, "redone")
        /\ UNCHANGED <<went, victim, state>>
    BY <1>7, <1>d, <1>e DEF Install
  <2>2. /\ wpc'[r][w] = "redone" /\ went'[r][w] = e
        /\ \A s \in Relays, v \in Workers : s # r \/ v # w =>
              wpc'[s][v] = wpc[s][v] /\ went'[s][v] = went[s][v]
    BY <1>h, <2>1 DEF WorkerPCs
  <2>3. table'[r][k] = e /\ \A s \in Relays, l \in Keys : s # r \/ l # k => table'[s][l] = table[s][l]
    BY <1>g, <2>1
  <2>4. Covered(e)'
    BY <1>c, <1>f, <2>2, <2>3, CoverMeaningNext
  <2>5. \A f \in Entries, s \in Relays, l \in Keys : table[s][l] = f => table'[s][l] = f
    BY <1>7, <2>3, EntryIds
  <2> QED
    BY <1>a, <1>b, <1>e, <1>j, <2>1, <2>2, <2>4, <2>5, EntryIds, HandOver
<1>8. CASE Install(r, w) /\ table[r][k] = NoEntry /\ Full(r)
  <2>1. PICK old \in Installed(r) :
           /\ table' = [table EXCEPT ![r] = [@ EXCEPT ![old] = NoEntry, ![k] = e]]
           /\ victim' = [victim EXCEPT ![r][w] = table[r][old]]
    BY <1>8, <1>d, <1>e DEF Install, LeastRecentlySeen
  <2>2. wpc[r][w] = "install" /\ Goto(r, w, "evict") /\ UNCHANGED <<went, state>>
    BY <1>8, <1>d, <1>e DEF Install
  <2>3. /\ wpc'[r][w] = "evict" /\ went'[r][w] = e
        /\ \A s \in Relays, v \in Workers : s # r \/ v # w =>
              wpc'[s][v] = wpc[s][v] /\ went'[s][v] = went[s][v]
    BY <1>h, <2>2 DEF WorkerPCs
  <2>4. old \in Keys /\ old # k /\ table[r][old] # NoEntry
    BY <1>8 DEF Installed
  <2>5. PICK f \in Entries : f = table[r][old]
    BY <1>g, <2>4
  <2>6. owner'[f] = r
    BY <1>a, <1>b, <2>4, <2>5 DEF TableMatches
  <2>7. /\ table'[r][k] = e
        /\ \A s \in Relays, l \in Keys : s # r \/ (l # k /\ l # old) => table'[s][l] = table[s][l]
    BY <1>g, <2>1, <2>4
  <2>8. victim'[r][w] = f /\ \A s \in Relays, v \in Workers : s # r \/ v # w => victim'[s][v] = victim[s][v]
    BY <1>g, <2>1, <2>5
  <2>9. Covered(f)'
    BY <2>3, <2>6, <2>8, CoverMeaningNext
  <2>10. Covered(e)'
    BY <1>c, <1>f, <2>3, <2>7, CoverMeaningNext
  <2>11. \A g \in Entries, s \in Relays, l \in Keys : g # f /\ table[s][l] = g => table'[s][l] = g
    BY <1>8, <2>5, <2>7, EntryIds
  <2> QED
    BY <1>a, <1>b, <1>e, <1>j, <2>2, <2>3, <2>8, <2>9, <2>10, <2>11, EntryIds, HandOver
<1> QED
    BY <1>1, <1>2, <1>3, <1>4, <1>5, <1>6, <1>7, <1>8

\* A worker gives up an entry only when the table, Close or the worker's next step
\* covers it.
LEMMA CoverWorkerStep ==
    ASSUME ShutInv, NEW r \in Relays, NEW w \in Workers, WorkerStep(r, w)
    PROVE  OpenIsCovered'
<1> DEFINE k == wkey[r][w]
           e == went[r][w]
<1> USE DEF ShutInv, FlowInv, TypeOK, RelayTypeOK, WorkerTypeOK, EntryTypeOK, handlerVars,
        poolVars, workerVars, idVars, entryVars
<1>a. UNCHANGED <<closer, drained>> /\ \A s \in Relays : TableDrained(s)' <=> TableDrained(s)
    BY WorkerIsLocal DEF TableDrained
<1>b. wpc[r][w] \in HandsOn => e \in Entries /\ owner[e] = r /\ key[e] = k /\ k \in Keys
    BY DEF WorkerFlow
\* A worker that moves without covering anything, and the waiters it answers.
<1>c. ASSUME wpc[r][w] \notin {"install", "evict", "redone", "undo"},
             \A s \in Relays, v \in Workers : s # r \/ v # w =>
                \/ wpc'[s][v] = wpc[s][v] /\ went'[s][v] = went[s][v]
                \/ wpc[s][v] = "wait",
             UNCHANGED <<victim, table>>,
             \A f \in Entries : state'[f] = "open" =>
                state[f] = "open" /\ owner'[f] = owner[f] /\ key'[f] = key[f]
      PROVE  OpenIsCovered'
  <2>1. \A s \in Relays, v \in Workers : wpc[s][v] \in {"install", "evict", "redone", "undo"} =>
           wpc'[s][v] = wpc[s][v] /\ went'[s][v] = went[s][v] /\ victim'[s][v] = victim[s][v]
    BY <1>c
  <2> QED
    BY <1>a, <1>c, <2>1, CoverKept
<1>d. ASSUME NEW pc \in WorkerPCs, Goto(r, w, pc)
      PROVE  wpc'[r][w] = pc /\ \A s \in Relays, v \in Workers : s # r \/ v # w => wpc'[s][v] = wpc[s][v]
    BY <1>d, GotoFacts
<1>e. ASSUME NEW f \in Entries \cup {NoEntry}, Finish(r, w, f)
      PROVE  \A s \in Relays, v \in Workers : s # r \/ v # w =>
                \/ wpc'[s][v] = wpc[s][v] /\ went'[s][v] = went[s][v]
                \/ wpc[s][v] = "wait"
    BY <1>e, FinishFacts DEF Answered
<1>1. CASE Take(r, w)
  <2>1. \A s \in Relays, v \in Workers : s # r \/ v # w => wpc'[s][v] = wpc[s][v]
    BY <1>1, <1>d DEF Take, WorkerPCs
  <2> QED
    BY <1>1, <1>c, <2>1 DEF Take
<1>2. CASE WorkerExits(r, w)
    BY <1>2, <1>c, <1>d DEF WorkerExits, WorkerPCs
<1>3. CASE CheckDone(r, w)
    BY <1>3, <1>c, <1>d DEF CheckDone, WorkerPCs
<1>4. CASE Load(r, w)
  <2>1. \A s \in Relays, v \in Workers : s # r \/ v # w =>
           wpc'[s][v] = wpc[s][v] /\ went'[s][v] = went[s][v]
    BY <1>4, <1>d DEF Load, WorkerPCs
  <2> QED
    BY <1>4, <1>c, <2>1 DEF Load
<1>5. CASE Join(r, w)
  <2>1. \A s \in Relays, v \in Workers : s # r \/ v # w => wpc'[s][v] = wpc[s][v]
    BY <1>5, <1>d DEF Join, WorkerPCs
  <2> QED
    BY <1>5, <1>c, <2>1 DEF Join
<1>6. CASE Recheck(r, w)
  <2>1. table[r][k] \in Entries \cup {NoEntry}
    OBVIOUS
  <2>2. CASE table[r][k] = NoEntry
    BY <1>6, <1>c, <1>d, <2>2 DEF Recheck, WorkerPCs
  <2>3. CASE table[r][k] # NoEntry
    BY <1>6, <1>c, <1>e, <2>1, <2>3 DEF Recheck
  <2> QED
    BY <2>2, <2>3
<1>7. CASE Refused(r, w)
    BY <1>7, <1>c, <1>e DEF Refused
<1>8. CASE AcquireToken(r, w)
  <2>1. PICK f \in Entries :
           /\ state' = [state EXCEPT ![f] = "dialing"]
           /\ owner' = [owner EXCEPT ![f] = r]
           /\ key' = [key EXCEPT ![f] = wkey[r][w]]
           /\ went' = [went EXCEPT ![r][w] = f]
    BY <1>8 DEF AcquireToken, FreeEntries
  <2>2. \A s \in Relays, v \in Workers : s # r \/ v # w =>
           wpc'[s][v] = wpc[s][v] /\ went'[s][v] = went[s][v]
    BY <1>8, <1>d, <2>1 DEF AcquireToken, WorkerPCs
  <2>3. \A g \in Entries : state'[g] = "open" =>
           state[g] = "open" /\ owner'[g] = owner[g] /\ key'[g] = key[g]
    BY <2>1
  <2> QED
    BY <1>8, <1>c, <2>2, <2>3 DEF AcquireToken
<1>9. CASE DialFails(r, w)
  <2>1. \A g \in Entries : state'[g] = "open" => state[g] = "open"
    BY <1>9 DEF DialFails
  <2> QED
    BY <1>9, <1>c, <1>e, <2>1 DEF DialFails
<1>10. CASE Write(r, w)
  <2>1. \A s \in Relays, v \in Workers : s # r \/ v # w =>
           wpc'[s][v] = wpc[s][v] /\ went'[s][v] = went[s][v]
    BY <1>10, <1>d DEF Write, WorkerPCs
  <2> QED
    BY <1>10, <1>c, <2>1 DEF Write
<1>11. CASE Touch(r, w)
  <2>1. \A s \in Relays, v \in Workers : s # r \/ v # w =>
           wpc'[s][v] = wpc[s][v] /\ went'[s][v] = went[s][v]
    BY <1>11, <1>d DEF Touch, WorkerPCs
  <2> QED
    BY <1>11, <1>c, <2>1 DEF Touch
<1>12. CASE DialSucceeds(r, w) \/ Install(r, w) \/ CloseVictim(r, w) \/ RecheckDone(r, w) \/ Undo(r, w)
    BY <1>12, CoverCreating
<1> QED
    BY <1>1, <1>2, <1>3, <1>4, <1>5, <1>6, <1>7, <1>8, <1>9, <1>10, <1>11, <1>12 DEF WorkerStep

(***************************************************************************)
(* The whole step.                                                         *)
(***************************************************************************)
\* The reverse relay closes its entry before it empties the entry's slot.
LEMMA CoverReverseStep ==
    ASSUME ShutInv, NEW e \in Entries, ReverseStep(e)
    PROVE  OpenIsCovered'
<1>a. FlowInv /\ TypeOK /\ OpenIsCovered /\ DeleteAfterClose
    BY DEF ShutInv, FlowInv
<1>1. ASSUME UNCHANGED <<closer, drained, wpc, went, victim, owner, key>>,
             \A f \in Entries : state'[f] = "open" =>
                /\ state[f] = "open"
                /\ \A s \in Relays, k \in Keys : table[s][k] = f => table'[s][k] = f
      PROVE  OpenIsCovered'
    BY <1>1, <1>a, CoverKept DEF TableDrained
<1> USE DEF handlerVars, workerVars, idVars
<1>2. CASE Receive(e) \/ Discard(e) \/ ReadError(e) \/ ReadTimeout(e)
    BY <1>1, <1>2 DEF Receive, Discard, ReadError, ReadTimeout
<1>3. CASE ReverseCloses(e)
  <2>1. \A f \in Entries : state'[f] = "open" => state[f] = "open"
    BY <1>3, <1>a, CloseEntryFacts DEF ReverseCloses
  <2> QED
    BY <1>1, <1>3, <2>1 DEF ReverseCloses
<1>4. CASE ReverseDeletes(e)
  <2>1. owner[e] \in Relays /\ key[e] \in Keys
    BY <1>a DEF TypeOK, EntryTypeOK
  <2>2. \A s \in Relays, k \in Keys : table[s][k] # e => table'[s][k] = table[s][k]
    BY <1>4, <1>a, <2>1, DeleteIfFacts DEF ReverseDeletes
  <2>3. state[e] = "closed" /\ UNCHANGED state
    BY <1>4, <1>a DEF ReverseDeletes, DeleteAfterClose
  <2> QED
    BY <1>1, <1>4, <2>2, <2>3 DEF ReverseDeletes
<1> QED
    BY <1>2, <1>3, <1>4 DEF ReverseStep

\* Every open entry stays covered.
LEMMA CoverStep == ShutInv /\ [Next]_vars => OpenIsCovered'
<1> SUFFICES ASSUME ShutInv, [Next]_vars PROVE OpenIsCovered'
    OBVIOUS
<1>1. CASE Tick \/ UNCHANGED vars
  <2>1. UNCHANGED <<closer, drained, wpc, went, victim, owner, key, state, table>>
    BY <1>1 DEF Tick, vars, handlerVars, workerVars, idVars, entryVars
  <2> QED
    BY <2>1, CoverKept DEF ShutInv, TableDrained
<1> QED
    BY <1>1, CoverRelayStep, CoverWorkerStep, CoverReverseStep DEF Next

\* No step reopens an entry whose reverse relay is about to delete it.
LEMMA DeleteAfterCloseStep ==
    ASSUME FlowInv, DeleteAfterClose, [Next]_vars
    PROVE  DeleteAfterClose'
<1> USE DEF FlowInv, DeleteAfterClose, TypeOK, EntryTypeOK, handlerVars, poolVars, workerVars,
        idVars, entryVars
<1>1. ASSUME UNCHANGED rev, \A e \in Entries : state'[e] \in {state[e], "closed"}
      PROVE  DeleteAfterClose'
    BY <1>1
<1>2. ASSUME NEW r \in Relays, RelayStep(r) PROVE DeleteAfterClose'
  <2>1. ASSUME NEW e \in Entries, CloseDrained(r, e) PROVE DeleteAfterClose'
    BY <1>1, <2>1, CloseEntryFacts DEF CloseDrained
  <2>2. CASE ~\E e \in Entries : CloseDrained(r, e)
    BY <1>1, <1>2, <2>2 DEF RelayStep, Associate, ListenFails, Listen, ReplyFails, Reply,
       ControlClosed, HandlerReturns, CloseDone, CloseSocket, Drain,
       ReleaseAssociation, ReadDatagram, ReaderStops, WorkersJoined, RunReturns
  <2> QED
    BY <2>1, <2>2
<1>3. ASSUME NEW r \in Relays, NEW w \in Workers, WorkerStep(r, w) PROVE DeleteAfterClose'
  <2>0. wpc[r][w] \in HandsOn => went[r][w] \in Entries
    BY DEF WorkerFlow
  <2>1. CASE AcquireToken(r, w)
    <3>1. PICK e \in FreeEntries : state' = [state EXCEPT ![e] = "dialing"]
      BY <2>1 DEF AcquireToken
    <3>2. rev[e] = "none"
      BY DEF FreeEntries, Referenced
    <3> QED
      BY <2>1, <3>1, <3>2 DEF AcquireToken
  <2>2. CASE DialSucceeds(r, w)
    <3>1. went[r][w] \in Entries /\ rev[went[r][w]] = "none"
      BY <2>0, <2>2 DEF DialSucceeds, HandsOn, DialingIsPrivate
    <3> QED
      BY <2>2, <3>1 DEF DialSucceeds
  <2>3. CASE RecheckDone(r, w)
    BY <2>3 DEF RecheckDone
  <2>4. CASE DialFails(r, w) \/ Install(r, w) \/ CloseVictim(r, w) \/ Undo(r, w)
    <3>1. UNCHANGED rev
      BY <2>4 DEF DialFails, Install, CloseVictim, Undo
    <3>2. \A e \in Entries : state'[e] \in {state[e], "closed"}
      BY <2>4 DEF DialFails, Install, CloseVictim, Undo, CloseEntry
    <3> QED
      BY <1>1, <3>1, <3>2
  <2>5. CASE Take(r, w) \/ WorkerExits(r, w) \/ CheckDone(r, w) \/ Load(r, w) \/ Join(r, w)
             \/ Recheck(r, w) \/ Refused(r, w) \/ Write(r, w) \/ Touch(r, w)
    BY <1>1, <2>5 DEF Take, WorkerExits, CheckDone, Load, Join, Recheck, Refused, Write, Touch
  <2> QED
    BY <1>3, <2>1, <2>2, <2>3, <2>4, <2>5 DEF WorkerStep
<1>4. ASSUME NEW e \in Entries, ReverseStep(e) PROVE DeleteAfterClose'
  <2>1. CASE ReverseCloses(e)
    BY <2>1, CloseEntryFacts DEF ReverseCloses
  <2>2. CASE ~ReverseCloses(e)
    BY <1>4, <2>2 DEF ReverseStep, Receive, Discard, ReadError, ReadTimeout, ReverseDeletes
  <2> QED
    BY <2>1, <2>2
<1>5. CASE Tick \/ UNCHANGED vars
    BY <1>1, <1>5 DEF Tick, vars
<1> QED
    BY <1>2, <1>3, <1>4, <1>5 DEF Next

\* What a worker's step does to its association's table once Drain has run, and to
\* the workers that will take back what they installed.
LEMMA LateInstallWorkerStep ==
    ASSUME FlowInv, LateInstallIsTemporary, NEW r \in Relays, NEW w \in Workers, WorkerStep(r, w)
    PROVE  LateInstallIsTemporary'
<1>a. TypeOK /\ WorkerFlow /\ TableMatches
    BY DEF FlowInv
<1>b. UNCHANGED closer /\ \A s \in Relays : TableDrained(s)' <=> TableDrained(s)
    BY <1>a, WorkerIsLocal DEF TableDrained, handlerVars
<1>t. /\ table \in [Relays -> [Keys -> Entries \cup {NoEntry}]]
      /\ wkey[r][w] \in Keys /\ wpc \in [Relays -> [Workers -> WorkerPCs]]
      /\ went \in [Relays -> [Workers -> Entries \cup {NoEntry}]]
    BY <1>a DEF TypeOK, RelayTypeOK, WorkerTypeOK
<1>h. wpc[r][w] \in HandsOn =>
         went[r][w] \in Entries /\ owner[went[r][w]] = r /\ key[went[r][w]] = wkey[r][w]
    BY <1>a DEF WorkerFlow
\* The table only loses entries, and w is not a witness or stays one.
<1>c. ASSUME \A s \in Relays, k \in Keys : table'[s][k] # NoEntry => table'[s][k] = table[s][k],
             \A s \in Relays, v \in Workers : wpc[s][v] \in {"evict", "redone"} =>
                wpc'[s][v] \in {"evict", "redone"} /\ went'[s][v] = went[s][v]
      PROVE  LateInstallIsTemporary'
  <2> SUFFICES ASSUME NEW s \in Relays, NEW k \in Keys, TableDrained(s)', table'[s][k] # NoEntry
               PROVE  \E v \in Workers : wpc'[s][v] \in {"evict", "redone"} /\ went'[s][v] = table'[s][k]
    BY DEF LateInstallIsTemporary
  <2>1. TableDrained(s) /\ table[s][k] = table'[s][k]
    BY <1>b, <1>c
  <2>2. PICK v \in Workers : wpc[s][v] \in {"evict", "redone"} /\ went[s][v] = table[s][k]
    BY <2>1 DEF LateInstallIsTemporary
  <2> QED
    BY <1>c, <2>1, <2>2
<1>d. ASSUME NEW pc \in WorkerPCs, Goto(r, w, pc)
      PROVE  wpc'[r][w] = pc /\ \A s \in Relays, v \in Workers : s # r \/ v # w => wpc'[s][v] = wpc[s][v]
    BY <1>a, <1>d, GotoFacts
<1>e. ASSUME NEW f \in Entries \cup {NoEntry}, Finish(r, w, f)
      PROVE  \A s \in Relays, v \in Workers : s # r \/ v # w =>
                \/ wpc'[s][v] = wpc[s][v] /\ went'[s][v] = went[s][v]
                \/ wpc[s][v] = "wait"
    BY <1>a, <1>e, FinishFacts DEF Answered
<1>1. CASE Take(r, w) \/ WorkerExits(r, w) \/ CheckDone(r, w) \/ Join(r, w)
           \/ (DialSucceeds(r, w) \/ CloseVictim(r, w))
  <2>1. \A s \in Relays, v \in Workers : s # r \/ v # w => wpc'[s][v] = wpc[s][v]
    BY <1>1, <1>d DEF Take, WorkerExits, CheckDone, Join, DialSucceeds, CloseVictim, WorkerPCs
  <2>2. wpc[r][w] \in {"evict", "redone"} => wpc'[r][w] \in {"evict", "redone"}
    BY <1>1, <1>d DEF Take, WorkerExits, CheckDone, Join, DialSucceeds, CloseVictim, WorkerPCs
  <2>3. UNCHANGED <<table, went>>
    BY <1>1 DEF Take, WorkerExits, CheckDone, Join, DialSucceeds, CloseVictim
  <2> QED
    BY <1>c, <2>1, <2>2, <2>3
<1>2. CASE Load(r, w) \/ AcquireToken(r, w) \/ Write(r, w) \/ Touch(r, w)
  <2>1. \A s \in Relays, v \in Workers : s # r \/ v # w => wpc'[s][v] = wpc[s][v]
    BY <1>2, <1>d DEF Load, AcquireToken, Write, Touch, WorkerPCs
  <2>2. \A s \in Relays, v \in Workers : s # r \/ v # w => went'[s][v] = went[s][v]
    BY <1>2, <1>t DEF Load, AcquireToken, Write, Touch
  <2>3. UNCHANGED table /\ wpc[r][w] \notin {"evict", "redone"}
    BY <1>2 DEF Load, AcquireToken, Write, Touch
  <2> QED
    BY <1>c, <2>1, <2>2, <2>3
<1>3. CASE Recheck(r, w) \/ Refused(r, w) \/ DialFails(r, w) \/ Undo(r, w)
  <2>1. UNCHANGED table /\ wpc[r][w] \notin {"evict", "redone"}
    BY <1>3 DEF Recheck, Refused, DialFails, Undo
  <2>2. \/ \E f \in Entries \cup {NoEntry} : Finish(r, w, f)
        \/ Goto(r, w, "acquire") /\ UNCHANGED went
    BY <1>3, <1>t DEF Recheck, Refused, DialFails, Undo
  <2>3. \A s \in Relays, v \in Workers : s # r \/ v # w =>
           \/ wpc'[s][v] = wpc[s][v] /\ went'[s][v] = went[s][v]
           \/ wpc[s][v] = "wait"
    BY <1>d, <1>e, <2>2 DEF WorkerPCs
  <2> QED
    BY <1>c, <2>1, <2>3
<1>4. CASE Install(r, w)
  <2>0. wpc[r][w] = "install" /\ went[r][w] \in Entries
    BY <1>4, <1>h DEF Install, HandsOn
  <2>1. CASE table[r][wkey[r][w]] # NoEntry
    <3>1. Finish(r, w, table[r][wkey[r][w]]) /\ UNCHANGED table
      BY <1>4, <2>1 DEF Install
    <3>2. \A s \in Relays, v \in Workers : s # r \/ v # w =>
             \/ wpc'[s][v] = wpc[s][v] /\ went'[s][v] = went[s][v]
             \/ wpc[s][v] = "wait"
      <4>1. PICK f \in Entries \cup {NoEntry} : f = table[r][wkey[r][w]]
        BY <1>t
      <4> QED
        BY <1>e, <3>1, <4>1
    <3> QED
      BY <1>c, <2>0, <3>1, <3>2
  <2>2. CASE table[r][wkey[r][w]] = NoEntry
    <3>1. /\ \A k \in Keys : table'[r][k] \in {NoEntry, table[r][k], went[r][w]}
          /\ \A s \in Relays, k \in Keys : s # r => table'[s][k] = table[s][k]
      <4>1. CASE ~Full(r)
        <5>1. table' = [table EXCEPT ![r][wkey[r][w]] = went[r][w]]
          BY <1>4, <2>2, <4>1 DEF Install
        <5> QED
          BY <1>t, <5>1
      <4>2. CASE Full(r)
        <5>1. PICK old \in Keys :
                table' = [table EXCEPT ![r] = [@ EXCEPT ![old] = NoEntry, ![wkey[r][w]] = went[r][w]]]
          BY <1>4, <2>2, <4>2 DEF Install, LeastRecentlySeen, Installed
        <5> QED
          BY <1>t, <5>1
      <4> QED
        BY <4>1, <4>2
    <3>2. UNCHANGED went /\ (Goto(r, w, "redone") \/ Goto(r, w, "evict"))
      BY <1>4, <2>2 DEF Install
    <3>3. /\ wpc'[r][w] \in {"redone", "evict"}
          /\ \A s \in Relays, v \in Workers : s # r \/ v # w => wpc'[s][v] = wpc[s][v]
      BY <1>d, <3>2 DEF WorkerPCs
    <3> SUFFICES ASSUME NEW s \in Relays, NEW k \in Keys, TableDrained(s)', table'[s][k] # NoEntry
                 PROVE  \E v \in Workers : wpc'[s][v] \in {"evict", "redone"} /\ went'[s][v] = table'[s][k]
      BY DEF LateInstallIsTemporary
    <3>4. CASE s = r /\ table'[s][k] = went[r][w]
      BY <3>2, <3>3, <3>4
    <3>5. CASE ~(s = r /\ table'[s][k] = went[r][w])
      <4>1. table'[s][k] = table[s][k] /\ TableDrained(s)
        BY <1>b, <3>1, <3>5
      <4>2. PICK v \in Workers : wpc[s][v] \in {"evict", "redone"} /\ went[s][v] = table[s][k]
        BY <4>1 DEF LateInstallIsTemporary
      <4>3. s # r \/ v # w
        BY <2>0, <4>2
      <4> QED
        BY <3>2, <3>3, <4>1, <4>2, <4>3
    <3> QED
      BY <3>4, <3>5
  <2> QED
    BY <2>1, <2>2
<1>5. CASE RecheckDone(r, w)
  <2>0. /\ wpc[r][w] = "redone" /\ went[r][w] \in Entries /\ key[went[r][w]] = wkey[r][w]
        /\ owner[went[r][w]] = r
    BY <1>5, <1>h DEF RecheckDone, HandsOn
  <2>1. CASE Done(r)
    <3>1. DeleteIf(r, wkey[r][w], went[r][w]) /\ Goto(r, w, "undo") /\ UNCHANGED went
      BY <1>5, <2>1 DEF RecheckDone
    <3>2. \A s \in Relays, v \in Workers : s # r \/ v # w => wpc'[s][v] = wpc[s][v]
      BY <1>d, <3>1 DEF WorkerPCs
    <3>a. /\ \A s \in Relays, k \in Keys : table'[s][k] \in {NoEntry, table[s][k]}
          /\ table'[r][wkey[r][w]] =
                IF table[r][wkey[r][w]] = went[r][w] THEN NoEntry ELSE table[r][wkey[r][w]]
      BY <1>a, <1>t, <2>0, <3>1, DeleteIfFacts
    <3>3. /\ \A s \in Relays, k \in Keys : table'[s][k] \in {NoEntry, table[s][k]}
          /\ table'[r][wkey[r][w]] # went[r][w]
      BY <2>0, <3>a, EntryIds
    <3> SUFFICES ASSUME NEW s \in Relays, NEW k \in Keys, TableDrained(s)', table'[s][k] # NoEntry
                 PROVE  \E v \in Workers : wpc'[s][v] \in {"evict", "redone"} /\ went'[s][v] = table'[s][k]
      BY DEF LateInstallIsTemporary
    <3>4. table'[s][k] = table[s][k] /\ TableDrained(s)
      BY <1>b, <3>3
    <3>5. PICK v \in Workers : wpc[s][v] \in {"evict", "redone"} /\ went[s][v] = table[s][k]
      BY <3>4 DEF LateInstallIsTemporary
    <3>6. s # r \/ v # w
      <4> SUFFICES ASSUME s = r, v = w PROVE FALSE
        OBVIOUS
      <4>1. table[r][k] = went[r][w] /\ table[r][k] # NoEntry
        BY <3>4, <3>5
      <4>2. k = wkey[r][w]
        BY <1>a, <2>0, <4>1 DEF TableMatches
      <4> QED
        BY <3>3, <3>4, <4>1, <4>2
    <3> QED
      BY <3>1, <3>2, <3>4, <3>5, <3>6
  <2>2. CASE ~Done(r)
    <3>1. Finish(r, w, went[r][w]) /\ UNCHANGED table /\ ~TableDrained(r)
      BY <1>5, <2>2 DEF RecheckDone, Done, TableDrained
    <3>2. \A s \in Relays, v \in Workers : s # r \/ v # w =>
             \/ wpc'[s][v] = wpc[s][v] /\ went'[s][v] = went[s][v]
             \/ wpc[s][v] = "wait"
      <4>1. PICK f \in Entries \cup {NoEntry} : f = went[r][w]
        BY <1>t
      <4> QED
        BY <1>e, <3>1, <4>1
    <3> SUFFICES ASSUME NEW s \in Relays, NEW k \in Keys, TableDrained(s)', table'[s][k] # NoEntry
                 PROVE  \E v \in Workers : wpc'[s][v] \in {"evict", "redone"} /\ went'[s][v] = table'[s][k]
      BY DEF LateInstallIsTemporary
    <3>3. table'[s][k] = table[s][k] /\ TableDrained(s) /\ s # r
      BY <1>b, <3>1
    <3>4. PICK v \in Workers : wpc[s][v] \in {"evict", "redone"} /\ went[s][v] = table[s][k]
      BY <3>3 DEF LateInstallIsTemporary
    <3> QED
      BY <3>2, <3>3, <3>4
  <2> QED
    BY <2>1, <2>2
<1> QED
    BY <1>1, <1>2, <1>3, <1>4, <1>5 DEF WorkerStep

\* Nothing stays in a drained table but what its worker takes back.
LEMMA LateInstallStep == ShutInv /\ [Next]_vars => LateInstallIsTemporary'
<1> SUFFICES ASSUME ShutInv, [Next]_vars PROVE LateInstallIsTemporary'
    OBVIOUS
<1>a. FlowInv /\ TypeOK /\ Lifecycle /\ LateInstallIsTemporary /\ FreshTable
    BY DEF ShutInv, FlowInv
<1>t. /\ table \in [Relays -> [Keys -> Entries \cup {NoEntry}]]
      /\ closer \in [Relays -> {"open", "done", "socket", "draining", "closed"}]
      /\ wpc \in [Relays -> [Workers -> WorkerPCs]]
    BY <1>a DEF TypeOK, RelayTypeOK, WorkerTypeOK
<1>1. ASSUME \A s \in Relays, k \in Keys : TableDrained(s)' /\ table'[s][k] # NoEntry =>
                TableDrained(s) /\ table'[s][k] = table[s][k],
             \A s \in Relays, v \in Workers : wpc[s][v] \in {"evict", "redone"} =>
                wpc'[s][v] = wpc[s][v] /\ went'[s][v] = went[s][v]
      PROVE  LateInstallIsTemporary'
  <2> SUFFICES ASSUME NEW s \in Relays, NEW k \in Keys, TableDrained(s)', table'[s][k] # NoEntry
               PROVE  \E v \in Workers : wpc'[s][v] \in {"evict", "redone"} /\ went'[s][v] = table'[s][k]
    BY DEF LateInstallIsTemporary
  <2>1. TableDrained(s) /\ table[s][k] = table'[s][k]
    BY <1>1
  <2>2. PICK v \in Workers : wpc[s][v] \in {"evict", "redone"} /\ went[s][v] = table[s][k]
    BY <1>a, <2>1 DEF LateInstallIsTemporary
  <2> QED
    BY <1>1, <2>1, <2>2
<1>2. ASSUME NEW r \in Relays, RelayStep(r) PROVE LateInstallIsTemporary'
  <2> USE DEF handlerVars, poolVars, workerVars
  <2>1. CASE ListenFails(r)
    <3>1. \A k \in Keys : table[r][k] = NoEntry
      BY <1>a, <2>1 DEF ListenFails, FreshTable
    <3>2. UNCHANGED <<table, wpc, went>> /\ closer' = [closer EXCEPT ![r] = "closed"]
      BY <2>1 DEF ListenFails
    <3>3. \A s \in Relays, k \in Keys : TableDrained(s)' /\ table'[s][k] # NoEntry =>
             TableDrained(s) /\ table'[s][k] = table[s][k]
      BY <1>t, <3>1, <3>2 DEF TableDrained
    <3> QED
      BY <1>1, <3>2, <3>3
  <2>2. CASE Drain(r)
    <3>1. /\ UNCHANGED <<wpc, went>> /\ closer' = [closer EXCEPT ![r] = "draining"]
          /\ table' = [table EXCEPT ![r] = [k \in Keys |-> NoEntry]]
      BY <2>2 DEF Drain
    <3>2. \A s \in Relays, k \in Keys : TableDrained(s)' /\ table'[s][k] # NoEntry =>
             TableDrained(s) /\ table'[s][k] = table[s][k]
      BY <1>t, <3>1 DEF TableDrained
    <3> QED
      BY <1>1, <3>1, <3>2
  <2>3. CASE Reply(r)
    <3>1. \A w \in Workers : wpc[r][w] = "exited"
      BY <1>a, <2>3 DEF Reply, Lifecycle
    <3>2. UNCHANGED <<closer, table, went>> /\ wpc' = [wpc EXCEPT ![r] = [w \in Workers |-> "idle"]]
      BY <2>3 DEF Reply
    <3>3. \A s \in Relays, v \in Workers : wpc[s][v] \in {"evict", "redone"} =>
             wpc'[s][v] = wpc[s][v] /\ went'[s][v] = went[s][v]
      BY <1>t, <3>1, <3>2
    <3> QED
      BY <1>1, <3>2, <3>3 DEF TableDrained
  <2>4. CASE (\E c \in Clients : Associate(r, c)) \/ CloseDone(r) \/ CloseSocket(r)
             \/ ReleaseAssociation(r)
    <3>1. UNCHANGED <<table, wpc, went>>
      BY <2>4 DEF Associate, CloseDone, CloseSocket, ReleaseAssociation
    <3>2. \A s \in Relays : TableDrained(s)' => TableDrained(s)
      BY <1>t, <2>4 DEF Associate, CloseDone, CloseSocket, ReleaseAssociation, TableDrained
    <3> QED
      BY <1>1, <3>1, <3>2
  <2>5. CASE Listen(r) \/ ReplyFails(r) \/ ControlClosed(r) \/ HandlerReturns(r)
             \/ (\E e \in Entries : CloseDrained(r, e))
             \/ (\E d \in Keys \cup Rejected : ReadDatagram(r, d))
             \/ ReaderStops(r) \/ WorkersJoined(r) \/ RunReturns(r)
    <3>1. UNCHANGED <<closer, table, wpc, went>>
      BY <2>5 DEF Listen, ReplyFails, ControlClosed, HandlerReturns, CloseDrained, ReadDatagram,
         ReaderStops, WorkersJoined, RunReturns
    <3> QED
      BY <1>1, <3>1 DEF TableDrained
  <2> QED
    BY <1>2, <2>1, <2>2, <2>3, <2>4, <2>5 DEF RelayStep
<1>3. ASSUME NEW r \in Relays, NEW w \in Workers, WorkerStep(r, w) PROVE LateInstallIsTemporary'
    BY <1>3, <1>a, LateInstallWorkerStep
<1>4. ASSUME NEW e \in Entries, ReverseStep(e) PROVE LateInstallIsTemporary'
  <2>1. UNCHANGED <<closer, wpc, went>>
    BY <1>4 DEF ReverseStep, Receive, Discard, ReadError, ReadTimeout, ReverseCloses,
       ReverseDeletes, handlerVars, workerVars
  <2>2. \A s \in Relays, k \in Keys : table'[s][k] # NoEntry => table'[s][k] = table[s][k]
    <3>1. CASE ReverseDeletes(e)
      <4>1. owner[e] \in Relays /\ key[e] \in Keys
        BY <1>a DEF TypeOK, EntryTypeOK
      <4> QED
        BY <1>a, <3>1, <4>1, DeleteIfFacts DEF ReverseDeletes
    <3>2. CASE ~ReverseDeletes(e)
      BY <1>4, <3>2 DEF ReverseStep, Receive, Discard, ReadError, ReadTimeout, ReverseCloses
    <3> QED
      BY <3>1, <3>2
  <2> QED
    BY <1>1, <2>1, <2>2 DEF TableDrained
<1>5. CASE Tick \/ UNCHANGED vars
  <2>1. UNCHANGED <<closer, table, wpc, went>>
    BY <1>5 DEF Tick, vars, handlerVars, workerVars
  <2> QED
    BY <1>1, <2>1 DEF TableDrained
<1> QED
    BY <1>2, <1>3, <1>4, <1>5 DEF Next

\* Nothing is installed before the association serves; a finished association's table
\* is empty, so a new one starts with an empty table.
LEMMA FreshTableStep == ShutInv /\ [Next]_vars => FreshTable'
<1> SUFFICES ASSUME ShutInv, [Next]_vars PROVE FreshTable'
    OBVIOUS
<1>a. FlowInv /\ TypeOK /\ WorkerFlow /\ Lifecycle /\ LateInstallIsTemporary /\ FreshTable
    BY DEF ShutInv, FlowInv
<1>t. /\ table \in [Relays -> [Keys -> Entries \cup {NoEntry}]]
      /\ handler \in [Relays -> {"gone", "listen", "reply", "abort", "serve", "teardown"}]
    BY <1>a DEF TypeOK, RelayTypeOK
<1>1. ASSUME \A s \in Relays : handler'[s] \in {"listen", "reply"} => handler[s] \in {"listen", "reply"},
             \A s \in Relays, k \in Keys : handler[s] \in {"listen", "reply"} =>
                table'[s][k] \in {NoEntry, table[s][k]}
      PROVE  FreshTable'
    BY <1>1, <1>a DEF FreshTable
<1>2. ASSUME NEW r \in Relays, RelayStep(r) PROVE FreshTable'
  <2> USE DEF handlerVars, poolVars, workerVars
  <2>1. ASSUME NEW c \in Clients, Associate(r, c) PROVE FreshTable'
    <3>1. closer[r] = "closed" /\ \A w \in Workers : wpc[r][w] = "exited"
      BY <1>a, <2>1 DEF Associate, Lifecycle
    <3>2. \A k \in Keys : table[r][k] = NoEntry
      BY <1>a, <3>1 DEF LateInstallIsTemporary, TableDrained
    <3>3. UNCHANGED table /\ handler' = [handler EXCEPT ![r] = "listen"]
      BY <2>1 DEF Associate
    <3> QED
      BY <1>a, <1>t, <3>2, <3>3 DEF FreshTable
  <2>2. CASE Drain(r)
    BY <1>1, <1>t, <2>2 DEF Drain
  <2>3. CASE ~Drain(r) /\ ~\E c \in Clients : Associate(r, c)
    <3>1. UNCHANGED table
      BY <1>2, <2>3 DEF RelayStep, ListenFails, Listen, ReplyFails, Reply,
         ControlClosed, HandlerReturns, CloseDone, CloseSocket, CloseDrained,
         ReleaseAssociation, ReadDatagram, ReaderStops, WorkersJoined, RunReturns
    <3>2. \A s \in Relays : handler'[s] \in {"listen", "reply"} => handler[s] \in {"listen", "reply"}
      BY <1>2, <1>t, <2>3 DEF RelayStep, ListenFails, Listen, ReplyFails, Reply,
         ControlClosed, HandlerReturns, CloseDone, CloseSocket, CloseDrained,
         ReleaseAssociation, ReadDatagram, ReaderStops, WorkersJoined, RunReturns
    <3> QED
      BY <1>1, <3>1, <3>2
  <2> QED
    BY <2>1, <2>2, <2>3
<1>3. ASSUME NEW r \in Relays, NEW w \in Workers, WorkerStep(r, w) PROVE FreshTable'
  <2>1. UNCHANGED handler /\ wpc[r][w] # "exited"
    BY <1>3, <1>a, WorkerIsLocal DEF handlerVars
  <2>2. handler[r] \notin {"listen", "reply"}
    BY <1>a, <2>1 DEF Lifecycle
  <2>3. \A s \in Relays, k \in Keys : s # r => table'[s][k] = table[s][k]
    <3>1. CASE Install(r, w)
      BY <1>t, <3>1 DEF Install
    <3>2. CASE RecheckDone(r, w)
      BY <1>t, <3>2 DEF RecheckDone, DeleteIf
    <3>3. CASE ~Install(r, w) /\ ~RecheckDone(r, w)
      BY <1>3, <3>3 DEF WorkerStep, Take, WorkerExits, CheckDone, Load, Join, Recheck, Refused,
         AcquireToken, DialFails, DialSucceeds, CloseVictim, Undo, Write, Touch
    <3> QED
      BY <3>1, <3>2, <3>3
  <2> QED
    BY <1>1, <2>1, <2>2, <2>3
<1>4. ASSUME NEW e \in Entries, ReverseStep(e) PROVE FreshTable'
  <2>1. UNCHANGED handler
    BY <1>4 DEF ReverseStep, Receive, Discard, ReadError, ReadTimeout, ReverseCloses,
       ReverseDeletes, handlerVars
  <2>2. \A s \in Relays, k \in Keys : table'[s][k] \in {NoEntry, table[s][k]}
    <3>1. CASE ReverseDeletes(e)
      <4>1. owner[e] \in Relays /\ key[e] \in Keys
        BY <1>a DEF TypeOK, EntryTypeOK
      <4> QED
        BY <1>a, <3>1, <4>1, DeleteIfFacts DEF ReverseDeletes
    <3>2. CASE ~ReverseDeletes(e)
      BY <1>4, <3>2 DEF ReverseStep, Receive, Discard, ReadError, ReadTimeout, ReverseCloses
    <3> QED
      BY <3>1, <3>2
  <2> QED
    BY <1>1, <2>1, <2>2
<1>5. CASE Tick \/ UNCHANGED vars
    BY <1>1, <1>5 DEF Tick, vars, handlerVars
<1> QED
    BY <1>2, <1>3, <1>4, <1>5 DEF Next

(***************************************************************************)
(* The invariant and what follows from it.                                 *)
(***************************************************************************)
\* Initially nothing is open or installed.
LEMMA ShutInit == Init => ShutInv
<1> SUFFICES ASSUME Init PROVE ShutInv
    OBVIOUS
<1>1. DeleteAfterClose /\ OpenIsCovered /\ LateInstallIsTemporary /\ FreshTable
    BY DEF Init, DeleteAfterClose, OpenIsCovered, LateInstallIsTemporary, FreshTable
<1> QED
    BY <1>1, FlowInit DEF ShutInv

\* Every step keeps the invariant.
LEMMA ShutStep == ShutInv /\ [Next]_vars => ShutInv'
BY FlowStep, DeleteAfterCloseStep, CoverStep, LateInstallStep, FreshTableStep DEF ShutInv

\* The invariant holds in every state.
THEOREM ShutInvariant == Spec => []ShutInv
BY ShutInit, ShutStep, PTL DEF Spec

\* Once Close is over, only workers still inside getOrCreateNAT hold sockets of the
\* association: Drain racing Install strands none.
THEOREM CloseStrandsNoSocket == Spec => []NoStrandedSocket
<1>1. ASSUME ShutInv PROVE NoStrandedSocket
  <2> SUFFICES ASSUME NEW r \in Relays, closer[r] = "closed", NEW e \in Entries,
                      owner[e] = r, state[e] = "open"
               PROVE  \E w \in Workers : Creating(r, w) /\ e \in {went[r][w], victim[r][w]}
    BY DEF NoStrandedSocket, SocketsOf
  <2>1. Covered(e)
    BY <1>1 DEF ShutInv, OpenIsCovered
  <2>2. drained[r] = {} /\ TableDrained(r)
    BY <1>1 DEF ShutInv, FlowInv, Lifecycle, TableDrained
  <2> QED
    BY <2>1, <2>2, CoverMeaning DEF Creating
<1> QED
    BY <1>1, ShutInvariant, PTL

\* When handleAssociate has returned, nothing of the association is left: no open
\* socket, no dial under way, no flow in the table.
THEOREM HandlerLeavesNothing == Spec => []NothingOutlivesHandler
<1>1. ASSUME ShutInv PROVE NothingOutlivesHandler
  <2> SUFFICES ASSUME NEW r \in Relays, handler[r] = "gone"
               PROVE  (\A e \in Held : owner[e] # r) /\ Installed(r) = {}
    BY DEF NothingOutlivesHandler
  <2>1. /\ closer[r] = "closed" /\ drained[r] = {} /\ TableDrained(r)
        /\ \A w \in Workers : wpc[r][w] = "exited"
    BY <1>1 DEF ShutInv, FlowInv, Lifecycle, TableDrained
  <2>2. Installed(r) = {}
    BY <1>1, <2>1 DEF ShutInv, LateInstallIsTemporary, Installed
  <2>3. ASSUME NEW e \in Held, owner[e] = r PROVE FALSE
    <3>1. state[e] # "dialing"
      BY <1>1, <2>1, <2>3 DEF ShutInv, FlowInv, DialingIsPrivate, Held
    <3>2. state[e] # "open"
      BY <1>1, <2>1, <2>3, NothingOpen DEF ShutInv, Held
    <3> QED
      BY <1>1, <3>1, <3>2 DEF ShutInv, FlowInv, TypeOK, EntryTypeOK, Held
  <2> QED
    BY <2>2, <2>3
<1> QED
    BY <1>1, ShutInvariant, PTL

(***************************************************************************)
(* The flow table: one creator per key, and no dead flow left installed.   *)
(***************************************************************************)
\* Where a worker is inside singleflight's function.
LeaderPCs == {"recheck", "acquire", "dial", "install", "evict", "redone", "undo"}

\* A worker inside the function leads the call of its key: at most one per key.
OneLeader ==
    \A r \in Relays, w \in Workers : wpc[r][w] \in LeaderPCs => flight[r][wkey[r][w]] = w

\* From the second lookup to Install the leader's slot stays empty.
SlotStaysFree ==
    \A r \in Relays, w \in Workers :
        wpc[r][w] \in {"acquire", "dial", "install"} => table[r][wkey[r][w]] = NoEntry

Uninstalled(e) == \A r \in Relays, k \in Keys : table[r][k] # e

\* A socket dialled and not yet installed is open and known to its worker only.
InstallIsPrivate ==
    \A r \in Relays, w \in Workers : wpc[r][w] = "install" =>
        /\ state[went[r][w]] = "open"
        /\ Uninstalled(went[r][w])
        /\ \A s \in Relays : went[r][w] \notin drained[s]
        /\ \A s \in Relays, v \in Workers : victim[s][v] # went[r][w]
        /\ \A s \in Relays, v \in Workers : went[s][v] = went[r][w] => s = r /\ v = w

\* The reverse relay of an entry starts when its creation is over.
NotYetRelayed ==
    \A r \in Relays, w \in Workers : Creating(r, w) => rev[went[r][w]] = "none"

\* What Drain, an eviction or the check after Install took out of the table, to be
\* closed, is not in it any more.
Withdrawn ==
    /\ \A r \in Relays : \A e \in drained[r] : Uninstalled(e)
    /\ \A r \in Relays, w \in Workers : wpc[r][w] = "evict" => Uninstalled(victim[r][w])
    /\ \A r \in Relays, w \in Workers : wpc[r][w] = "undo" => Uninstalled(went[r][w])

TableInv ==
    /\ ShutInv
    /\ OneLeader
    /\ SlotStaysFree
    /\ InstallIsPrivate
    /\ NotYetRelayed
    /\ Withdrawn
    /\ ClosedFlowIsLeaving

\* What a worker's step does to the other workers: it may end their wait.
LEMMA OthersStay ==
    ASSUME TypeOK, NEW r \in Relays, NEW w \in Workers, WorkerStep(r, w)
    PROVE  \A s \in Relays, v \in Workers : s # r \/ v # w =>
              /\ wkey'[s][v] = wkey[s][v] /\ victim'[s][v] = victim[s][v]
              /\ \/ wpc'[s][v] = wpc[s][v] /\ went'[s][v] = went[s][v]
                 \/ wpc[s][v] = "wait" /\ wpc'[s][v] \in {"idle", "write"}
<1>t. /\ wkey \in [Relays -> [Workers -> Keys]]
      /\ went \in [Relays -> [Workers -> Entries \cup {NoEntry}]]
      /\ victim \in [Relays -> [Workers -> Entries \cup {NoEntry}]]
      /\ wpc \in [Relays -> [Workers -> WorkerPCs]]
      /\ table \in [Relays -> [Keys -> Entries \cup {NoEntry}]]
    BY DEF TypeOK, RelayTypeOK, WorkerTypeOK
<1>k. wkey[r][w] \in Keys /\ went[r][w] \in Entries \cup {NoEntry}
    BY <1>t
<1>1. \A s \in Relays, v \in Workers : s # r \/ v # w =>
         wkey'[s][v] = wkey[s][v] /\ victim'[s][v] = victim[s][v]
    BY <1>t DEF WorkerStep, Take, WorkerExits, CheckDone, Load, Join, Recheck, Refused,
       AcquireToken, DialFails, DialSucceeds, Install, CloseVictim, RecheckDone, Undo, Write, Touch
<1>2. \/ \E f \in Entries \cup {NoEntry} : Finish(r, w, f)
      \/ /\ \A s \in Relays, v \in Workers : s # r \/ v # w => wpc'[s][v] = wpc[s][v]
         /\ \A s \in Relays, v \in Workers : s # r \/ v # w => went'[s][v] = went[s][v]
  <2>1. CASE Take(r, w) \/ WorkerExits(r, w) \/ CheckDone(r, w) \/ Load(r, w) \/ Join(r, w)
             \/ AcquireToken(r, w)
    BY <1>t, <2>1 DEF Take, WorkerExits, CheckDone, Load, Join, AcquireToken, Goto
  <2>2. CASE DialSucceeds(r, w) \/ CloseVictim(r, w) \/ Write(r, w) \/ Touch(r, w)
    BY <1>t, <2>2 DEF DialSucceeds, CloseVictim, Write, Touch, Goto
  <2>3. CASE Refused(r, w) \/ DialFails(r, w) \/ Undo(r, w)
    BY <2>3 DEF Refused, DialFails, Undo
  <2>4. CASE Recheck(r, w)
    <3>1. \/ Finish(r, w, table[r][wkey[r][w]])
          \/ Goto(r, w, "acquire") /\ UNCHANGED went
      BY <2>4 DEF Recheck
    <3> QED
      BY <1>t, <1>k, <3>1 DEF Goto
  <2>5. CASE Install(r, w)
    <3>1. \/ Finish(r, w, table[r][wkey[r][w]])
          \/ (Goto(r, w, "redone") \/ Goto(r, w, "evict")) /\ UNCHANGED went
      BY <2>5 DEF Install
    <3> QED
      BY <1>t, <1>k, <3>1 DEF Goto
  <2>6. CASE RecheckDone(r, w)
    <3>1. \/ Finish(r, w, went[r][w])
          \/ Goto(r, w, "undo") /\ UNCHANGED went
      BY <2>6 DEF RecheckDone
    <3> QED
      BY <1>t, <1>k, <3>1 DEF Goto
  <2> QED
    BY <2>1, <2>2, <2>3, <2>4, <2>5, <2>6 DEF WorkerStep
<1>3. ASSUME NEW f \in Entries \cup {NoEntry}, Finish(r, w, f)
      PROVE  \A s \in Relays, v \in Workers : s # r \/ v # w =>
                \/ wpc'[s][v] = wpc[s][v] /\ went'[s][v] = went[s][v]
                \/ wpc[s][v] = "wait" /\ wpc'[s][v] \in {"idle", "write"}
    BY <1>3, FinishFacts DEF Answered
<1> QED
    BY <1>1, <1>2, <1>3

\* The step of a worker either leaves the singleflight calls alone, or ends the one it
\* leads, or starts one.
LEMMA FlightStep ==
    ASSUME TypeOK, NEW r \in Relays, NEW w \in Workers, WorkerStep(r, w)
    PROVE  \/ /\ UNCHANGED flight
              /\ wpc'[r][w] \in LeaderPCs => wpc[r][w] \in LeaderPCs /\ wkey'[r][w] = wkey[r][w]
           \/ /\ wpc[r][w] \in LeaderPCs /\ wpc'[r][w] \notin LeaderPCs
              /\ flight' = [flight EXCEPT ![r][wkey[r][w]] = NoWorker]
           \/ /\ flight[r][wkey[r][w]] = NoWorker /\ wkey'[r][w] = wkey[r][w]
              /\ flight' = [flight EXCEPT ![r][wkey[r][w]] = w]
<1>t. /\ wkey \in [Relays -> [Workers -> Keys]]
      /\ wpc \in [Relays -> [Workers -> WorkerPCs]]
      /\ wkey[r][w] \in Keys /\ went[r][w] \in Entries \cup {NoEntry}
      /\ table[r][wkey[r][w]] \in Entries \cup {NoEntry}
    BY DEF TypeOK, RelayTypeOK, WorkerTypeOK
<1>g. ASSUME NEW pc \in WorkerPCs, Goto(r, w, pc) PROVE wpc'[r][w] = pc
    BY <1>g, GotoFacts
<1>f. ASSUME NEW f \in Entries \cup {NoEntry}, Finish(r, w, f), wpc[r][w] \in LeaderPCs
      PROVE  /\ wpc[r][w] \in LeaderPCs /\ wpc'[r][w] \notin LeaderPCs
             /\ flight' = [flight EXCEPT ![r][wkey[r][w]] = NoWorker]
  <2>1. w \in Answered(r, w)
    BY DEF Answered
  <2>2. wpc'[r][w] \in {"idle", "write"}
    BY <1>f, <2>1, FinishFacts
  <2> QED
    BY <1>f, <2>2 DEF Finish, LeaderPCs
<1>1. CASE Take(r, w) \/ WorkerExits(r, w) \/ CheckDone(r, w) \/ Load(r, w)
           \/ Write(r, w) \/ Touch(r, w)
  <2>1. UNCHANGED flight /\ wpc'[r][w] \notin LeaderPCs
    BY <1>1, <1>t DEF Take, WorkerExits, CheckDone, Load, Write, Touch, Goto, LeaderPCs, workerVars
  <2> QED
    BY <2>1
<1>2. CASE Join(r, w)
    BY <1>2, <1>t DEF Join, Goto, LeaderPCs
<1>3. CASE Recheck(r, w)
    BY <1>3, <1>t, <1>f, <1>g DEF Recheck, LeaderPCs, WorkerPCs
<1>4. CASE Refused(r, w) \/ DialFails(r, w) \/ Undo(r, w)
    BY <1>4, <1>f DEF Refused, DialFails, Undo, LeaderPCs
<1>5. CASE AcquireToken(r, w) \/ DialSucceeds(r, w) \/ CloseVictim(r, w)
    BY <1>5 DEF AcquireToken, DialSucceeds, CloseVictim, LeaderPCs
<1>6. CASE Install(r, w)
    BY <1>6, <1>t, <1>f DEF Install, LeaderPCs
<1>7. CASE RecheckDone(r, w)
    BY <1>7, <1>t, <1>f DEF RecheckDone, LeaderPCs
<1> QED
    BY <1>1, <1>2, <1>3, <1>4, <1>5, <1>6, <1>7 DEF WorkerStep

\* No other step moves a worker, but for the start of the pool, or installs an entry.
LEMMA OutsideWorkers ==
    ASSUME TypeOK,
           \/ \E r \in Relays : RelayStep(r)
           \/ \E e \in Entries : ReverseStep(e)
           \/ Tick \/ UNCHANGED vars
    PROVE  /\ UNCHANGED <<wkey, went, victim, flight, owner, key>>
           /\ \A s \in Relays, v \in Workers : wpc'[s][v] \in {"idle", wpc[s][v]}
           /\ \A s \in Relays, k \in Keys : table'[s][k] \in {NoEntry, table[s][k]}
<1> USE DEF handlerVars, poolVars, workerVars, idVars, entryVars
<1>t. /\ table \in [Relays -> [Keys -> Entries \cup {NoEntry}]]
      /\ wpc \in [Relays -> [Workers -> WorkerPCs]]
      /\ owner \in [Entries -> Relays] /\ key \in [Entries -> Keys]
    BY DEF TypeOK, RelayTypeOK, WorkerTypeOK, EntryTypeOK
<1>1. ASSUME NEW r \in Relays, RelayStep(r)
      PROVE  /\ UNCHANGED <<wkey, went, victim, flight, owner, key>>
             /\ \A s \in Relays, v \in Workers : wpc'[s][v] \in {"idle", wpc[s][v]}
             /\ \A s \in Relays, k \in Keys : table'[s][k] \in {NoEntry, table[s][k]}
  <2>1. CASE Reply(r)
    BY <1>t, <2>1 DEF Reply
  <2>2. CASE Drain(r)
    BY <1>t, <2>2 DEF Drain
  <2>3. CASE ~Reply(r) /\ ~Drain(r)
    BY <1>1, <2>3 DEF RelayStep, Associate, ListenFails, Listen, ReplyFails,
       ControlClosed, HandlerReturns, CloseDone, CloseSocket, CloseDrained,
       ReleaseAssociation, ReadDatagram, ReaderStops, WorkersJoined, RunReturns
  <2> QED
    BY <2>1, <2>2, <2>3
<1>2. ASSUME NEW e \in Entries, ReverseStep(e)
      PROVE  /\ UNCHANGED <<wkey, went, victim, flight, owner, key, wpc>>
             /\ \A s \in Relays, k \in Keys : table'[s][k] \in {NoEntry, table[s][k]}
  <2>1. CASE ReverseDeletes(e)
    <3>1. owner[e] \in Relays /\ key[e] \in Keys /\ DeleteIf(owner[e], key[e], e)
      BY <1>t, <2>1 DEF ReverseDeletes
    <3> QED
      BY <2>1, <3>1, DeleteIfFacts DEF ReverseDeletes
  <2>2. CASE ~ReverseDeletes(e)
    BY <1>2, <2>2 DEF ReverseStep, Receive, Discard, ReadError, ReadTimeout, ReverseCloses
  <2> QED
    BY <2>1, <2>2
<1>3. CASE Tick \/ UNCHANGED vars
    BY <1>3 DEF Tick, vars
<1> QED
    BY <1>1, <1>2, <1>3

\* A worker's step installs at most the entry in its hands, in its own empty slot.
LEMMA WorkerTable ==
    ASSUME FlowInv, NEW r \in Relays, NEW w \in Workers, WorkerStep(r, w),
           NEW s \in Relays, NEW k \in Keys
    PROVE  \/ table'[s][k] \in {NoEntry, table[s][k]}
           \/ /\ wpc[r][w] = "install" /\ table[r][wkey[r][w]] = NoEntry
              /\ s = r /\ k = wkey[r][w] /\ table'[s][k] = went[r][w]
<1>t. /\ TypeOK /\ table \in [Relays -> [Keys -> Entries \cup {NoEntry}]] /\ wkey[r][w] \in Keys
    BY DEF FlowInv, TypeOK, RelayTypeOK, WorkerTypeOK
<1>1. CASE Install(r, w)
  <2>1. CASE table[r][wkey[r][w]] # NoEntry
    BY <1>1, <2>1 DEF Install
  <2>2. CASE table[r][wkey[r][w]] = NoEntry /\ ~Full(r)
    <3>1. table' = [table EXCEPT ![r][wkey[r][w]] = went[r][w]]
      BY <1>1, <2>2 DEF Install
    <3> QED
      BY <1>1, <1>t, <2>2, <3>1 DEF Install
  <2>3. CASE table[r][wkey[r][w]] = NoEntry /\ Full(r)
    <3>1. PICK old \in Keys :
             table' = [table EXCEPT ![r] = [@ EXCEPT ![old] = NoEntry, ![wkey[r][w]] = went[r][w]]]
      BY <1>1, <2>3 DEF Install, LeastRecentlySeen, Installed
    <3> QED
      BY <1>1, <1>t, <2>3, <3>1 DEF Install
  <2> QED
    BY <2>1, <2>2, <2>3
<1>2. CASE RecheckDone(r, w)
  <2>1. went[r][w] \in Entries
    BY <1>2 DEF RecheckDone, FlowInv, WorkerFlow, HandsOn
  <2> QED
    BY <1>2, <1>t, <2>1, DeleteIfFacts DEF RecheckDone
<1>3. CASE ~Install(r, w) /\ ~RecheckDone(r, w)
    BY <1>3 DEF WorkerStep, Take, WorkerExits, CheckDone, Load, Join, Recheck, Refused,
       AcquireToken, DialFails, DialSucceeds, CloseVictim, Undo, Write, Touch
<1> QED
    BY <1>1, <1>2, <1>3

\* Where the entry comes from that a worker's step puts into a worker's hands.
LEMMA WorkerHands ==
    ASSUME FlowInv, NEW r \in Relays, NEW w \in Workers, WorkerStep(r, w),
           NEW s \in Relays, NEW v \in Workers
    PROVE  \/ went'[s][v] \in {NoEntry, went[s][v]}
           \/ \E k \in Keys : went'[s][v] = table[r][k]
           \/ wpc[r][w] = "redone" /\ went'[s][v] = went[r][w]
           \/ wpc[r][w] = "acquire" /\ went'[s][v] \in FreeEntries
<1>t. /\ TypeOK /\ table \in [Relays -> [Keys -> Entries \cup {NoEntry}]] /\ wkey[r][w] \in Keys
      /\ went \in [Relays -> [Workers -> Entries \cup {NoEntry}]]
      /\ table[r][wkey[r][w]] \in Entries \cup {NoEntry} /\ went[r][w] \in Entries \cup {NoEntry}
    BY DEF FlowInv, TypeOK, RelayTypeOK, WorkerTypeOK
<1>f. ASSUME NEW f \in Entries \cup {NoEntry}, Finish(r, w, f) PROVE went'[s][v] \in {f, went[s][v]}
  <2>1. CASE s = r /\ v \in Answered(r, w)
    BY <1>t, <1>f, <2>1, FinishFacts
  <2>2. CASE s # r \/ v \notin Answered(r, w)
    BY <1>t, <1>f, <2>2, FinishFacts
  <2> QED
    BY <2>1, <2>2
<1>1. CASE Take(r, w) \/ WorkerExits(r, w) \/ CheckDone(r, w) \/ Join(r, w)
           \/ DialSucceeds(r, w) \/ CloseVictim(r, w)
    BY <1>1 DEF Take, WorkerExits, CheckDone, Join, DialSucceeds, CloseVictim
<1>2. CASE Load(r, w) \/ Write(r, w) \/ Touch(r, w)
    BY <1>t, <1>2 DEF Load, Write, Touch
<1>3. CASE AcquireToken(r, w)
    BY <1>t, <1>3 DEF AcquireToken
<1>4. CASE Refused(r, w) \/ DialFails(r, w) \/ Undo(r, w)
    BY <1>f, <1>4 DEF Refused, DialFails, Undo
<1>5. CASE Recheck(r, w)
    BY <1>f, <1>t, <1>5 DEF Recheck
<1>6. CASE Install(r, w)
    BY <1>f, <1>t, <1>6 DEF Install
<1>7. CASE RecheckDone(r, w)
    BY <1>f, <1>t, <1>7 DEF RecheckDone
<1> QED
    BY <1>1, <1>2, <1>3, <1>4, <1>5, <1>6, <1>7 DEF WorkerStep

\* The entry a worker's step evicts is taken out of the table.
LEMMA WorkerVictim ==
    ASSUME FlowInv, NEW r \in Relays, NEW w \in Workers, WorkerStep(r, w)
    PROVE  \/ victim'[r][w] \in {NoEntry, victim[r][w]} /\ wpc'[r][w] # "evict"
           \/ /\ wpc[r][w] = "install" /\ table[r][wkey[r][w]] = NoEntry
              /\ \E old \in Keys : /\ victim'[r][w] = table[r][old] /\ table[r][old] # NoEntry
                                   /\ table'[r][old] = NoEntry
<1>t. /\ TypeOK /\ table \in [Relays -> [Keys -> Entries \cup {NoEntry}]] /\ wkey[r][w] \in Keys
      /\ victim \in [Relays -> [Workers -> Entries \cup {NoEntry}]]
      /\ table[r][wkey[r][w]] \in Entries \cup {NoEntry} /\ went[r][w] \in Entries \cup {NoEntry}
      /\ wpc \in [Relays -> [Workers -> WorkerPCs]]
    BY DEF FlowInv, TypeOK, RelayTypeOK, WorkerTypeOK
<1>f. ASSUME NEW f \in Entries \cup {NoEntry}, Finish(r, w, f) PROVE wpc'[r][w] # "evict"
  <2>1. w \in Answered(r, w)
    BY DEF Answered
  <2> QED
    BY <1>t, <1>f, <2>1, FinishFacts
<1>1. CASE Take(r, w) \/ WorkerExits(r, w) \/ CheckDone(r, w) \/ Load(r, w) \/ Join(r, w)
           \/ AcquireToken(r, w)
    BY <1>t, <1>1 DEF Take, WorkerExits, CheckDone, Load, Join, AcquireToken, Goto
<1>2. CASE DialSucceeds(r, w) \/ CloseVictim(r, w) \/ Write(r, w) \/ Touch(r, w)
    BY <1>t, <1>2 DEF DialSucceeds, CloseVictim, Write, Touch, Goto
<1>3. CASE Refused(r, w) \/ DialFails(r, w) \/ Undo(r, w)
    BY <1>f, <1>3 DEF Refused, DialFails, Undo
<1>4. CASE Recheck(r, w)
  <2>1. UNCHANGED victim /\ (Goto(r, w, "acquire") \/ Finish(r, w, table[r][wkey[r][w]]))
    BY <1>4 DEF Recheck
  <2> QED
    BY <1>f, <1>t, <2>1 DEF Goto
<1>5. CASE RecheckDone(r, w)
  <2>1. UNCHANGED victim /\ (Goto(r, w, "undo") \/ Finish(r, w, went[r][w]))
    BY <1>5 DEF RecheckDone
  <2> QED
    BY <1>f, <1>t, <2>1 DEF Goto
<1>6. CASE Install(r, w)
  <2>1. CASE table[r][wkey[r][w]] # NoEntry
    BY <1>f, <1>t, <1>6, <2>1 DEF Install
  <2>2. CASE table[r][wkey[r][w]] = NoEntry /\ ~Full(r)
    <3>1. UNCHANGED victim /\ Goto(r, w, "redone")
      BY <1>6, <2>2 DEF Install
    <3> QED
      BY <1>t, <3>1 DEF Goto
  <2>3. CASE table[r][wkey[r][w]] = NoEntry /\ Full(r)
    <3>1. PICK old \in Keys :
             /\ table[r][old] # NoEntry
             /\ table' = [table EXCEPT ![r] = [@ EXCEPT ![old] = NoEntry, ![wkey[r][w]] = went[r][w]]]
             /\ victim' = [victim EXCEPT ![r][w] = table[r][old]]
      BY <1>6, <2>3 DEF Install, LeastRecentlySeen, Installed
    <3>2. table'[r][old] = NoEntry /\ victim'[r][w] = table[r][old]
      BY <1>t, <2>3, <3>1
    <3> QED
      BY <1>6, <2>3, <3>1, <3>2 DEF Install
  <2> QED
    BY <2>1, <2>2, <2>3
<1> QED
    BY <1>1, <1>2, <1>3, <1>4, <1>5, <1>6 DEF WorkerStep

\* Which entries a worker's step opens or closes, and whose reverse relay it starts.
LEMMA WorkerEntries ==
    ASSUME FlowInv, InstallHasNoRival, NEW r \in Relays, NEW w \in Workers, WorkerStep(r, w),
           NEW e \in Entries
    PROVE  /\ \/ state'[e] = state[e]
              \/ wpc[r][w] = "acquire" /\ e \in FreeEntries /\ state'[e] = "dialing"
              \/ wpc[r][w] \in {"dial", "undo"} /\ e = went[r][w]
              \/ wpc[r][w] = "evict" /\ e = victim[r][w]
           /\ \/ rev'[e] = rev[e]
              \/ wpc[r][w] = "redone" /\ e = went[r][w] /\ ~Creating(r, w)'
<1>t. /\ TypeOK /\ state \in [Entries -> {"dialing", "open", "closed"}]
      /\ rev \in [Entries -> {"none", "read", "close", "delete"}]
      /\ went[r][w] \in Entries \cup {NoEntry}
    BY DEF FlowInv, TypeOK, WorkerTypeOK, EntryTypeOK
<1>1. CASE Take(r, w) \/ WorkerExits(r, w) \/ CheckDone(r, w) \/ Load(r, w) \/ Join(r, w)
           \/ Recheck(r, w) \/ Refused(r, w) \/ Write(r, w) \/ Touch(r, w)
    BY <1>1 DEF Take, WorkerExits, CheckDone, Load, Join, Recheck, Refused, Write, Touch, entryVars
<1>2. CASE AcquireToken(r, w)
    BY <1>t, <1>2 DEF AcquireToken
<1>3. CASE DialFails(r, w) \/ DialSucceeds(r, w) \/ Undo(r, w) \/ CloseVictim(r, w)
    BY <1>t, <1>3 DEF DialFails, DialSucceeds, Undo, CloseVictim, CloseEntry
<1>4. CASE Install(r, w)
    BY <1>4 DEF Install, InstallHasNoRival
<1>5. CASE RecheckDone(r, w)
  <2>1. CASE Done(r)
    BY <1>5, <2>1 DEF RecheckDone
  <2>2. CASE ~Done(r)
    <3>1. /\ UNCHANGED state /\ rev' = [rev EXCEPT ![went[r][w]] = "read"]
          /\ Finish(r, w, went[r][w]) /\ wpc[r][w] = "redone"
      BY <1>5, <2>2 DEF RecheckDone
    <3>2. w \in Answered(r, w)
      BY DEF Answered
    <3>3. wpc'[r][w] \in {"idle", "write"}
      BY <1>t, <3>1, <3>2, FinishFacts
    <3> QED
      BY <1>t, <3>1, <3>3 DEF Creating
  <2> QED
    BY <2>1, <2>2
<1> QED
    BY <1>1, <1>2, <1>3, <1>4, <1>5 DEF WorkerStep

\* How a worker comes to be creating an entry: one step after the other, with the same
\* entry in its hands.
LEMMA WorkerProgress ==
    ASSUME FlowInv, NEW r \in Relays, NEW w \in Workers, WorkerStep(r, w), Creating(r, w)'
    PROVE  /\ went'[r][w] = went[r][w] /\ wkey'[r][w] = wkey[r][w]
           /\ wpc[r][w] \in {"dial", "install", "evict", "redone"}
           /\ wpc[r][w] = "dial" <=> wpc'[r][w] = "install"
           /\ wpc'[r][w] = "install" => state'[went[r][w]] = "open"
           /\ wpc'[r][w] = "undo" =>
                 Done(r) /\ wpc[r][w] = "redone" /\ table'[r][wkey[r][w]] # went[r][w]
<1>t. /\ TypeOK /\ state \in [Entries -> {"dialing", "open", "closed"}] /\ wkey[r][w] \in Keys
      /\ went[r][w] \in Entries \cup {NoEntry} /\ table[r][wkey[r][w]] \in Entries \cup {NoEntry}
    BY DEF FlowInv, TypeOK, RelayTypeOK, WorkerTypeOK, EntryTypeOK
<1>h. wpc[r][w] \in HandsOn => went[r][w] \in Entries
    BY DEF FlowInv, WorkerFlow
<1>g. ASSUME NEW pc \in WorkerPCs, Goto(r, w, pc) PROVE wpc'[r][w] = pc
    BY <1>t, <1>g, GotoFacts
<1>f. ASSUME NEW f \in Entries \cup {NoEntry}, Finish(r, w, f) PROVE FALSE
  <2>1. w \in Answered(r, w)
    BY DEF Answered
  <2>2. wpc'[r][w] \in {"idle", "write"}
    BY <1>t, <1>f, <2>1, FinishFacts
  <2> QED
    BY <2>2 DEF Creating
<1>1. CASE Take(r, w) \/ WorkerExits(r, w) \/ CheckDone(r, w) \/ Load(r, w)
           \/ Join(r, w) \/ AcquireToken(r, w) \/ Write(r, w) \/ Touch(r, w)
    BY <1>1, <1>g DEF Take, WorkerExits, CheckDone, Load, Join, AcquireToken, Write, Touch,
       Creating, WorkerPCs
<1>2. CASE Recheck(r, w) \/ Refused(r, w) \/ DialFails(r, w) \/ Undo(r, w)
    BY <1>2, <1>t, <1>f, <1>g DEF Recheck, Refused, DialFails, Undo, Creating, WorkerPCs
<1>3. CASE DialSucceeds(r, w)
    BY <1>3, <1>t, <1>h, <1>g DEF DialSucceeds, WorkerPCs, HandsOn
<1>4. CASE Install(r, w)
    BY <1>4, <1>t, <1>f, <1>g DEF Install, WorkerPCs
<1>5. CASE CloseVictim(r, w)
    BY <1>5, <1>g DEF CloseVictim, WorkerPCs
<1>6. CASE RecheckDone(r, w)
  <2>1. wpc[r][w] = "redone" /\ went[r][w] \in Entries
    BY <1>6, <1>h DEF RecheckDone, HandsOn
  <2>2. /\ Done(r) /\ DeleteIf(r, wkey[r][w], went[r][w]) /\ Goto(r, w, "undo")
        /\ UNCHANGED <<went, wkey>>
    BY <1>6, <1>t, <1>f DEF RecheckDone
  <2>3. table'[r][wkey[r][w]] # went[r][w]
    BY <1>t, <2>1, <2>2, EntryIds, DeleteIfFacts
  <2> QED
    BY <1>g, <2>1, <2>2, <2>3 DEF WorkerPCs
<1> QED
    BY <1>1, <1>2, <1>3, <1>4, <1>5, <1>6 DEF WorkerStep

\* Two workers that create an entry at the same time create different ones.
LEMMA CreatorsDiffer ==
    ASSUME FlowInv, OneLeader, NEW r \in Relays, NEW s \in Relays,
           NEW v \in Workers, NEW w \in Workers, Creating(r, w), Creating(s, v),
           went[s][v] = went[r][w]
    PROVE  s = r /\ v = w
<1>1. /\ owner[went[r][w]] = r /\ key[went[r][w]] = wkey[r][w]
      /\ owner[went[s][v]] = s /\ key[went[s][v]] = wkey[s][v]
    BY DEF FlowInv, WorkerFlow, HandsOn, Creating
<1>2. flight[r][wkey[r][w]] = w /\ flight[s][wkey[s][v]] = v
    BY DEF OneLeader, LeaderPCs, Creating
<1> QED
    BY <1>1, <1>2

\* Singleflight never has two leaders for one key.
LEMMA OneLeaderStep ==
    ASSUME TypeOK, OneLeader, [Next]_vars
    PROVE  OneLeader'
<1>t. /\ flight \in [Relays -> [Keys -> Workers \cup {NoWorker}]]
      /\ wkey \in [Relays -> [Workers -> Keys]]
    BY DEF TypeOK, WorkerTypeOK
<1>1. ASSUME NEW r \in Relays, NEW w \in Workers, WorkerStep(r, w) PROVE OneLeader'
  <2> SUFFICES ASSUME NEW s \in Relays, NEW v \in Workers, wpc'[s][v] \in LeaderPCs
               PROVE  flight'[s][wkey'[s][v]] = v
    BY DEF OneLeader
  <2>1. CASE s = r /\ v = w
    <3>1. wkey[r][w] \in Keys
      BY <1>t
    <3>2. CASE UNCHANGED flight /\ wpc[r][w] \in LeaderPCs /\ wkey'[r][w] = wkey[r][w]
      BY <2>1, <3>2 DEF OneLeader
    <3>3. CASE wkey'[r][w] = wkey[r][w] /\ flight' = [flight EXCEPT ![r][wkey[r][w]] = w]
      BY <1>t, <2>1, <3>1, <3>3
    <3> QED
      BY <1>1, <2>1, <3>2, <3>3, FlightStep
  <2>2. CASE s # r \/ v # w
    <3>1. wpc[s][v] \in LeaderPCs /\ wkey'[s][v] = wkey[s][v]
      BY <1>1, <2>2, OthersStay DEF LeaderPCs
    <3>2. flight[s][wkey[s][v]] = v /\ wkey[s][v] \in Keys /\ wkey[r][w] \in Keys
      BY <1>t, <3>1 DEF OneLeader
    <3>3. CASE UNCHANGED flight
      BY <3>1, <3>2, <3>3
    <3>4. CASE wpc[r][w] \in LeaderPCs /\ flight' = [flight EXCEPT ![r][wkey[r][w]] = NoWorker]
      <4>1. flight[r][wkey[r][w]] = w
        BY <3>4 DEF OneLeader
      <4>2. s # r \/ wkey[s][v] # wkey[r][w]
        BY <2>2, <3>2, <4>1
      <4> QED
        BY <1>t, <3>1, <3>2, <3>4, <4>2
    <3>5. CASE /\ flight[r][wkey[r][w]] = NoWorker
               /\ flight' = [flight EXCEPT ![r][wkey[r][w]] = w]
      <4>1. s # r \/ wkey[s][v] # wkey[r][w]
        BY <3>2, <3>5, WorkerIds
      <4> QED
        BY <1>t, <3>1, <3>2, <3>5, <4>1
    <3> QED
      BY <1>1, <3>3, <3>4, <3>5, FlightStep
  <2> QED
    BY <2>1, <2>2
<1>2. CASE \/ \E r \in Relays : RelayStep(r)
           \/ \E e \in Entries : ReverseStep(e)
           \/ Tick \/ UNCHANGED vars
    BY <1>2, OutsideWorkers DEF OneLeader, LeaderPCs
<1> QED
    BY <1>1, <1>2 DEF Next

\* Nobody fills the slot the leader found empty.
LEMMA SlotStaysFreeStep ==
    ASSUME FlowInv, OneLeader, SlotStaysFree, [Next]_vars
    PROVE  SlotStaysFree'
<1>t. TypeOK /\ wkey \in [Relays -> [Workers -> Keys]] /\ wpc \in [Relays -> [Workers -> WorkerPCs]]
    BY DEF FlowInv, TypeOK, WorkerTypeOK
<1>1. ASSUME NEW r \in Relays, NEW w \in Workers, WorkerStep(r, w) PROVE SlotStaysFree'
  <2> SUFFICES ASSUME NEW s \in Relays, NEW v \in Workers, wpc'[s][v] \in {"acquire", "dial", "install"}
               PROVE  table'[s][wkey'[s][v]] = NoEntry
    BY DEF SlotStaysFree
  <2>1. CASE s = r /\ v = w
    <3>1. /\ wkey'[r][w] = wkey[r][w] /\ wpc[r][w] # "install"
          /\ table[r][wkey[r][w]] = NoEntry
      <4>t. /\ wkey[r][w] \in Keys /\ went[r][w] \in Entries \cup {NoEntry}
            /\ table[r][wkey[r][w]] \in Entries \cup {NoEntry}
        BY <1>t DEF TypeOK, RelayTypeOK, WorkerTypeOK
      <4>g. ASSUME NEW pc \in WorkerPCs, Goto(r, w, pc) PROVE wpc'[r][w] = pc
        BY <1>t, <4>g, GotoFacts
      <4>f. ASSUME NEW f \in Entries \cup {NoEntry}, Finish(r, w, f) PROVE FALSE
        <5>1. w \in Answered(r, w)
          BY DEF Answered
        <5> QED
          BY <1>t, <2>1, <4>f, <5>1, FinishFacts
      <4>1. CASE Take(r, w) \/ WorkerExits(r, w) \/ CheckDone(r, w) \/ Load(r, w)
                 \/ Join(r, w) \/ Write(r, w) \/ Touch(r, w) \/ CloseVictim(r, w)
        BY <1>t, <2>1, <4>1 DEF Take, WorkerExits, CheckDone, Load, Join, Write, Touch,
           CloseVictim, Goto
      <4>2. CASE Refused(r, w) \/ DialFails(r, w) \/ Undo(r, w)
        BY <4>2, <4>f DEF Refused, DialFails, Undo
      <4>3. CASE Recheck(r, w)
        BY <4>3, <4>t, <4>f DEF Recheck
      <4>4. CASE AcquireToken(r, w) \/ DialSucceeds(r, w)
        BY <4>4 DEF AcquireToken, DialSucceeds, SlotStaysFree
      <4>5. CASE Install(r, w)
        BY <2>1, <4>5, <4>t, <4>f, <4>g DEF Install, WorkerPCs
      <4>6. CASE RecheckDone(r, w)
        BY <2>1, <4>6, <4>t, <4>f, <4>g DEF RecheckDone, WorkerPCs
      <4> QED
        BY <1>1, <4>1, <4>2, <4>3, <4>4, <4>5, <4>6 DEF WorkerStep
    <3> QED
      BY <1>1, <1>t, <2>1, <3>1, WorkerTable
  <2>2. CASE s # r \/ v # w
    <3>1. wpc[s][v] \in {"acquire", "dial", "install"} /\ wkey'[s][v] = wkey[s][v]
      BY <1>1, <1>t, <2>2, OthersStay
    <3>2. table[s][wkey[s][v]] = NoEntry /\ flight[s][wkey[s][v]] = v /\ wkey[s][v] \in Keys
      BY <1>t, <3>1 DEF SlotStaysFree, OneLeader, LeaderPCs
    <3>3. wpc[r][w] = "install" => flight[r][wkey[r][w]] = w
      BY DEF OneLeader, LeaderPCs
    <3>4. ~(wpc[r][w] = "install" /\ s = r /\ wkey[s][v] = wkey[r][w])
      BY <2>2, <3>2, <3>3
    <3> QED
      BY <1>1, <3>1, <3>2, <3>4, WorkerTable
  <2> QED
    BY <2>1, <2>2
<1>2. CASE \/ \E r \in Relays : RelayStep(r)
           \/ \E e \in Entries : ReverseStep(e)
           \/ Tick \/ UNCHANGED vars
  <2>1. /\ UNCHANGED wkey
        /\ \A s \in Relays, v \in Workers : wpc'[s][v] \in {"idle", wpc[s][v]}
        /\ \A s \in Relays, k \in Keys : table'[s][k] \in {NoEntry, table[s][k]}
    BY <1>2, <1>t, OutsideWorkers
  <2> QED
    BY <1>t, <2>1 DEF SlotStaysFree
<1> QED
    BY <1>1, <1>2 DEF Next

\* What the steps of others than the workers close, drain and delete.
LEMMA OutsideEntries ==
    ASSUME FlowInv,
           \/ \E r \in Relays : RelayStep(r)
           \/ \E e \in Entries : ReverseStep(e)
           \/ Tick \/ UNCHANGED vars,
           NEW e \in Entries
    PROVE  /\ \/ state'[e] = state[e]
              \/ \E r \in Relays : e \in drained[r]
              \/ rev[e] # "none" /\ rev'[e] = "delete"
           /\ \/ rev'[e] = rev[e]
              \/ rev[e] # "none" /\ rev'[e] = "delete"
              \/ rev[e] = "read"
              \/ rev[e] = "delete" /\ rev'[e] = "none" /\ Uninstalled(e)'
           /\ \A r \in Relays : e \in drained'[r] =>
                 e \in drained[r] \/ ((\E k \in Keys : table[r][k] = e) /\ Uninstalled(e)')
<1>t. /\ TypeOK /\ TableMatches
      /\ table \in [Relays -> [Keys -> Entries \cup {NoEntry}]]
      /\ state \in [Entries -> {"dialing", "open", "closed"}]
      /\ rev \in [Entries -> {"none", "read", "close", "delete"}]
      /\ drained \in [Relays -> SUBSET Entries]
      /\ owner \in [Entries -> Relays] /\ key \in [Entries -> Keys]
    BY DEF FlowInv, TypeOK, RelayTypeOK, EntryTypeOK
<1> USE DEF handlerVars, poolVars, workerVars, idVars, entryVars
<1>1. ASSUME NEW r \in Relays, Drain(r)
      PROVE  /\ UNCHANGED <<state, rev>>
             /\ \A s \in Relays : e \in drained'[s] =>
                   e \in drained[s] \/ ((\E k \in Keys : table[s][k] = e) /\ Uninstalled(e)')
  <2>1. /\ UNCHANGED <<state, rev>>
        /\ drained' = [drained EXCEPT ![r] = {table[r][k] : k \in Installed(r)}]
        /\ table' = [table EXCEPT ![r] = [k \in Keys |-> NoEntry]]
    BY <1>1 DEF Drain
  <2>2. ASSUME NEW s \in Relays, e \in drained'[s], e \notin drained[s]
        PROVE  (\E k \in Keys : table[s][k] = e) /\ Uninstalled(e)'
    <3>1. s = r /\ e \in {table[r][k] : k \in Installed(r)}
      BY <1>t, <2>1, <2>2
    <3>2. PICK k \in Keys : table[r][k] = e
      BY <3>1 DEF Installed
    <3>3. owner[e] = r
      BY <1>t, <3>2, EntryIds DEF TableMatches
    <3>4. \A q \in Relays, l \in Keys : table'[q][l] # e
      BY <1>t, <2>1, <3>3, EntryIds DEF TableMatches
    <3> QED
      BY <3>1, <3>2, <3>4 DEF Uninstalled
  <2> QED
    BY <2>1, <2>2
<1>2. ASSUME NEW r \in Relays, NEW f \in Entries, CloseDrained(r, f)
      PROVE  /\ UNCHANGED rev /\ (state'[e] = state[e] \/ e \in drained[r])
             /\ \A s \in Relays : drained'[s] \subseteq drained[s]
    BY <1>2, <1>t DEF CloseDrained, CloseEntry
<1>3. ASSUME NEW r \in Relays, RelayStep(r), ~Drain(r), ~\E f \in Entries : CloseDrained(r, f)
      PROVE  UNCHANGED <<state, rev, drained>>
    BY <1>3 DEF RelayStep, Associate, ListenFails, Listen, ReplyFails, Reply,
       ControlClosed, HandlerReturns, CloseDone, CloseSocket,
       ReleaseAssociation, ReadDatagram, ReaderStops, WorkersJoined, RunReturns
<1>4. ASSUME NEW f \in Entries, ReverseStep(f)
      PROVE  /\ UNCHANGED drained
             /\ state'[e] = state[e] \/ (rev[e] # "none" /\ rev'[e] = "delete")
             /\ \/ rev'[e] = rev[e]
                \/ rev[e] # "none" /\ rev'[e] = "delete"
                \/ rev[e] = "read"
                \/ rev[e] = "delete" /\ rev'[e] = "none" /\ Uninstalled(e)'
  <2>1. CASE Receive(f) \/ Discard(f) \/ ReadError(f) \/ ReadTimeout(f)
    BY <1>t, <2>1 DEF Receive, Discard, ReadError, ReadTimeout
  <2>2. CASE ReverseCloses(f)
    BY <1>t, <2>2 DEF ReverseCloses, CloseEntry
  <2>3. CASE ReverseDeletes(f)
    <3>1. /\ UNCHANGED <<drained, state>> /\ rev' = [rev EXCEPT ![f] = "none"] /\ rev[f] = "delete"
          /\ DeleteIf(owner[f], key[f], f)
      BY <2>3 DEF ReverseDeletes
    <3>2. CASE e # f
      BY <1>t, <3>1, <3>2
    <3>3. CASE e = f
      <4>1. owner[e] \in Relays /\ key[e] \in Keys
        BY <1>t
      <4>2. /\ \A s \in Relays, l \in Keys : table'[s][l] \in {NoEntry, table[s][l]}
            /\ table'[owner[e]][key[e]] =
                  IF table[owner[e]][key[e]] = e THEN NoEntry ELSE table[owner[e]][key[e]]
        BY <1>t, <3>1, <3>3, <4>1, DeleteIfFacts
      <4>3. Uninstalled(e)'
        BY <1>t, <4>1, <4>2, EntryIds DEF Uninstalled, TableMatches
      <4> QED
        BY <1>t, <3>1, <3>3, <4>3
    <3> QED
      BY <3>2, <3>3
  <2> QED
    BY <1>4, <2>1, <2>2, <2>3 DEF ReverseStep
<1>5. CASE Tick \/ UNCHANGED vars
    BY <1>5 DEF Tick, vars
<1> QED
    BY <1>1, <1>2, <1>3, <1>4, <1>5

\* A freshly dialled socket stays with its worker until it is installed.
LEMMA InstallIsPrivateStep ==
    ASSUME TableInv, [Next]_vars
    PROVE  InstallIsPrivate'
<1>a. FlowInv /\ OneLeader /\ InstallIsPrivate /\ NotYetRelayed /\ InstallHasNoRival
    BY DEF TableInv, ShutInv, SlotStaysFree, InstallHasNoRival
<1>b. TypeOK /\ WorkerFlow /\ TableMatches /\ DialingIsPrivate
    BY <1>a DEF FlowInv
<1>t. /\ went \in [Relays -> [Workers -> Entries \cup {NoEntry}]]
      /\ state \in [Entries -> {"dialing", "open", "closed"}]
      /\ wkey \in [Relays -> [Workers -> Keys]]
    BY <1>b DEF TypeOK, WorkerTypeOK, EntryTypeOK
<1>1. ASSUME NEW r \in Relays, NEW w \in Workers, WorkerStep(r, w) PROVE InstallIsPrivate'
  <2> SUFFICES ASSUME NEW s \in Relays, NEW v \in Workers, wpc'[s][v] = "install"
               PROVE  /\ state'[went'[s][v]] = "open"
                      /\ \A q \in Relays, k \in Keys : table'[q][k] # went'[s][v]
                      /\ \A q \in Relays : went'[s][v] \notin drained'[q]
                      /\ \A q \in Relays, u \in Workers : victim'[q][u] # went'[s][v]
                      /\ \A q \in Relays, u \in Workers : went'[q][u] = went'[s][v] => q = s /\ u = v
    BY DEF InstallIsPrivate, Uninstalled
  <2>d. UNCHANGED drained
    BY <1>1, <1>b, WorkerIsLocal DEF handlerVars
  <2>1. CASE s = r /\ v = w
    <3> DEFINE e == went[r][w]
    <3>1. /\ went'[r][w] = e /\ wpc[r][w] = "dial" /\ state'[e] = "open"
      BY <1>1, <1>a, <2>1, WorkerProgress DEF Creating
    <3>2. e \in Entries /\ owner[e] = r /\ state[e] = "dialing"
      BY <1>b, <3>1 DEF WorkerFlow, HandsOn, DialingIsPrivate
    <3>3. /\ rev[e] = "none" /\ \A q \in Relays : e \notin drained[q]
          /\ \A q \in Relays, k \in Keys : table[q][k] # e
          /\ \A q \in Relays, u \in Workers : victim[q][u] # e
          /\ \A q \in Relays, u \in Workers : went[q][u] = e => wpc[q][u] = "dial"
      BY <1>b, <3>2 DEF DialingIsPrivate
    <3>4. UNCHANGED <<table, victim, went>>
      <4>1. DialSucceeds(r, w) \/ DialFails(r, w)
        BY <1>1, <3>1 DEF WorkerStep, Take, WorkerExits, CheckDone, Load, Join, Recheck, Refused,
           AcquireToken, Install, CloseVictim, RecheckDone, Undo, Write, Touch
      <4>2. ~DialFails(r, w)
        BY <1>t, <3>1, <3>2 DEF DialFails
      <4> QED
        BY <4>1, <4>2 DEF DialSucceeds
    <3>5. ASSUME NEW q \in Relays, NEW u \in Workers, went[q][u] = e PROVE q = r /\ u = w
      <4>1. wpc[q][u] = "dial"
        BY <3>3, <3>5
      <4>2. q = r
        BY <1>b, <3>2, <3>5, <4>1 DEF WorkerFlow, HandsOn
      <4> QED
        BY <1>b, <3>1, <3>5, <4>1, <4>2 DEF DialingIsPrivate
    <3> HIDE DEF e
    <3> QED
      BY <2>1, <2>d, <3>1, <3>3, <3>4, <3>5 DEF Uninstalled
  <2>2. CASE s # r \/ v # w
    <3>0. wpc[s][v] = "install" /\ went'[s][v] = went[s][v]
      BY <1>1, <1>b, <2>2, OthersStay
    <3>1. PICK e \in Entries : e = went[s][v]
      BY <1>b, <3>0 DEF WorkerFlow, HandsOn
    <3>2. /\ state[e] = "open" /\ Uninstalled(e)
          /\ \A q \in Relays : e \notin drained[q]
          /\ \A q \in Relays, u \in Workers : victim[q][u] # e
          /\ \A q \in Relays, u \in Workers : went[q][u] = e => q = s /\ u = v
      BY <1>a, <3>0, <3>1 DEF InstallIsPrivate
    <3>3. e # went[r][w] /\ e # victim[r][w] /\ e \notin FreeEntries /\ e # NoEntry
      BY <2>2, <3>2, EntryIds DEF FreeEntries
    <3>4. state'[e] = "open"
      BY <1>1, <1>a, <3>2, <3>3, WorkerEntries
    <3>5. Uninstalled(e)'
      BY <1>1, <1>a, <3>2, <3>3, WorkerTable DEF Uninstalled
    <3>6. ASSUME NEW q \in Relays, NEW u \in Workers PROVE victim'[q][u] # e
      <4>1. CASE q = r /\ u = w
        BY <1>1, <1>a, <3>2, <3>3, <4>1, WorkerVictim DEF Uninstalled
      <4>2. CASE q # r \/ u # w
        BY <1>1, <1>b, <3>2, <4>2, OthersStay
      <4> QED
        BY <4>1, <4>2
    <3>7. ASSUME NEW q \in Relays, NEW u \in Workers, went'[q][u] = e PROVE q = s /\ u = v
      <4>1. went[q][u] = e
        BY <1>1, <1>a, <3>2, <3>3, <3>7, WorkerHands DEF Uninstalled
      <4> QED
        BY <3>2, <4>1
    <3> QED
      BY <2>d, <3>0, <3>1, <3>2, <3>4, <3>5, <3>6, <3>7 DEF Uninstalled
  <2> QED
    BY <2>1, <2>2
<1>2. ASSUME \/ \E r \in Relays : RelayStep(r)
             \/ \E e \in Entries : ReverseStep(e)
             \/ Tick \/ UNCHANGED vars
      PROVE  InstallIsPrivate'
  <2>1. /\ UNCHANGED <<went, victim>>
        /\ \A s \in Relays, v \in Workers : wpc'[s][v] \in {"idle", wpc[s][v]}
        /\ \A s \in Relays, k \in Keys : table'[s][k] \in {NoEntry, table[s][k]}
    BY <1>2, <1>b, OutsideWorkers
  <2> SUFFICES ASSUME NEW s \in Relays, NEW v \in Workers, wpc'[s][v] = "install"
               PROVE  /\ state'[went[s][v]] = "open"
                      /\ \A q \in Relays, k \in Keys : table'[q][k] # went[s][v]
                      /\ \A q \in Relays : went[s][v] \notin drained'[q]
                      /\ \A q \in Relays, u \in Workers : victim[q][u] # went[s][v]
                      /\ \A q \in Relays, u \in Workers : went[q][u] = went[s][v] => q = s /\ u = v
    BY <2>1 DEF InstallIsPrivate, Uninstalled
  <2>2. wpc[s][v] = "install"
    BY <2>1
  <2>3. PICK e \in Entries : e = went[s][v]
    BY <1>b, <2>2 DEF WorkerFlow, HandsOn
  <2>4. /\ state[e] = "open" /\ Uninstalled(e)
        /\ \A q \in Relays : e \notin drained[q]
        /\ \A q \in Relays, u \in Workers : victim[q][u] # e
        /\ \A q \in Relays, u \in Workers : went[q][u] = e => q = s /\ u = v
    BY <1>a, <2>2, <2>3 DEF InstallIsPrivate
  <2>5. rev[e] = "none"
    BY <1>a, <2>2, <2>3 DEF NotYetRelayed, Creating
  <2>6. state'[e] = "open" /\ \A q \in Relays : e \notin drained'[q]
    BY <1>2, <1>a, <2>4, <2>5, OutsideEntries DEF Uninstalled
  <2>7. Uninstalled(e)'
    BY <2>1, <2>4, EntryIds DEF Uninstalled
  <2> QED
    BY <2>3, <2>4, <2>6, <2>7 DEF Uninstalled
<1> QED
    BY <1>1, <1>2 DEF Next

\* An entry's reverse relay does not start before its creation is over.
LEMMA NotYetRelayedStep ==
    ASSUME TableInv, [Next]_vars
    PROVE  NotYetRelayed'
<1>a. FlowInv /\ OneLeader /\ NotYetRelayed /\ InstallHasNoRival
    BY DEF TableInv, ShutInv, SlotStaysFree, InstallHasNoRival
<1>b. TypeOK /\ WorkerFlow /\ DialingIsPrivate
    BY <1>a DEF FlowInv
<1>1. ASSUME NEW r \in Relays, NEW w \in Workers, WorkerStep(r, w) PROVE NotYetRelayed'
  <2> SUFFICES ASSUME NEW s \in Relays, NEW v \in Workers, Creating(s, v)'
               PROVE  rev'[went'[s][v]] = "none"
    BY DEF NotYetRelayed
  <2>1. CASE s = r /\ v = w
    <3>1. /\ went'[r][w] = went[r][w]
          /\ wpc[r][w] \in {"dial", "install", "evict", "redone"} /\ Creating(r, w)'
      BY <1>1, <1>a, <2>1, WorkerProgress
    <3>2. PICK e \in Entries : e = went[r][w]
      BY <1>b, <3>1 DEF WorkerFlow, HandsOn
    <3>3. wpc[r][w] = "dial" => rev[e] = "none"
      BY <1>b, <3>2 DEF DialingIsPrivate
    <3>4. wpc[r][w] # "dial" => rev[e] = "none"
      BY <1>a, <3>1, <3>2 DEF NotYetRelayed, Creating
    <3>5. rev[e] = "none"
      BY <3>3, <3>4
    <3>6. rev'[e] = rev[e]
      BY <1>1, <1>a, <3>1, WorkerEntries
    <3> QED
      BY <2>1, <3>1, <3>2, <3>5, <3>6
  <2>2. CASE s # r \/ v # w
    <3>1. Creating(s, v) /\ went'[s][v] = went[s][v]
      BY <1>1, <1>b, <2>2, OthersStay DEF Creating
    <3>2. PICK e \in Entries : e = went[s][v]
      BY <1>b, <3>1 DEF WorkerFlow, HandsOn, Creating
    <3>3. rev[e] = "none"
      BY <1>a, <3>1, <3>2 DEF NotYetRelayed
    <3>4. ~(wpc[r][w] = "redone" /\ e = went[r][w])
      BY <1>a, <2>2, <3>1, <3>2, CreatorsDiffer DEF Creating
    <3>5. rev'[e] = rev[e]
      BY <1>1, <1>a, <3>4, WorkerEntries
    <3> QED
      BY <3>1, <3>2, <3>3, <3>5
  <2> QED
    BY <2>1, <2>2
<1>2. ASSUME \/ \E r \in Relays : RelayStep(r)
             \/ \E e \in Entries : ReverseStep(e)
             \/ Tick \/ UNCHANGED vars
      PROVE  NotYetRelayed'
  <2> SUFFICES ASSUME NEW s \in Relays, NEW v \in Workers, Creating(s, v)'
               PROVE  rev'[went'[s][v]] = "none"
    BY DEF NotYetRelayed
  <2>1. Creating(s, v) /\ UNCHANGED went
    BY <1>2, <1>b, OutsideWorkers DEF Creating
  <2>2. PICK e \in Entries : e = went[s][v]
    BY <1>b, <2>1 DEF WorkerFlow, HandsOn, Creating
  <2>3. rev[e] = "none"
    BY <1>a, <2>1, <2>2 DEF NotYetRelayed
  <2> QED
    BY <1>2, <1>a, <2>1, <2>2, <2>3, OutsideEntries
<1> QED
    BY <1>1, <1>2 DEF Next

\* What was taken out of the table does not come back.
LEMMA WithdrawnStep ==
    ASSUME TableInv, [Next]_vars
    PROVE  Withdrawn'
<1>a. FlowInv /\ OneLeader /\ InstallIsPrivate /\ Withdrawn
    BY DEF TableInv, ShutInv
<1>b. TypeOK /\ WorkerFlow /\ TableMatches
    BY <1>a DEF FlowInv
<1>t. drained \in [Relays -> SUBSET Entries] /\ wkey \in [Relays -> [Workers -> Keys]]
    BY <1>b DEF TypeOK, RelayTypeOK, WorkerTypeOK
<1>1. ASSUME NEW r \in Relays, NEW w \in Workers, WorkerStep(r, w) PROVE Withdrawn'
  <2>d. UNCHANGED drained
    BY <1>1, <1>b, WorkerIsLocal DEF handlerVars
  <2>i. wpc[r][w] = "install" =>
           /\ Uninstalled(went[r][w])
           /\ \A s \in Relays : went[r][w] \notin drained[s]
           /\ \A s \in Relays, v \in Workers : victim[s][v] # went[r][w]
           /\ \A s \in Relays, v \in Workers : went[s][v] = went[r][w] => s = r /\ v = w
    BY <1>a DEF InstallIsPrivate
  <2>o. ASSUME NEW e \in Entries, Uninstalled(e), wpc[r][w] = "install" => e # went[r][w]
        PROVE  Uninstalled(e)'
    BY <1>1, <1>a, <2>o, EntryIds, WorkerTable DEF Uninstalled
  <2>1. ASSUME NEW s \in Relays, NEW e \in drained'[s] PROVE Uninstalled(e)'
    <3>1. e \in Entries /\ e \in drained[s]
      BY <1>t, <2>d
    <3> QED
      BY <1>a, <2>i, <2>o, <3>1 DEF Withdrawn, Uninstalled
  <2>2. ASSUME NEW s \in Relays, NEW v \in Workers, wpc'[s][v] = "evict"
        PROVE  \A q \in Relays, k \in Keys : table'[q][k] # victim'[s][v]
    <3>1. CASE s = r /\ v = w
      <4>1. PICK old \in Keys :
              /\ victim'[r][w] = table[r][old] /\ table[r][old] # NoEntry /\ table'[r][old] = NoEntry
        BY <1>1, <1>a, <2>2, <3>1, WorkerVictim
      <4>2. PICK e \in Entries : e = table[r][old]
        BY <1>b, <4>1 DEF TypeOK, RelayTypeOK
      <4>3. wpc[r][w] = "install" => e # went[r][w]
        BY <2>i, <4>2 DEF Uninstalled
      <4>4. ASSUME NEW q \in Relays, NEW k \in Keys, table'[q][k] = e PROVE FALSE
        <5>1. table[q][k] = e
          BY <1>1, <1>a, <4>3, <4>4, EntryIds, WorkerTable
        <5>2. q = r /\ k = old
          BY <1>b, <4>2, <5>1, EntryIds DEF TableMatches
        <5> QED
          BY <4>1, <4>4, <5>2, EntryIds
      <4> QED
        BY <3>1, <4>1, <4>2, <4>4 DEF Uninstalled
    <3>2. CASE s # r \/ v # w
      <4>1. wpc[s][v] = "evict" /\ victim'[s][v] = victim[s][v]
        BY <1>1, <1>b, <2>2, <3>2, OthersStay
      <4>2. PICK e \in Entries : e = victim[s][v]
        BY <1>b, <4>1 DEF WorkerFlow
      <4> QED
        BY <1>a, <2>i, <2>o, <4>1, <4>2 DEF Withdrawn, Uninstalled
    <3> QED
      BY <3>1, <3>2
  <2>3. ASSUME NEW s \in Relays, NEW v \in Workers, wpc'[s][v] = "undo"
        PROVE  \A q \in Relays, k \in Keys : table'[q][k] # went'[s][v]
    <3>1. CASE s = r /\ v = w
      <4>1. /\ went'[r][w] = went[r][w] /\ wpc[r][w] = "redone"
            /\ table'[r][wkey[r][w]] # went[r][w]
        BY <1>1, <1>a, <2>3, <3>1, WorkerProgress DEF Creating
      <4>2. PICK e \in Entries : e = went[r][w] /\ owner[e] = r /\ key[e] = wkey[r][w]
        BY <1>b, <4>1 DEF WorkerFlow, HandsOn
      <4>3. ASSUME NEW q \in Relays, NEW k \in Keys, table'[q][k] = e PROVE FALSE
        <5>1. table[q][k] = e
          BY <1>1, <1>a, <4>1, <4>3, EntryIds, WorkerTable
        <5>2. q = r /\ k = wkey[r][w]
          BY <1>b, <4>2, <5>1, EntryIds DEF TableMatches
        <5> QED
          BY <4>1, <4>2, <4>3, <5>2
      <4> QED
        BY <3>1, <4>1, <4>2, <4>3 DEF Uninstalled
    <3>2. CASE s # r \/ v # w
      <4>1. wpc[s][v] = "undo" /\ went'[s][v] = went[s][v]
        BY <1>1, <1>b, <2>3, <3>2, OthersStay
      <4>2. PICK e \in Entries : e = went[s][v]
        BY <1>b, <4>1 DEF WorkerFlow, HandsOn
      <4> QED
        BY <1>a, <2>i, <2>o, <3>2, <4>1, <4>2 DEF Withdrawn, Uninstalled
    <3> QED
      BY <3>1, <3>2
  <2> QED
    BY <2>1, <2>2, <2>3 DEF Withdrawn, Uninstalled
<1>2. ASSUME \/ \E r \in Relays : RelayStep(r)
             \/ \E e \in Entries : ReverseStep(e)
             \/ Tick \/ UNCHANGED vars
      PROVE  Withdrawn'
  <2>1. /\ UNCHANGED <<went, victim>>
        /\ \A s \in Relays, v \in Workers : wpc'[s][v] \in {"idle", wpc[s][v]}
        /\ \A s \in Relays, k \in Keys : table'[s][k] \in {NoEntry, table[s][k]}
    BY <1>2, <1>b, OutsideWorkers
  <2>2. ASSUME NEW e \in Entries, Uninstalled(e) PROVE Uninstalled(e)'
    BY <2>1, <2>2, EntryIds DEF Uninstalled
  <2>3. drained' \in [Relays -> SUBSET Entries]
    BY <1>b, TypeStep DEF TypeOK, RelayTypeOK
  <2>4. ASSUME NEW s \in Relays, NEW e \in drained'[s] PROVE Uninstalled(e)'
    <3>1. e \in Entries
      BY <2>3
    <3> QED
      BY <1>2, <1>a, <2>2, <3>1, OutsideEntries DEF Withdrawn, Uninstalled
  <2>5. ASSUME NEW s \in Relays, NEW v \in Workers, wpc'[s][v] = "evict"
        PROVE  \A q \in Relays, k \in Keys : table'[q][k] # victim'[s][v]
    <3>1. wpc[s][v] = "evict" /\ victim[s][v] \in Entries
      BY <1>b, <2>1, <2>5 DEF WorkerFlow
    <3>2. PICK e \in Entries : e = victim[s][v]
      BY <3>1
    <3> QED
      BY <1>a, <2>1, <2>2, <3>1, <3>2 DEF Withdrawn, Uninstalled
  <2>6. ASSUME NEW s \in Relays, NEW v \in Workers, wpc'[s][v] = "undo"
        PROVE  \A q \in Relays, k \in Keys : table'[q][k] # went'[s][v]
    <3>1. wpc[s][v] = "undo" /\ went[s][v] \in Entries
      BY <1>b, <2>1, <2>6 DEF WorkerFlow, HandsOn
    <3>2. PICK e \in Entries : e = went[s][v]
      BY <3>1
    <3> QED
      BY <1>a, <2>1, <2>2, <3>1, <3>2 DEF Withdrawn, Uninstalled
  <2> QED
    BY <2>4, <2>5, <2>6 DEF Withdrawn, Uninstalled
<1> QED
    BY <1>1, <1>2 DEF Next

\* No step leaves a closed entry installed that nobody will delete.
LEMMA ClosedFlowStep ==
    ASSUME TableInv, [Next]_vars
    PROVE  ClosedFlowIsLeaving'
<1>a. /\ FlowInv /\ InstallIsPrivate /\ NotYetRelayed /\ Withdrawn /\ ClosedFlowIsLeaving
      /\ InstallHasNoRival
    BY DEF TableInv, ShutInv, SlotStaysFree, InstallHasNoRival
<1>b. TypeOK /\ WorkerFlow /\ TableMatches /\ DialingIsPrivate
    BY <1>a DEF FlowInv
<1>t. table' \in [Relays -> [Keys -> Entries \cup {NoEntry}]]
    BY <1>b, TypeStep DEF TypeOK, RelayTypeOK
<1> SUFFICES ASSUME NEW s \in Relays, NEW k \in Keys, NEW e \in Entries,
                    table'[s][k] = e, state'[e] = "closed"
             PROVE  rev'[e] = "delete"
    BY <1>t DEF ClosedFlowIsLeaving
<1>1. ASSUME NEW r \in Relays, NEW w \in Workers, WorkerStep(r, w) PROVE rev'[e] = "delete"
  <2>1. CASE wpc[r][w] = "install"
    <3>1. state'[e] = state[e] /\ rev'[e] = rev[e]
      BY <1>1, <1>a, <2>1, WorkerEntries
    <3>2. e # went[r][w]
      BY <1>a, <2>1, <3>1 DEF InstallIsPrivate
    <3>3. table[s][k] = e
      BY <1>1, <1>a, <3>2, EntryIds, WorkerTable
    <3> QED
      BY <1>a, <3>1, <3>3, EntryIds DEF ClosedFlowIsLeaving
  <2>2. CASE wpc[r][w] # "install"
    <3>1. table[s][k] = e
      BY <1>1, <1>a, <2>2, EntryIds, WorkerTable
    <3>2. ~Uninstalled(e) /\ e \notin FreeEntries /\ state[e] # "dialing"
      BY <1>b, <3>1 DEF Uninstalled, FreeEntries, Referenced, DialingIsPrivate
    <3>3. /\ wpc[r][w] \in {"dial", "undo"} => e # went[r][w]
          /\ wpc[r][w] = "evict" => e # victim[r][w]
      BY <1>a, <1>b, <3>2 DEF Withdrawn, DialingIsPrivate
    <3>4. state[e] = "closed"
      BY <1>1, <1>a, <3>2, <3>3, WorkerEntries
    <3>5. rev[e] = "delete"
      BY <1>a, <3>1, <3>4, EntryIds DEF ClosedFlowIsLeaving
    <3>6. ~(wpc[r][w] = "redone" /\ e = went[r][w])
      BY <1>a, <3>5 DEF NotYetRelayed, Creating
    <3> QED
      BY <1>1, <1>a, <3>5, <3>6, WorkerEntries
  <2> QED
    BY <2>1, <2>2
<1>2. ASSUME \/ \E r \in Relays : RelayStep(r)
             \/ \E f \in Entries : ReverseStep(f)
             \/ Tick \/ UNCHANGED vars
      PROVE  rev'[e] = "delete"
  <2>1. table[s][k] = e
    BY <1>2, <1>b, EntryIds, OutsideWorkers
  <2>2. \A r \in Relays : e \notin drained[r]
    BY <1>a, <2>1 DEF Withdrawn, Uninstalled
  <2>3. ~Uninstalled(e)'
    BY DEF Uninstalled
  <2>4. CASE state[e] = "closed"
    <3>1. rev[e] = "delete"
      BY <1>a, <2>1, <2>4, EntryIds DEF ClosedFlowIsLeaving
    <3> QED
      BY <1>2, <1>a, <2>3, <3>1, OutsideEntries
  <2>5. CASE state[e] # "closed"
    BY <1>2, <1>a, <2>2, <2>5, OutsideEntries
  <2> QED
    BY <2>4, <2>5
<1> QED
    BY <1>1, <1>2 DEF Next

\* Initially no worker runs and nothing is installed.
LEMMA TableInit == Init => TableInv
<1> SUFFICES ASSUME Init PROVE TableInv
    OBVIOUS
<1>1. OneLeader /\ SlotStaysFree /\ InstallIsPrivate /\ NotYetRelayed
    BY DEF Init, OneLeader, SlotStaysFree, InstallIsPrivate, NotYetRelayed, LeaderPCs, Creating
<1>2. Withdrawn /\ ClosedFlowIsLeaving
    BY DEF Init, Withdrawn, ClosedFlowIsLeaving
<1> QED
    BY <1>1, <1>2, ShutInit DEF TableInv

\* Every step keeps the invariant.
LEMMA TableStep == TableInv /\ [Next]_vars => TableInv'
<1> SUFFICES ASSUME TableInv, [Next]_vars PROVE TableInv'
    OBVIOUS
<1>1. ShutInv' /\ OneLeader' /\ SlotStaysFree'
    BY ShutStep, OneLeaderStep, SlotStaysFreeStep DEF TableInv, ShutInv, FlowInv
<1> QED
    BY <1>1, InstallIsPrivateStep, NotYetRelayedStep, WithdrawnStep, ClosedFlowStep DEF TableInv

\* The invariant of the flow table holds in every state.
THEOREM TableInvariant == Spec => []TableInv
BY TableInit, TableStep, PTL DEF Spec

\* Install never finds its slot taken: singleflight has one leader per key, the leader
\* looked again, and nobody else installs that key.
THEOREM InstallIsUncontested == Spec => []InstallHasNoRival
<1>1. TableInv => InstallHasNoRival
    BY DEF TableInv, SlotStaysFree, InstallHasNoRival
<1> QED
    BY <1>1, TableInvariant, PTL

\* A closed flow that is still installed is about to be deleted by its reverse relay:
\* whoever else closes a flow has taken it out of the table before.
THEOREM ClosedFlowsLeaveTheTable == Spec => []ClosedFlowIsLeaving
<1>1. TableInv => ClosedFlowIsLeaving
    BY DEF TableInv
<1> QED
    BY <1>1, TableInvariant, PTL

----------------------------------------------------------------------------
(* The two limiters *)


\* l counts the members of S, in total and per client, f giving a member's client.
Counts(l, S, f) ==
    /\ l.total = Cardinality(S)
    /\ \A c \in Clients : l.byClient[c] = Cardinality({x \in S : f[x] = c})

\* A token is acquired for a new member of the set.
LEMMA CountAcquired ==
    ASSUME NEW S, IsFiniteSet(S), NEW f, NEW l \in Limiters, Counts(l, S, f),
           NEW x, x \notin S, NEW c \in Clients, NEW g, g[x] = c,
           \A y \in S : g[y] = f[y]
    PROVE  Counts(Acquired(l, c), S \cup {x}, g)
<1> DEFINE Of(d) == {y \in S : f[y] = d}
<1>1. Cardinality(S \cup {x}) = Cardinality(S) + 1
    BY FS_AddElement
<1>2. Acquired(l, c).total = Cardinality(S \cup {x})
    BY <1>1 DEF Counts, Limiters, Acquired
<1>3. ASSUME NEW d \in Clients
      PROVE  Acquired(l, c).byClient[d] = Cardinality({y \in S \cup {x} : g[y] = d})
  <2>1. IsFiniteSet(Of(d)) /\ Cardinality(Of(d)) \in Nat /\ l.byClient[d] = Cardinality(Of(d))
    BY FS_Subset, FS_CardinalityType, Of(d) \subseteq S DEF Counts
  <2>2. CASE d = c
    <3>1. {y \in S \cup {x} : g[y] = d} = Of(d) \cup {x} /\ x \notin Of(d)
      BY <2>2
    <3>2. Cardinality(Of(d) \cup {x}) = Cardinality(Of(d)) + 1
      BY <2>1, <3>1, FS_AddElement
    <3> HIDE DEF Of
    <3> QED
      BY <2>1, <2>2, <3>1, <3>2 DEF Limiters, Acquired
  <2>3. CASE d # c
    <3>1. {y \in S \cup {x} : g[y] = d} = Of(d)
      BY <2>3
    <3> HIDE DEF Of
    <3> QED
      BY <2>1, <2>3, <3>1 DEF Limiters, Acquired
  <2> QED
    BY <2>2, <2>3
<1> QED
    BY <1>2, <1>3 DEF Counts

\* The token of a member that leaves the set is returned: release finds its client
\* counted, so it does not ignore the call.
LEMMA CountReleased ==
    ASSUME NEW S, IsFiniteSet(S), NEW f, NEW l \in Limiters, Counts(l, S, f),
           NEW x \in S, f[x] \in Clients, NEW g, \A y \in S \ {x} : g[y] = f[y]
    PROVE  Counts(Released(l, f[x]), S \ {x}, g)
<1> DEFINE Of(d) == {y \in S : f[y] = d}
           c == f[x]
<1>1. Cardinality(S \ {x}) = Cardinality(S) - 1 /\ Cardinality(S) \in Nat
    BY FS_RemoveElement, FS_CardinalityType
<1>2. ASSUME NEW d \in Clients
      PROVE  IsFiniteSet(Of(d)) /\ Cardinality(Of(d)) \in Nat /\ l.byClient[d] = Cardinality(Of(d))
    BY FS_Subset, FS_CardinalityType, Of(d) \subseteq S DEF Counts
<1>3. Cardinality(Of(c) \ {x}) = Cardinality(Of(c)) - 1 /\ Cardinality(Of(c) \ {x}) \in Nat
  <2>1. x \in Of(c) /\ IsFiniteSet(Of(c))
    BY <1>2
  <2>2. IsFiniteSet(Of(c) \ {x}) /\ Cardinality(Of(c) \ {x}) = Cardinality(Of(c)) - 1
    BY <2>1, FS_RemoveElement
  <2> QED
    BY <2>2, FS_CardinalityType
<1>4. Cardinality(S \ {x}) \in Nat
  <2>1. IsFiniteSet(S \ {x})
    BY FS_Subset, S \ {x} \subseteq S
  <2> QED
    BY <2>1, FS_CardinalityType
<1>5. l.byClient[c] > 0 /\ l.total > 0
  <2>1. l.total = Cardinality(S) /\ l.byClient[c] = Cardinality(Of(c)) /\ Cardinality(Of(c)) \in Nat
    BY <1>2 DEF Counts
  <2> HIDE DEF Of, c
  <2> QED
    BY <1>1, <1>3, <1>4, <2>1
<1>6. Released(l, c) = [total |-> l.total - 1, byClient |-> [l.byClient EXCEPT ![c] = @ - 1]]
    BY <1>5 DEF Released, Limiters
<1>7. Released(l, c).total = Cardinality(S \ {x})
    BY <1>1, <1>6 DEF Counts
<1>8. ASSUME NEW d \in Clients
      PROVE  Released(l, c).byClient[d] = Cardinality({y \in S \ {x} : g[y] = d})
  <2>1. CASE d = c
    <3>1. {y \in S \ {x} : g[y] = d} = Of(c) \ {x}
      BY <2>1
    <3>2. Released(l, c).byClient[d] = l.byClient[d] - 1
      BY <1>6, <2>1 DEF Limiters
    <3> QED
      BY <1>2, <1>3, <2>1, <3>1, <3>2
  <2>2. CASE d # c
    <3>1. {y \in S \ {x} : g[y] = d} = Of(d)
      BY <2>2
    <3>2. Released(l, c).byClient[d] = l.byClient[d]
      BY <1>6, <2>2 DEF Limiters
    <3> QED
      BY <1>2, <3>1, <3>2
  <2> QED
    BY <2>1, <2>2
<1> QED
    BY <1>7, <1>8 DEF Counts

\* Nothing joins or leaves the set.
LEMMA CountKept ==
    ASSUME NEW S, NEW f, NEW l, Counts(l, S, f), NEW g, \A y \in S : g[y] = f[y]
    PROVE  Counts(l, S, g)
<1>1. ASSUME NEW c \in Clients PROVE {x \in S : g[x] = c} = {x \in S : f[x] = c}
    OBVIOUS
<1> QED
    BY <1>1 DEF Counts

(***************************************************************************)
(* The NAT limiter.                                                        *)
(***************************************************************************)
\* A token in use by a dial was acquired for the association's present client, so
\* the release after a failed dial names the right one.
DialPayer == \A e \in Entries : state[e] = "dialing" => payer[e] = client[owner[e]]

\* What the limiters have to do with the rest of the state.
TokenInv ==
    /\ FlowInv
    /\ DialPayer
    /\ NATAccounting
    /\ NATWithinLimits
    /\ AssociationAccounting

\* The NAT limiter's accounting as a count.
LEMMA NATCounts == NATAccounting <=> Counts(nat, Held, payer)
BY DEF NATAccounting, Counts, HeldBy

\* The same, after a step.
LEMMA NATCountsNext == NATAccounting' <=> Counts(nat', Held', payer')
BY DEF NATAccounting, Counts, HeldBy

\* Steps that neither hand out nor return a token.
LEMMA TokensKept ==
    ASSUME NATAccounting, UNCHANGED nat,
           \A e \in Entries : state'[e] = "closed" <=> state[e] = "closed",
           \A e \in Held : payer'[e] = payer[e]
    PROVE  NATAccounting' /\ Held' = Held
<1>1. Held' = Held
    BY DEF Held
<1>2. Counts(nat, Held, payer')
    BY NATCounts, CountKept
<1> QED
    BY <1>1, <1>2, NATCountsNext

\* A token is handed out for a new entry.
LEMMA TokenTaken ==
    ASSUME TypeOK, NATAccounting, NEW e \in Entries, state[e] = "closed", NEW c \in Clients,
           state' = [state EXCEPT ![e] = "dialing"], payer' = [payer EXCEPT ![e] = c],
           nat' = Acquired(nat, c)
    PROVE  NATAccounting'
<1>1. Held' = Held \cup {e} /\ e \notin Held
    BY DEF TypeOK, EntryTypeOK, Held
<1>2. payer'[e] = c /\ \A f \in Held : payer'[f] = payer[f]
    BY <1>1 DEF TypeOK, EntryTypeOK, Held
<1>3. IsFiniteSet(Held) /\ nat \in Limiters
    BY EntryIds, FS_Subset, Held \subseteq Entries DEF Held, TypeOK, EntryTypeOK
<1>4. Counts(Acquired(nat, c), Held \cup {e}, payer')
    BY <1>1, <1>2, <1>3, NATCounts, CountAcquired
<1> QED
    BY <1>1, <1>4, NATCountsNext

\* The token of an entry that closes is returned.
LEMMA TokenReturned ==
    ASSUME TypeOK, NATAccounting, NEW e \in Entries, state[e] # "closed",
           state' = [state EXCEPT ![e] = "closed"], UNCHANGED payer,
           nat' = Released(nat, payer[e])
    PROVE  NATAccounting'
<1>1. Held' = Held \ {e} /\ e \in Held
    BY DEF TypeOK, EntryTypeOK, Held
<1>2. IsFiniteSet(Held) /\ nat \in Limiters /\ payer[e] \in Clients
    BY EntryIds, FS_Subset, Held \subseteq Entries DEF Held, TypeOK, EntryTypeOK
<1>3. Counts(Released(nat, payer[e]), Held \ {e}, payer)
    BY <1>1, <1>2, NATCounts, CountReleased
<1> QED
    BY <1>1, <1>3, NATCountsNext

\* natEntry.Close returns the token once: a second Close finds nothing to return.
LEMMA ClosingKeepsCount ==
    ASSUME TypeOK, NATAccounting, NEW e \in Entries, state[e] # "dialing", CloseEntry(e),
           UNCHANGED payer
    PROVE  NATAccounting'
<1>1. CASE state[e] = "open"
    BY <1>1, TokenReturned DEF CloseEntry
<1>2. CASE state[e] # "open"
  <2>1. state[e] = "closed"
    BY <1>2 DEF TypeOK, EntryTypeOK
  <2>2. UNCHANGED nat /\ \A f \in Entries : state'[f] = state[f]
    BY <1>2, <2>1, CloseEntryFacts DEF CloseEntry
  <2> QED
    BY <2>2, TokensKept
<1> QED
    BY <1>1, <1>2

\* Every step keeps the count of the NAT limiter.
LEMMA NATAccountingStep ==
    ASSUME FlowInv, DialPayer, NATAccounting, [Next]_vars
    PROVE  NATAccounting'
<1> USE DEF FlowInv, handlerVars, poolVars, workerVars, idVars, entryVars
<1>1. ASSUME UNCHANGED <<state, payer, nat>> PROVE NATAccounting'
    BY <1>1, TokensKept
<1>a. \A e \in Entries : state[e] = "dialing" =>
         /\ rev[e] = "none"
         /\ \A s \in Relays : e \notin drained[s]
         /\ \A s \in Relays, v \in Workers : victim[s][v] # e
         /\ \A s \in Relays, v \in Workers : went[s][v] = e => wpc[s][v] = "dial"
    BY DEF DialingIsPrivate
<1>2. ASSUME NEW r \in Relays, RelayStep(r) PROVE NATAccounting'
  <2>1. ASSUME NEW e \in Entries, CloseDrained(r, e) PROVE NATAccounting'
    BY <1>a, <2>1, ClosingKeepsCount DEF CloseDrained
  <2>2. CASE ~\E e \in Entries : CloseDrained(r, e)
    BY <1>1, <1>2, <2>2 DEF RelayStep, Associate, ListenFails, Listen, ReplyFails, Reply,
       ControlClosed, HandlerReturns, CloseDone, CloseSocket, Drain,
       ReleaseAssociation, ReadDatagram, ReaderStops, WorkersJoined, RunReturns
  <2> QED
    BY <2>1, <2>2
<1>3. ASSUME NEW r \in Relays, NEW w \in Workers, WorkerStep(r, w) PROVE NATAccounting'
  <2>0. wpc[r][w] \in HandsOn => went[r][w] \in Entries /\ owner[went[r][w]] = r
    BY DEF WorkerFlow
  <2>1. CASE AcquireToken(r, w)
    <3>1. PICK e \in FreeEntries :
             /\ state' = [state EXCEPT ![e] = "dialing"]
             /\ payer' = [payer EXCEPT ![e] = client[r]]
      BY <2>1 DEF AcquireToken
    <3>2. e \in Entries /\ state[e] = "closed" /\ client[r] \in Clients
      BY DEF FreeEntries, TypeOK, RelayTypeOK
    <3> QED
      BY <2>1, <3>1, <3>2, TokenTaken DEF AcquireToken
  <2>2. CASE DialFails(r, w)
    <3>1. went[r][w] \in Entries /\ state[went[r][w]] = "dialing" /\ payer[went[r][w]] = client[r]
      BY <2>0, <2>2 DEF DialFails, HandsOn, DialPayer, DialingIsPrivate
    <3> QED
      BY <2>2, <3>1, TokenReturned DEF DialFails
  <2>3. CASE DialSucceeds(r, w)
    <3>1. went[r][w] \in Entries /\ state[went[r][w]] = "dialing"
      BY <2>0, <2>3 DEF DialSucceeds, HandsOn, DialingIsPrivate
    <3>2. \A e \in Entries : state'[e] = "closed" <=> state[e] = "closed"
      BY <2>3, <3>1 DEF DialSucceeds, TypeOK, EntryTypeOK
    <3> QED
      BY <2>3, <3>2, TokensKept DEF DialSucceeds
  <2>4. CASE Install(r, w)
    <3>1. went[r][w] \in Entries /\ state[went[r][w]] # "dialing"
      BY <1>a, <2>0, <2>4 DEF Install, HandsOn
    <3>2. CASE CloseEntry(went[r][w])
      BY <2>4, <3>1, <3>2, ClosingKeepsCount DEF Install
    <3>3. CASE ~CloseEntry(went[r][w])
      BY <1>1, <2>4, <3>3 DEF Install
    <3> QED
      BY <3>2, <3>3
  <2>5. CASE CloseVictim(r, w)
    <3>1. victim[r][w] \in Entries /\ state[victim[r][w]] # "dialing"
      BY <1>a, <2>5 DEF CloseVictim, WorkerFlow
    <3> QED
      BY <2>5, <3>1, ClosingKeepsCount DEF CloseVictim
  <2>6. CASE Undo(r, w)
    <3>1. went[r][w] \in Entries /\ state[went[r][w]] # "dialing"
      BY <1>a, <2>0, <2>6 DEF Undo, HandsOn
    <3> QED
      BY <2>6, <3>1, ClosingKeepsCount DEF Undo
  <2>7. CASE Take(r, w) \/ WorkerExits(r, w) \/ CheckDone(r, w) \/ Load(r, w) \/ Join(r, w)
             \/ Recheck(r, w) \/ Refused(r, w) \/ RecheckDone(r, w) \/ Write(r, w) \/ Touch(r, w)
    BY <1>1, <2>7 DEF Take, WorkerExits, CheckDone, Load, Join, Recheck, Refused, RecheckDone,
       Write, Touch
  <2> QED
    BY <1>3, <2>1, <2>2, <2>3, <2>4, <2>5, <2>6, <2>7 DEF WorkerStep
<1>4. ASSUME NEW e \in Entries, ReverseStep(e) PROVE NATAccounting'
  <2>1. CASE ReverseCloses(e)
    BY <1>a, <2>1, ClosingKeepsCount DEF ReverseCloses
  <2>2. CASE ~ReverseCloses(e)
    BY <1>1, <1>4, <2>2 DEF ReverseStep, Receive, Discard, ReadError, ReadTimeout, ReverseDeletes
  <2> QED
    BY <2>1, <2>2
<1>5. CASE Tick
    BY <1>1, <1>5 DEF Tick
<1>6. CASE UNCHANGED vars
    BY <1>1, <1>6 DEF vars
<1> QED
    BY <1>2, <1>3, <1>4, <1>5, <1>6 DEF Next

\* An association's client does not change while one of its workers dials.
LEMMA DialPayerStep ==
    ASSUME FlowInv, DialPayer, [Next]_vars
    PROVE  DialPayer'
<1> USE DEF FlowInv, DialPayer, TypeOK, RelayTypeOK, WorkerTypeOK, EntryTypeOK, handlerVars,
        poolVars, workerVars, idVars, entryVars
<1>1. ASSUME UNCHANGED <<payer, client, owner>>,
             \A e \in Entries : state'[e] = "dialing" => state[e] = "dialing"
      PROVE  DialPayer'
    BY <1>1
<1>2. ASSUME NEW r \in Relays, RelayStep(r) PROVE DialPayer'
  <2>1. ASSUME NEW c \in Clients, Associate(r, c) PROVE DialPayer'
    <3>1. \A w \in Workers : wpc[r][w] = "exited"
      BY <2>1 DEF Associate, Lifecycle
    <3>2. \A e \in Entries : state[e] = "dialing" => owner[e] # r
      BY <3>1 DEF DialingIsPrivate
    <3> QED
      BY <2>1, <3>2 DEF Associate
  <2>2. ASSUME NEW e \in Entries, CloseDrained(r, e) PROVE DialPayer'
    BY <1>1, <2>2 DEF CloseDrained, CloseEntry
  <2>3. CASE /\ ~\E c \in Clients : Associate(r, c)
             /\ ~\E e \in Entries : CloseDrained(r, e)
    BY <1>1, <1>2, <2>3 DEF RelayStep, ListenFails, Listen, ReplyFails, Reply,
       ControlClosed, HandlerReturns, CloseDone, CloseSocket, Drain,
       ReleaseAssociation, ReadDatagram, ReaderStops, WorkersJoined, RunReturns
  <2> QED
    BY <2>1, <2>2, <2>3
<1>3. ASSUME NEW r \in Relays, NEW w \in Workers, WorkerStep(r, w) PROVE DialPayer'
  <2>1. CASE AcquireToken(r, w)
    <3>1. PICK e \in Entries :
             /\ state' = [state EXCEPT ![e] = "dialing"]
             /\ owner' = [owner EXCEPT ![e] = r]
             /\ payer' = [payer EXCEPT ![e] = client[r]]
      BY <2>1 DEF AcquireToken, FreeEntries
    <3> QED
      BY <2>1, <3>1 DEF AcquireToken
  <2>2. CASE ~AcquireToken(r, w)
    <3>1. UNCHANGED <<payer, client, owner>>
      BY <1>3, <2>2 DEF WorkerStep, Take, WorkerExits, CheckDone, Load, Join, Recheck, Refused,
         DialFails, DialSucceeds, Install, CloseVictim, RecheckDone, Undo, Write, Touch
    <3>2. \A e \in Entries : state'[e] = "dialing" => state[e] = "dialing"
      BY <1>3, <2>2 DEF WorkerStep, Take, WorkerExits, CheckDone, Load, Join, Recheck, Refused,
         DialFails, DialSucceeds, Install, CloseVictim, RecheckDone, Undo, Write, Touch, CloseEntry
    <3> QED
      BY <1>1, <3>1, <3>2
  <2> QED
    BY <2>1, <2>2
<1>4. ASSUME NEW e \in Entries, ReverseStep(e) PROVE DialPayer'
    BY <1>1, <1>4 DEF ReverseStep, Receive, Discard, ReadError, ReadTimeout, ReverseCloses,
       ReverseDeletes, CloseEntry
<1>5. CASE Tick
    BY <1>1, <1>5 DEF Tick
<1>6. CASE UNCHANGED vars
    BY <1>1, <1>6 DEF vars
<1> QED
    BY <1>2, <1>3, <1>4, <1>5, <1>6 DEF Next

\* What a step may do to the NAT limiter: nothing, return a token, or hand one out
\* with both caps checked.
LEMMA NATMoves ==
    ASSUME FlowInv, [Next]_vars
    PROVE  \/ nat' = nat
           \/ \E c \in Clients : nat' = Released(nat, c)
           \/ \E c \in Clients :
                 /\ MayAcquire(nat, c, MaxNATEntriesGlobal, MaxNATEntriesPerClient)
                 /\ nat' = Acquired(nat, c)
<1> USE DEF FlowInv, handlerVars, poolVars, workerVars, idVars, entryVars
<1> DEFINE Moves == \/ nat' = nat
                    \/ \E c \in Clients : nat' = Released(nat, c)
                    \/ \E c \in Clients :
                          /\ MayAcquire(nat, c, MaxNATEntriesGlobal, MaxNATEntriesPerClient)
                          /\ nat' = Acquired(nat, c)
<1>0. ASSUME NEW e \in Entries, CloseEntry(e) PROVE Moves
    BY <1>0 DEF CloseEntry, TypeOK, EntryTypeOK
<1>1. \A r \in Relays : client[r] \in Clients
    BY DEF TypeOK, RelayTypeOK
<1>2. ASSUME NEW r \in Relays, RelayStep(r) PROVE Moves
    BY <1>0, <1>2 DEF RelayStep, Associate, ListenFails, Listen, ReplyFails, Reply,
       ControlClosed, HandlerReturns, CloseDone, CloseSocket, Drain, CloseDrained,
       ReleaseAssociation, ReadDatagram, ReaderStops, WorkersJoined, RunReturns
<1>3. ASSUME NEW r \in Relays, NEW w \in Workers, WorkerStep(r, w) PROVE Moves
  <2>1. wpc[r][w] \in HandsOn => went[r][w] \in Entries
    BY DEF WorkerFlow
  <2>2. CASE Install(r, w)
    BY <1>0, <2>1, <2>2 DEF Install, HandsOn
  <2>3. CASE CloseVictim(r, w)
    BY <1>0, <2>3 DEF CloseVictim, WorkerFlow
  <2>4. CASE Undo(r, w)
    BY <1>0, <2>1, <2>4 DEF Undo, HandsOn
  <2>5. CASE ~Install(r, w) /\ ~CloseVictim(r, w) /\ ~Undo(r, w)
    BY <1>1, <1>3, <2>5 DEF WorkerStep, Take, WorkerExits, CheckDone, Load, Join, Recheck,
       Refused, AcquireToken, DialFails, DialSucceeds, RecheckDone, Write, Touch
  <2> QED
    BY <2>2, <2>3, <2>4, <2>5
<1>4. ASSUME NEW e \in Entries, ReverseStep(e) PROVE Moves
    BY <1>0, <1>4 DEF ReverseStep, Receive, Discard, ReadError, ReadTimeout, ReverseCloses,
       ReverseDeletes
<1>5. CASE Tick
    BY <1>5 DEF Tick
<1>6. CASE UNCHANGED vars
    BY <1>6 DEF vars
<1> QED
    BY <1>2, <1>3, <1>4, <1>5, <1>6 DEF Next

\* A limiter that counts exactly and checks before it hands out stays within its caps.
LEMMA NATLimitsStep ==
    ASSUME FlowInv, NATAccounting, NATAccounting', NATWithinLimits, [Next]_vars
    PROVE  NATWithinLimits'
<1> DEFINE Within(l) == /\ l.total <= MaxNATEntriesGlobal
                        /\ \A c \in Clients : l.byClient[c] <= MaxNATEntriesPerClient
<1>1. Within(nat)
    BY DEF NATAccounting, NATWithinLimits
<1>2. nat \in Limiters
    BY DEF FlowInv, TypeOK, EntryTypeOK
<1>3. Within(nat')
  <2>1. CASE nat' = nat
    BY <1>1, <2>1
  <2>2. ASSUME NEW c \in Clients, nat' = Released(nat, c) PROVE Within(nat')
    BY <1>1, <1>2, <2>2, Limits DEF Released, Limiters
  <2>3. ASSUME NEW c \in Clients, nat' = Acquired(nat, c),
               MayAcquire(nat, c, MaxNATEntriesGlobal, MaxNATEntriesPerClient)
        PROVE  Within(nat')
    BY <1>1, <1>2, <2>3, Limits DEF Acquired, Limiters, MayAcquire
  <2> QED
    BY <2>1, <2>2, <2>3, NATMoves
<1> QED
    BY <1>3 DEF NATAccounting, NATWithinLimits

(***************************************************************************)
(* The association limiter.                                                *)
(***************************************************************************)
\* The association limiter's accounting as a count.
LEMMA AssocCounts == AssociationAccounting <=> Counts(assoc, Associated, client)
BY DEF AssociationAccounting, Counts, AssociatedBy

\* The same, after a step.
LEMMA AssocCountsNext == AssociationAccounting' <=> Counts(assoc', Associated', client')
BY DEF AssociationAccounting, Counts, AssociatedBy

\* An association leaves the count once, on the failed listen or at the end of Close.
LEMMA AssociationReturned ==
    ASSUME FlowInv, AssociationAccounting, NEW r \in Relays, closer[r] # "closed",
           closer' = [closer EXCEPT ![r] = "closed"], UNCHANGED client,
           assoc' = Released(assoc, client[r])
    PROVE  AssociationAccounting'
<1> USE DEF FlowInv, TypeOK, RelayTypeOK
<1>1. Associated' = Associated \ {r} /\ r \in Associated
    BY DEF Associated
<1>2. IsFiniteSet(Associated) /\ assoc \in Limiters /\ client[r] \in Clients
    BY EntryIds, FS_Subset, Associated \subseteq Relays DEF Associated
<1>3. Counts(Released(assoc, client[r]), Associated \ {r}, client)
    BY <1>1, <1>2, AssocCounts, CountReleased
<1> QED
    BY <1>1, <1>3, AssocCountsNext

\* Every step keeps the count of the association limiter.
LEMMA AssociationStep ==
    ASSUME FlowInv, AssociationAccounting, [Next]_vars
    PROVE  AssociationAccounting'
<1> USE DEF FlowInv, TypeOK, RelayTypeOK, handlerVars, poolVars, workerVars, idVars, entryVars
<1>1. ASSUME UNCHANGED <<assoc, client>>,
             \A r \in Relays : closer'[r] = "closed" <=> closer[r] = "closed"
      PROVE  AssociationAccounting'
  <2>1. Associated' = Associated
    BY <1>1 DEF Associated
  <2> QED
    BY <1>1, <2>1, AssocCounts, AssocCountsNext
<1>2. ASSUME NEW r \in Relays, RelayStep(r) PROVE AssociationAccounting'
  <2>1. ASSUME NEW c \in Clients, Associate(r, c) PROVE AssociationAccounting'
    <3>1. closer[r] = "closed" /\ closer' = [closer EXCEPT ![r] = "open"]
          /\ client' = [client EXCEPT ![r] = c] /\ assoc' = Acquired(assoc, c)
      BY <2>1 DEF Associate, Lifecycle
    <3>2. Associated' = Associated \cup {r} /\ r \notin Associated
      BY <3>1 DEF Associated
    <3>3. IsFiniteSet(Associated) /\ assoc \in Limiters
      BY EntryIds, FS_Subset, Associated \subseteq Relays DEF Associated
    <3>4. client'[r] = c /\ \A s \in Associated : client'[s] = client[s]
      BY <3>1, <3>2 DEF Associated
    <3>5. Counts(Acquired(assoc, c), Associated \cup {r}, client')
      BY <3>2, <3>3, <3>4, AssocCounts, CountAcquired
    <3> QED
      BY <3>1, <3>2, <3>5, AssocCountsNext
  <2>2. CASE ListenFails(r)
    BY <2>2, AssociationReturned DEF ListenFails, Lifecycle
  <2>3. CASE ReleaseAssociation(r)
    BY <2>3, AssociationReturned DEF ReleaseAssociation
  <2>4. CASE CloseDone(r) \/ CloseSocket(r) \/ Drain(r)
    <3>1. \A s \in Relays : closer'[s] = "closed" <=> closer[s] = "closed"
      BY <2>4 DEF CloseDone, CloseSocket, Drain
    <3> QED
      BY <1>1, <2>4, <3>1 DEF CloseDone, CloseSocket, Drain
  <2>5. CASE /\ ~\E c \in Clients : Associate(r, c)
             /\ ~ListenFails(r) /\ ~ReleaseAssociation(r)
             /\ ~CloseDone(r) /\ ~CloseSocket(r) /\ ~Drain(r)
    BY <1>1, <1>2, <2>5 DEF RelayStep, Listen, ReplyFails, Reply, ControlClosed,
       HandlerReturns, CloseDrained, ReadDatagram, ReaderStops, WorkersJoined, RunReturns
  <2> QED
    BY <2>1, <2>2, <2>3, <2>4, <2>5
<1>3. ASSUME NEW r \in Relays, NEW w \in Workers, WorkerStep(r, w) PROVE AssociationAccounting'
    BY <1>1, <1>3 DEF WorkerStep, Take, WorkerExits, CheckDone, Load, Join, Recheck, Refused,
       AcquireToken, DialFails, DialSucceeds, Install, CloseVictim, RecheckDone, Undo, Write, Touch
<1>4. ASSUME NEW e \in Entries, ReverseStep(e) PROVE AssociationAccounting'
    BY <1>1, <1>4 DEF ReverseStep, Receive, Discard, ReadError, ReadTimeout, ReverseCloses,
       ReverseDeletes
<1>5. CASE Tick
    BY <1>1, <1>5 DEF Tick
<1>6. CASE UNCHANGED vars
    BY <1>1, <1>6 DEF vars
<1> QED
    BY <1>2, <1>3, <1>4, <1>5, <1>6 DEF Next

(***************************************************************************)
(* The invariant and what follows from it.                                 *)
(***************************************************************************)
\* Initially no token is handed out.
LEMMA TokenInit == Init => TokenInv
<1> SUFFICES ASSUME Init PROVE TokenInv
    OBVIOUS
<1>1. Cardinality({}) = 0
    BY FS_EmptySet
<1>2. Held = {} /\ Associated = {}
    BY DEF Init, Held, Associated
<1>3. \A c \in Clients : HeldBy(c) = {} /\ AssociatedBy(c) = {}
    BY <1>2 DEF HeldBy, AssociatedBy
<1>4. NATAccounting /\ AssociationAccounting
    BY <1>1, <1>2, <1>3 DEF Init, NewLimiter, NATAccounting, AssociationAccounting
<1>5. NATWithinLimits
    BY <1>1, <1>2, <1>3, Limits DEF NATWithinLimits
<1>6. DialPayer
    BY DEF Init, DialPayer
<1> QED
    BY <1>4, <1>5, <1>6, FlowInit DEF TokenInv

\* Every step keeps the invariant.
LEMMA TokenStep == TokenInv /\ [Next]_vars => TokenInv'
BY FlowStep, DialPayerStep, NATAccountingStep, NATLimitsStep, AssociationStep DEF TokenInv

\* The invariant holds in every state.
THEOREM TokenInvariant == Spec => []TokenInv
BY TokenInit, TokenStep, PTL DEF Spec

\* The NAT limiter always counts exactly the sockets being dialled or open, in
\* total and per client.
THEOREM NATTokensNeverLeak == Spec => []NATAccounting
<1>1. TokenInv => NATAccounting
    BY DEF TokenInv
<1> QED
    BY <1>1, TokenInvariant, PTL

\* The outbound sockets of all associations never exceed the process-wide limit,
\* nor those of one client its own.
THEOREM NATLimitsHold == Spec => []NATWithinLimits
<1>1. TokenInv => NATWithinLimits
    BY DEF TokenInv
<1> QED
    BY <1>1, TokenInvariant, PTL

\* The association limiter always counts exactly the associations that Close has
\* not finished with.
THEOREM AssociationTokensNeverLeak == Spec => []AssociationAccounting
<1>1. TokenInv => AssociationAccounting
    BY DEF TokenInv
<1> QED
    BY <1>1, TokenInvariant, PTL

(***************************************************************************)
(* The sockets of one association.                                         *)
(***************************************************************************)
\* The flows in a table, and those Drain took out of it, are at most MaxNATEntries.
TableWithinLimit   == \A r \in Relays : Cardinality(Installed(r)) <= MaxNATEntries
DrainedWithinLimit == \A r \in Relays : Cardinality(drained[r]) <= MaxNATEntries

\* After Drain every open socket is one Close has yet to close, or is charged to a
\* worker, no worker being charged with two: a worker in L, which installed its entry
\* after Drain, with that entry, and an evicting worker outside L with its victim.
LateCharge(r, L) ==
    /\ \A k \in Keys : table[r][k] # NoEntry =>
          \E w \in L : wpc[r][w] \in {"evict", "redone"} /\ went[r][w] = table[r][k]
    /\ \A e \in SocketsOf(r) :
          \/ e \in drained[r]
          \/ \E w \in Workers : wpc[r][w] \in {"install", "undo"} /\ went[r][w] = e
          \/ \E w \in L : wpc[r][w] \in {"evict", "redone"} /\ went[r][w] = e
          \/ \E w \in Workers \ L : wpc[r][w] = "evict" /\ victim[r][w] = e

LateSocketsCharged ==
    \A r \in Relays : TableDrained(r) => \E L \in SUBSET Workers : LateCharge(r, L)

LimitInv ==
    /\ TableInv
    /\ TableWithinLimit
    /\ DrainedWithinLimit
    /\ LateSocketsCharged

\* A function has at most as many values as arguments.
LEMMA ImageBound ==
    ASSUME NEW S, IsFiniteSet(S), NEW f, f = [x \in S |-> f[x]]
    PROVE  /\ IsFiniteSet({f[x] : x \in S})
           /\ Cardinality({f[x] : x \in S}) <= Cardinality(S)
<1>1. f \in Surjection(S, {f[x] : x \in S})
    BY DEF Surjection
<1> QED
    BY <1>1, FS_Surjection

\* What two finite sets cover has at most as many members as both together.
LEMMA CoverBound ==
    ASSUME NEW A, NEW B, IsFiniteSet(A), IsFiniteSet(B), NEW X, X \subseteq A \cup B
    PROVE  Cardinality(X) <= Cardinality(A) + Cardinality(B)
<1>1. /\ IsFiniteSet(A \cup B)
      /\ Cardinality(A \cup B) = Cardinality(A) + Cardinality(B) - Cardinality(A \cap B)
    BY FS_Union
<1>2. IsFiniteSet(A \cap B)
    BY FS_Intersection
<1>3. Cardinality(A) \in Nat /\ Cardinality(B) \in Nat /\ Cardinality(A \cap B) \in Nat
    BY <1>2, FS_CardinalityType
<1>4. IsFiniteSet(X) /\ Cardinality(X) <= Cardinality(A \cup B)
    BY <1>1, FS_Subset
<1>5. Cardinality(X) \in Nat
    BY <1>4, FS_CardinalityType
<1> QED
    BY <1>1, <1>3, <1>4, <1>5

\* What n slots and one item per worker cover has at most that many members.
LEMMA SlotsAndWorkers ==
    ASSUME NEW n \in Nat, NEW S, IsFiniteSet(S), Cardinality(S) <= n,
           NEW f, f = [w \in Workers |-> f[w]],
           NEW X, X \subseteq S \cup {f[w] : w \in Workers}
    PROVE  Cardinality(X) <= n + Cardinality(Workers)
<1> DEFINE F == {f[w] : w \in Workers}
<1>1. IsFiniteSet(F) /\ Cardinality(F) <= Cardinality(Workers)
    BY WorkerIds, ImageBound
<1> HIDE DEF F
<1>2. Cardinality(X) <= Cardinality(S) + Cardinality(F)
    BY <1>1, CoverBound DEF F
<1>3. IsFiniteSet(S \cup F)
    BY <1>1, FS_Union
<1>4. IsFiniteSet(X)
    BY <1>3, FS_Subset DEF F
<1>5. /\ Cardinality(S) \in Nat /\ Cardinality(F) \in Nat /\ Cardinality(X) \in Nat
      /\ Cardinality(Workers) \in Nat
    BY <1>1, <1>4, WorkerIds, FS_CardinalityType
<1> QED
    BY <1>1, <1>2, <1>5

\* A table is finite however many keys there are: its flows are entries.
LEMMA InstalledFinite ==
    ASSUME FlowInv, NEW r \in Relays
    PROVE  IsFiniteSet(Installed(r)) /\ Cardinality(Installed(r)) \in Nat
<1>1. key \in [Entries -> Keys] /\ table \in [Relays -> [Keys -> Entries \cup {NoEntry}]]
    BY DEF FlowInv, TypeOK, RelayTypeOK, EntryTypeOK
<1>2. IsFiniteSet({key[e] : e \in Entries})
    BY <1>1, EntryIds, ImageBound
<1>3. ASSUME NEW k \in Installed(r) PROVE k \in {key[e] : e \in Entries}
    BY <1>1 DEF FlowInv, TableMatches, Installed
<1>4. Installed(r) \subseteq {key[e] : e \in Entries}
    BY <1>3
<1>5. IsFiniteSet(Installed(r))
    BY <1>2, <1>4, FS_Subset
<1> QED
    BY <1>5, FS_CardinalityType

\* Install makes room before it adds a flow to a full table.
LEMMA TableLimitStep ==
    ASSUME FlowInv, TableWithinLimit, [Next]_vars
    PROVE  TableWithinLimit'
<1>t. /\ TypeOK /\ table \in [Relays -> [Keys -> Entries \cup {NoEntry}]]
      /\ MaxNATEntries \in Nat
    BY Limits DEF FlowInv, TypeOK, RelayTypeOK
<1>1. ASSUME NEW s \in Relays, \A k \in Keys : table'[s][k] \in {NoEntry, table[s][k]}
      PROVE  Cardinality(Installed(s)') <= MaxNATEntries
  <2>1. Installed(s)' \subseteq Installed(s)
    BY <1>1 DEF Installed
  <2>2. IsFiniteSet(Installed(s)) /\ Cardinality(Installed(s)) \in Nat
    BY InstalledFinite
  <2>3. IsFiniteSet(Installed(s)') /\ Cardinality(Installed(s)') <= Cardinality(Installed(s))
    BY <2>1, <2>2, FS_Subset
  <2>4. Cardinality(Installed(s)') \in Nat
    BY <2>3, FS_CardinalityType
  <2>5. Cardinality(Installed(s)) <= MaxNATEntries
    BY DEF TableWithinLimit
  <2> QED
    BY <1>t, <2>2, <2>3, <2>4, <2>5
<1> SUFFICES ASSUME NEW s \in Relays PROVE Cardinality(Installed(s)') <= MaxNATEntries
    BY DEF TableWithinLimit
<1>2. ASSUME NEW r \in Relays, NEW w \in Workers, WorkerStep(r, w)
      PROVE  Cardinality(Installed(s)') <= MaxNATEntries
  <2>1. CASE Install(r, w) /\ s = r /\ table[r][wkey[r][w]] = NoEntry
    <3> DEFINE I == Installed(r)
               k == wkey[r][w]
    <3>1. IsFiniteSet(I) /\ Cardinality(I) \in Nat /\ Cardinality(I) <= MaxNATEntries
      BY InstalledFinite DEF TableWithinLimit
    <3>2. k \in Keys /\ k \notin I /\ went[r][w] # NoEntry /\ table[r][k] = NoEntry
      BY <2>1, EntryIds DEF Install, FlowInv, WorkerFlow, HandsOn, TypeOK, WorkerTypeOK, Installed
    <3>3. CASE ~Full(r)
      <4>1. table' = [table EXCEPT ![r][k] = went[r][w]]
        BY <2>1, <3>2, <3>3 DEF Install
      <4>2. Installed(r)' = I \cup {k}
        BY <1>t, <3>2, <4>1 DEF Installed
      <4>3. Cardinality(I \cup {k}) = Cardinality(I) + 1
        BY <3>1, <3>2, FS_AddElement
      <4> HIDE DEF I, k
      <4>4. Cardinality(I) < MaxNATEntries
        BY <1>t, <3>1, <3>3 DEF Full, I
      <4> QED
        BY <1>t, <2>1, <3>1, <4>2, <4>3, <4>4
    <3>4. CASE Full(r)
      <4>1. PICK old \in Installed(r) :
               table' = [table EXCEPT ![r] = [@ EXCEPT ![old] = NoEntry, ![k] = went[r][w]]]
        BY <2>1, <3>2, <3>4 DEF Install, LeastRecentlySeen
      <4>2. old \in Keys /\ old # k
        BY <3>2, <4>1 DEF Installed
      <4>3. Installed(r)' = (I \ {old}) \cup {k}
        BY <1>t, <3>2, <4>1, <4>2 DEF Installed
      <4>4. IsFiniteSet(I \ {old}) /\ Cardinality(I \ {old}) = Cardinality(I) - 1
        BY <3>1, <4>1, FS_RemoveElement
      <4>5. Cardinality((I \ {old}) \cup {k}) = Cardinality(I \ {old}) + 1
        BY <3>2, <4>4, FS_AddElement
      <4> HIDE DEF I, k
      <4> QED
        BY <1>t, <2>1, <3>1, <4>3, <4>4, <4>5
    <3> QED
      BY <3>3, <3>4
  <2>2. CASE ~(Install(r, w) /\ s = r /\ table[r][wkey[r][w]] = NoEntry)
    <3>1. CASE Install(r, w) /\ s = r
      BY <1>1, <2>2, <3>1 DEF Install
    <3>2. CASE Install(r, w) /\ s # r
      <4>1. \A k \in Keys : table'[s][k] \in {NoEntry, table[s][k]}
        BY <1>2, <3>2, WorkerTable
      <4> QED
        BY <1>1, <4>1
    <3>3. CASE ~Install(r, w)
      <4>1. \A k \in Keys : table'[s][k] \in {NoEntry, table[s][k]}
        <5>1. CASE wpc[r][w] # "install"
          BY <1>2, <5>1, WorkerTable
        <5>2. CASE wpc[r][w] = "install"
          BY <1>2, <3>3, <5>2 DEF WorkerStep, Take, WorkerExits, CheckDone, Load, Join, Recheck,
             Refused, AcquireToken, DialFails, DialSucceeds, CloseVictim, RecheckDone, Undo,
             Write, Touch
        <5> QED
          BY <5>1, <5>2
      <4> QED
        BY <1>1, <4>1
    <3> QED
      BY <3>1, <3>2, <3>3
  <2> QED
    BY <2>1, <2>2
<1>3. ASSUME \/ \E r \in Relays : RelayStep(r)
             \/ \E e \in Entries : ReverseStep(e)
             \/ Tick \/ UNCHANGED vars
      PROVE  Cardinality(Installed(s)') <= MaxNATEntries
    BY <1>1, <1>3, <1>t, OutsideWorkers
<1> QED
    BY <1>2, <1>3 DEF Next

\* Drain takes over at most a full table.
LEMMA DrainedLimitStep ==
    ASSUME FlowInv, TableWithinLimit, DrainedWithinLimit, [Next]_vars
    PROVE  DrainedWithinLimit'
<1>t. /\ TypeOK /\ WorkerFlow /\ MaxNATEntries \in Nat /\ drained \in [Relays -> SUBSET Entries]
      /\ table \in [Relays -> [Keys -> Entries \cup {NoEntry}]]
    BY Limits DEF FlowInv, TypeOK, RelayTypeOK
<1> USE DEF handlerVars
<1> SUFFICES ASSUME NEW s \in Relays PROVE Cardinality(drained'[s]) <= MaxNATEntries
    BY DEF DrainedWithinLimit
<1>1. ASSUME drained'[s] \subseteq drained[s] PROVE Cardinality(drained'[s]) <= MaxNATEntries
  <2>1. IsFiniteSet(drained[s]) /\ Cardinality(drained[s]) \in Nat
    BY <1>t, EntryIds, FS_Subset, FS_CardinalityType
  <2>2. /\ Cardinality(drained'[s]) <= Cardinality(drained[s])
        /\ Cardinality(drained'[s]) \in Nat
    BY <1>1, <2>1, FS_Subset, FS_CardinalityType
  <2>3. Cardinality(drained[s]) <= MaxNATEntries
    BY DEF DrainedWithinLimit
  <2> QED
    BY <1>t, <2>1, <2>2, <2>3
<1>2. ASSUME Drain(s) PROVE Cardinality(drained'[s]) <= MaxNATEntries
  <2> DEFINE f == [k \in Installed(s) |-> table[s][k]]
             T == {f[k] : k \in Installed(s)}
  <2>1. IsFiniteSet(Installed(s)) /\ Cardinality(Installed(s)) \in Nat
        /\ Cardinality(Installed(s)) <= MaxNATEntries
    BY InstalledFinite DEF TableWithinLimit
  <2>2. drained'[s] = T
    BY <1>2, <1>t DEF Drain
  <2>3. IsFiniteSet(T) /\ Cardinality(T) <= Cardinality(Installed(s))
    BY <2>1, ImageBound
  <2> HIDE DEF T
  <2>4. Cardinality(T) \in Nat
    BY <2>3, FS_CardinalityType
  <2> QED
    BY <1>t, <2>1, <2>2, <2>3, <2>4
<1>3. ASSUME NEW r \in Relays, RelayStep(r), ~(r = s /\ Drain(s))
      PROVE  drained'[s] \subseteq drained[s]
    BY <1>3, <1>t DEF RelayStep, Associate, ListenFails, Listen, ReplyFails, Reply,
       ControlClosed, HandlerReturns, CloseDone, CloseSocket, Drain, CloseDrained,
       ReleaseAssociation, ReadDatagram, ReaderStops, WorkersJoined, RunReturns
<1>4. ASSUME NEW r \in Relays, NEW w \in Workers, WorkerStep(r, w) PROVE UNCHANGED drained
    BY <1>4, <1>t, WorkerIsLocal
<1>5. ASSUME NEW e \in Entries, ReverseStep(e) PROVE UNCHANGED drained
    BY <1>5 DEF ReverseStep, Receive, Discard, ReadError, ReadTimeout, ReverseCloses, ReverseDeletes
<1>6. CASE Tick \/ UNCHANGED vars
    BY <1>1, <1>6 DEF Tick, vars
<1> QED
    BY <1>1, <1>2, <1>3, <1>4, <1>5, <1>6 DEF Next

\* A step that leaves every charged worker charged, or closes what it was charged with,
\* keeps the charges.
LEMMA ChargeKept ==
    ASSUME NEW r \in Relays, NEW L \in SUBSET Workers, LateCharge(r, L),
           \A k \in Keys : table'[r][k] \in {NoEntry, table[r][k]},
           \A e \in SocketsOf(r)' :
              \/ e \in SocketsOf(r) /\ (e \in drained[r] => e \in drained'[r])
              \/ \E w \in Workers : wpc'[r][w] = "install" /\ went'[r][w] = e,
           \A w \in Workers : wpc[r][w] \in {"install", "undo"} =>
              \/ wpc'[r][w] \in {"install", "undo"} /\ went'[r][w] = went[r][w]
              \/ went[r][w] \notin SocketsOf(r)',
           \A w \in Workers : wpc[r][w] \in {"evict", "redone"} =>
              /\ went'[r][w] = went[r][w]
              /\ \/ wpc'[r][w] \in {"evict", "redone"}
                 \/ wpc'[r][w] = "undo" /\ \A k \in Keys : table'[r][k] # went[r][w],
           \A w \in Workers : wpc[r][w] = "evict" =>
              \/ wpc'[r][w] = "evict" /\ victim'[r][w] = victim[r][w]
              \/ victim[r][w] \notin SocketsOf(r)'
    PROVE  LateCharge(r, L)'
<1>1. ASSUME NEW k \in Keys, table'[r][k] # NoEntry
      PROVE  \E w \in L : wpc'[r][w] \in {"evict", "redone"} /\ went'[r][w] = table'[r][k]
  <2>1. table'[r][k] = table[r][k]
    BY <1>1
  <2>2. PICK w \in L : wpc[r][w] \in {"evict", "redone"} /\ went[r][w] = table[r][k]
    BY <1>1, <2>1 DEF LateCharge
  <2> QED
    BY <2>1, <2>2
<1>2. ASSUME NEW e \in SocketsOf(r)'
      PROVE  \/ e \in drained'[r]
             \/ \E w \in Workers : wpc'[r][w] \in {"install", "undo"} /\ went'[r][w] = e
             \/ \E w \in L : wpc'[r][w] \in {"evict", "redone"} /\ went'[r][w] = e
             \/ \E w \in Workers \ L : wpc'[r][w] = "evict" /\ victim'[r][w] = e
  <2>1. CASE e \in SocketsOf(r) /\ (e \in drained[r] => e \in drained'[r])
    <3>1. CASE e \in drained[r]
      BY <2>1, <3>1
    <3>2. CASE \E w \in Workers : wpc[r][w] \in {"install", "undo"} /\ went[r][w] = e
      BY <1>2, <3>2
    <3>3. CASE \E w \in L : wpc[r][w] \in {"evict", "redone"} /\ went[r][w] = e
      BY <3>3
    <3>4. CASE \E w \in Workers \ L : wpc[r][w] = "evict" /\ victim[r][w] = e
      BY <1>2, <3>4
    <3> QED
      BY <2>1, <3>1, <3>2, <3>3, <3>4 DEF LateCharge
  <2>2. CASE \E w \in Workers : wpc'[r][w] = "install" /\ went'[r][w] = e
    BY <2>2
  <2> QED
    BY <1>2, <2>1, <2>2
<1> QED
    BY <1>1, <1>2 DEF LateCharge

\* The only socket a worker's step opens is the one it has dialled.
LEMMA WorkerOpens ==
    ASSUME FlowInv, InstallHasNoRival, NEW r \in Relays, NEW w \in Workers, WorkerStep(r, w),
           NEW s \in Relays, NEW e \in SocketsOf(s)'
    PROVE  \/ e \in SocketsOf(s)
           \/ s = r /\ wpc'[r][w] = "install" /\ went'[r][w] = e
<1>t. /\ TypeOK /\ WorkerFlow /\ owner \in [Entries -> Relays]
      /\ state \in [Entries -> {"dialing", "open", "closed"}]
    BY DEF FlowInv, TypeOK, EntryTypeOK
<1>e. e \in Entries /\ owner'[e] = s /\ state'[e] = "open"
    BY DEF SocketsOf
<1>1. CASE AcquireToken(r, w)
  <2>1. PICK f \in FreeEntries :
           state' = [state EXCEPT ![f] = "dialing"] /\ owner' = [owner EXCEPT ![f] = r]
    BY <1>1 DEF AcquireToken
  <2> QED
    BY <1>t, <1>e, <2>1 DEF SocketsOf
<1>2. CASE DialSucceeds(r, w)
  <2>1. went[r][w] \in Entries /\ owner[went[r][w]] = r
    BY <1>2, <1>t DEF DialSucceeds, WorkerFlow, HandsOn
  <2>2. wpc'[r][w] = "install"
    BY <1>2, <1>t, GotoFacts DEF DialSucceeds, WorkerPCs
  <2>3. UNCHANGED <<went, owner>> /\ state' = [state EXCEPT ![went[r][w]] = "open"]
    BY <1>2 DEF DialSucceeds, idVars
  <2> QED
    BY <1>t, <1>e, <2>1, <2>2, <2>3 DEF SocketsOf
<1>3. CASE ~AcquireToken(r, w) /\ ~DialSucceeds(r, w)
  <2>1. UNCHANGED owner
    BY <1>3 DEF WorkerStep, Take, WorkerExits, CheckDone, Load, Join, Recheck, Refused, DialFails,
       Install, CloseVictim, RecheckDone, Undo, Write, Touch, entryVars, idVars
  <2>2. state'[e] \in {state[e], "closed"}
    BY <1>3, <1>t, <1>e DEF WorkerStep, Take, WorkerExits, CheckDone, Load, Join, Recheck, Refused, DialFails,
       Install, CloseVictim, RecheckDone, Undo, Write, Touch, entryVars, CloseEntry
  <2> QED
    BY <1>e, <2>1, <2>2 DEF SocketsOf
<1> QED
    BY <1>1, <1>2, <1>3

\* A worker that installs after Drain joins L; what it evicts is charged already.
LEMMA ChargeWorkerStep ==
    ASSUME TableInv, NEW r \in Relays, NEW w \in Workers, WorkerStep(r, w),
           NEW s \in Relays, TableDrained(s), NEW L \in SUBSET Workers, LateCharge(s, L)
    PROVE  \E M \in SUBSET Workers : LateCharge(s, M)'
<1>a. FlowInv /\ OneLeader /\ SlotStaysFree /\ InstallIsPrivate /\ InstallHasNoRival
    BY DEF TableInv, ShutInv, SlotStaysFree, InstallHasNoRival
<1>b. TypeOK /\ WorkerFlow /\ TableMatches
    BY <1>a DEF FlowInv
<1>t. /\ table \in [Relays -> [Keys -> Entries \cup {NoEntry}]] /\ wkey[r][w] \in Keys
      /\ wpc \in [Relays -> [Workers -> WorkerPCs]]
      /\ state \in [Entries -> {"dialing", "open", "closed"}]
    BY <1>b DEF TypeOK, RelayTypeOK, WorkerTypeOK, EntryTypeOK
<1>d. UNCHANGED drained
    BY <1>b, WorkerIsLocal DEF handlerVars
<1>o. \A v \in Workers : (s # r \/ v # w) /\ wpc[s][v] \in {"install", "evict", "redone", "undo"} =>
         wpc'[s][v] = wpc[s][v] /\ went'[s][v] = went[s][v] /\ victim'[s][v] = victim[s][v]
    BY <1>b, OthersStay
<1>p. \A e \in SocketsOf(s)' :
         \/ e \in SocketsOf(s) /\ (e \in drained[s] => e \in drained'[s])
         \/ \E v \in Workers : wpc'[s][v] = "install" /\ went'[s][v] = e
    BY <1>a, <1>d, WorkerOpens
<1>1. CASE s = r /\ wpc[r][w] = "install"
  <2>1. Install(r, w) /\ table[r][wkey[r][w]] = NoEntry
    BY <1>1, <1>a DEF InstallHasNoRival, WorkerStep, Take, WorkerExits, CheckDone, Load, Join, Recheck,
       Refused, AcquireToken, DialFails, DialSucceeds, CloseVictim, RecheckDone, Undo,
       Write, Touch
  <2>2. /\ UNCHANGED <<went, state, owner>>
        /\ Goto(r, w, "redone") \/ Goto(r, w, "evict")
    BY <2>1 DEF Install, idVars
  <2>3. wpc'[r][w] \in {"redone", "evict"}
    BY <1>b, <2>2, GotoFacts DEF WorkerPCs
  <2>4. \A k \in Keys : table'[r][k] \in {NoEntry, table[r][k], went[r][w]}
    BY <1>a, WorkerTable
  <2> DEFINE M == L \cup {w}
  <2>5. ASSUME NEW k \in Keys, table'[r][k] # NoEntry
        PROVE  \E v \in M : wpc'[r][v] \in {"evict", "redone"} /\ went'[r][v] = table'[r][k]
    <3>1. CASE table'[r][k] = went[r][w]
      BY <2>2, <2>3, <3>1
    <3>2. CASE table'[r][k] = table[r][k]
      <4>1. PICK v \in L : wpc[r][v] \in {"evict", "redone"} /\ went[r][v] = table[r][k]
        BY <1>1, <2>5, <3>2 DEF LateCharge
      <4>2. v # w /\ v \in Workers
        BY <1>1, <4>1
      <4> QED
        BY <1>1, <1>o, <3>2, <4>1, <4>2
    <3> QED
      BY <2>4, <2>5, <3>1, <3>2
  <2>6. ASSUME NEW e \in SocketsOf(r)'
        PROVE  \/ e \in drained'[r]
               \/ \E v \in Workers : wpc'[r][v] \in {"install", "undo"} /\ went'[r][v] = e
               \/ \E v \in M : wpc'[r][v] \in {"evict", "redone"} /\ went'[r][v] = e
               \/ \E v \in Workers \ M : wpc'[r][v] = "evict" /\ victim'[r][v] = e
    <3>1. e \in SocketsOf(r)
      BY <2>2 DEF SocketsOf
    <3>2. CASE e = went[r][w]
      BY <2>2, <2>3, <3>2
    <3>3. CASE e \in drained[r]
      BY <1>d, <3>3
    <3>4. ASSUME NEW v \in Workers, v # w, wpc[r][v] \in {"install", "undo"}, went[r][v] = e
          PROVE  wpc'[r][v] \in {"install", "undo"} /\ went'[r][v] = e
      BY <1>1, <1>o, <3>4
    <3>5. ASSUME NEW v \in L, wpc[r][v] \in {"evict", "redone"}, went[r][v] = e
          PROVE  v \in M /\ wpc'[r][v] \in {"evict", "redone"} /\ went'[r][v] = e
      BY <1>1, <1>o, <3>5
    <3>6. ASSUME NEW v \in Workers \ L, wpc[r][v] = "evict", victim[r][v] = e
          PROVE  v \in Workers \ M /\ wpc'[r][v] = "evict" /\ victim'[r][v] = e
      BY <1>1, <1>o, <3>6
    <3> HIDE DEF M
    <3> QED
      BY <1>1, <3>1, <3>2, <3>3, <3>4, <3>5, <3>6 DEF LateCharge
  <2>7. M \in SUBSET Workers
    OBVIOUS
  <2> HIDE DEF M
  <2>8. LateCharge(r, M)'
    BY <2>5, <2>6 DEF LateCharge
  <2> QED
    BY <1>1, <2>7, <2>8
<1>2. CASE ~(s = r /\ wpc[r][w] = "install")
  <2>1. \A k \in Keys : table'[s][k] \in {NoEntry, table[s][k]}
    BY <1>2, <1>a, WorkerTable
  <2>2. CASE s # r \/ wpc[r][w] \notin {"evict", "redone", "undo"}
    <3>1. \A v \in Workers : wpc[s][v] \in {"install", "evict", "redone", "undo"} =>
             wpc'[s][v] = wpc[s][v] /\ went'[s][v] = went[s][v] /\ victim'[s][v] = victim[s][v]
      BY <1>2, <1>o, <2>2
    <3> QED
      BY <1>p, <2>1, <3>1, ChargeKept
  <2>3. CASE s = r /\ wpc[r][w] = "undo"
    <3>1. Undo(r, w)
      BY <2>3 DEF WorkerStep, Take, WorkerExits, CheckDone, Load, Join, Recheck,
         Refused, AcquireToken, DialFails, DialSucceeds, Install, CloseVictim, RecheckDone,
         Write, Touch
    <3>2. went[r][w] \in Entries
      BY <1>b, <2>3 DEF WorkerFlow, HandsOn
    <3>3. state'[went[r][w]] = "closed"
      BY <1>b, <3>1, <3>2, CloseEntryFacts DEF Undo
    <3>4. went[r][w] \notin SocketsOf(r)'
      BY <3>3 DEF SocketsOf
    <3> QED
      BY <1>o, <1>p, <2>1, <2>3, <3>4, ChargeKept
  <2>4. CASE s = r /\ wpc[r][w] = "evict"
    <3>1. CloseVictim(r, w)
      BY <2>4 DEF WorkerStep, Take, WorkerExits, CheckDone, Load, Join, Recheck,
         Refused, AcquireToken, DialFails, DialSucceeds, Install, RecheckDone, Undo,
         Write, Touch
    <3>2. victim[r][w] \in Entries
      BY <1>b, <2>4 DEF WorkerFlow
    <3>3. state'[victim[r][w]] = "closed"
      BY <1>b, <3>1, <3>2, CloseEntryFacts DEF CloseVictim
    <3>4. victim[r][w] \notin SocketsOf(r)'
      BY <3>3 DEF SocketsOf
    <3>5. wpc'[r][w] = "redone" /\ UNCHANGED went
      BY <1>b, <3>1, GotoFacts DEF CloseVictim, WorkerPCs
    <3> QED
      BY <1>o, <1>p, <2>1, <2>4, <3>4, <3>5, ChargeKept
  <2>5. CASE s = r /\ wpc[r][w] = "redone"
    <3>1. RecheckDone(r, w)
      BY <2>5 DEF WorkerStep, Take, WorkerExits, CheckDone, Load, Join, Recheck,
         Refused, AcquireToken, DialFails, DialSucceeds, Install, CloseVictim, Undo,
         Write, Touch
    <3>2. Done(r)
      BY <2>5 DEF TableDrained, Done
    <3>3. Goto(r, w, "undo") /\ UNCHANGED went
      BY <3>1, <3>2 DEF RecheckDone
    <3>4. wpc'[r][w] = "undo"
      BY <1>b, <3>3, GotoFacts DEF WorkerPCs
    <3>5. table'[r][wkey[r][w]] # went[r][w]
      BY <1>a, <3>4, WorkerProgress DEF Creating
    <3>6. went[r][w] \in Entries /\ key[went[r][w]] = wkey[r][w]
      BY <1>b, <2>5 DEF WorkerFlow, HandsOn
    <3>7. ASSUME NEW k \in Keys PROVE table'[r][k] # went[r][w]
      BY <1>b, <2>1, <2>5, <3>5, <3>6, EntryIds DEF TableMatches
    <3> QED
      BY <1>o, <1>p, <2>1, <2>5, <3>3, <3>4, <3>7, ChargeKept
  <2> QED
    BY <1>2, <2>2, <2>3, <2>4, <2>5
<1> QED
    BY <1>1, <1>2

\* Drain starts with nobody in L: its table is in Close's hands, and each worker has
\* at most one socket outside the table.
LEMMA ChargeOutsideStep ==
    ASSUME LimitInv, NEW s \in Relays, TableDrained(s)',
           \/ \E r \in Relays : RelayStep(r)
           \/ \E e \in Entries : ReverseStep(e)
           \/ Tick \/ UNCHANGED vars
    PROVE  \E M \in SUBSET Workers : LateCharge(s, M)'
<1>a. ShutInv /\ FlowInv /\ OpenIsCovered /\ FreshTable /\ LateSocketsCharged
    BY DEF LimitInv, TableInv, ShutInv
<1>b. TypeOK /\ WorkerFlow /\ TableMatches /\ Lifecycle
    BY <1>a DEF FlowInv
<1>t. /\ table \in [Relays -> [Keys -> Entries \cup {NoEntry}]]
      /\ wpc \in [Relays -> [Workers -> WorkerPCs]]
      /\ state \in [Entries -> {"dialing", "open", "closed"}]
      /\ closer \in [Relays -> {"open", "done", "socket", "draining", "closed"}]
      /\ drained \in [Relays -> SUBSET Entries]
      /\ owner \in [Entries -> Relays] /\ key \in [Entries -> Keys]
    BY <1>b DEF TypeOK, RelayTypeOK, WorkerTypeOK, EntryTypeOK
<1>o. /\ UNCHANGED <<went, victim, owner, key>>
      /\ \A q \in Relays, v \in Workers : wpc'[q][v] \in {"idle", wpc[q][v]}
      /\ \A q \in Relays, k \in Keys : table'[q][k] \in {NoEntry, table[q][k]}
    BY <1>b, OutsideWorkers
<1> USE DEF handlerVars, poolVars, workerVars, idVars, entryVars
\* Steps that do not move closer[s] into the drained states.
<1>1. ASSUME TableDrained(s), wpc'[s] = wpc[s],
             \A e \in Entries : state'[e] \in {state[e], "closed"},
             \A e \in drained[s] : state'[e] = "open" => e \in drained'[s]
      PROVE  \E M \in SUBSET Workers : LateCharge(s, M)'
  <2>1. PICK L \in SUBSET Workers : LateCharge(s, L)
    BY <1>1, <1>a DEF LateSocketsCharged
  <2>2. \A e \in SocketsOf(s)' : e \in SocketsOf(s) /\ (e \in drained[s] => e \in drained'[s])
    BY <1>1, <1>o DEF SocketsOf
  <2> QED
    BY <1>1, <1>o, <2>1, <2>2, ChargeKept
<1>2. CASE Drain(s)
  <2>1. /\ closer[s] = "socket" /\ UNCHANGED <<wpc, state>>
        /\ drained' = [drained EXCEPT ![s] = {table[s][k] : k \in Installed(s)}]
        /\ table' = [table EXCEPT ![s] = [k \in Keys |-> NoEntry]]
    BY <1>2 DEF Drain
  <2>2. drained[s] = {} /\ ~TableDrained(s)
    BY <1>b, <2>1 DEF Lifecycle, TableDrained
  <2>3. \A k \in Keys : table'[s][k] = NoEntry
    BY <1>t, <2>1
  <2>4. ASSUME NEW e \in SocketsOf(s)'
        PROVE  \/ e \in drained'[s]
               \/ \E w \in Workers : wpc'[s][w] \in {"install", "undo"} /\ went'[s][w] = e
               \/ \E w \in Workers : wpc'[s][w] = "evict" /\ victim'[s][w] = e
    <3>1. e \in Entries /\ owner[e] = s /\ state[e] = "open"
      BY <1>o, <2>1 DEF SocketsOf
    <3>2. \/ \E v \in Workers : wpc[s][v] \in {"install", "undo"} /\ went[s][v] = e
          \/ \E v \in Workers : wpc[s][v] = "evict" /\ victim[s][v] = e
          \/ table[s][key[e]] = e
      BY <1>a, <2>2, <3>1, CoverMeaning DEF OpenIsCovered
    <3>3. table[s][key[e]] = e => e \in drained'[s]
      BY <1>t, <2>1, <3>1, EntryIds DEF Installed
    <3> QED
      BY <1>o, <2>1, <3>2, <3>3
  <2>5. LateCharge(s, {})'
    BY <2>3, <2>4 DEF LateCharge
  <2> QED
    BY <2>5
<1>3. CASE ListenFails(s)
  <2>1. /\ handler[s] = "listen" /\ UNCHANGED <<wpc, state, table>>
    BY <1>3 DEF ListenFails
  <2>2. run[s] = "returned" /\ closer[s] = "open"
    BY <1>b, <2>1 DEF Lifecycle
  <2>3. (\A w \in Workers : wpc[s][w] = "exited") /\ drained[s] = {}
    BY <1>b, <2>2 DEF Lifecycle
  <2>4. \A k \in Keys : table[s][k] = NoEntry
    BY <1>a, <2>1 DEF FreshTable
  <2>5. \A e \in Entries : owner[e] = s => state[e] # "open"
    BY <1>a, <2>3, <2>4, NothingOpen
  <2>6. LateCharge(s, {})'
    BY <1>o, <2>1, <2>4, <2>5 DEF LateCharge, SocketsOf
  <2> QED
    BY <2>6
<1>4. ASSUME NEW r \in Relays, RelayStep(r), ~Drain(s), ~ListenFails(s)
      PROVE  \E M \in SUBSET Workers : LateCharge(s, M)'
  <2>1. TableDrained(s)
    BY <1>4, <1>t DEF TableDrained, RelayStep, Associate, ListenFails, Listen, ReplyFails, Reply,
       ControlClosed, HandlerReturns, CloseDone, CloseSocket, Drain, CloseDrained,
       ReleaseAssociation, ReadDatagram, ReaderStops, WorkersJoined, RunReturns
  <2>2. CASE Reply(r)
    <3>1. r # s
      BY <1>b, <2>1, <2>2 DEF Reply, Lifecycle, TableDrained
    <3>2. wpc'[s] = wpc[s] /\ UNCHANGED <<state, drained>>
      BY <1>t, <2>2, <3>1 DEF Reply
    <3> QED
      BY <1>1, <2>1, <3>2
  <2>3. ASSUME NEW f \in Entries, CloseDrained(r, f)
        PROVE  \E M \in SUBSET Workers : LateCharge(s, M)'
    <3>1. UNCHANGED wpc /\ drained' = [drained EXCEPT ![r] = @ \ {f}] /\ CloseEntry(f)
      BY <2>3 DEF CloseDrained
    <3>2. state'[f] = "closed" /\ \A e \in Entries : state'[e] \in {state[e], "closed"}
      BY <1>b, <3>1, CloseEntryFacts
    <3>3. \A e \in drained[s] : state'[e] = "open" => e \in drained'[s]
      BY <1>t, <3>1, <3>2
    <3> QED
      BY <1>1, <2>1, <3>1, <3>2, <3>3
  <2>4. CASE Drain(r) /\ r # s
    <3>1. UNCHANGED <<wpc, state>> /\ drained'[s] = drained[s]
      BY <1>t, <2>4 DEF Drain
    <3> QED
      BY <1>1, <2>1, <3>1
  <2>5. CASE ~Reply(r) /\ ~Drain(r) /\ ~\E f \in Entries : CloseDrained(r, f)
    <3>1. UNCHANGED <<wpc, state, drained>>
      BY <1>4, <2>5 DEF RelayStep, Associate, ListenFails, Listen, ReplyFails,
         ControlClosed, HandlerReturns, CloseDone, CloseSocket,
         ReleaseAssociation, ReadDatagram, ReaderStops, WorkersJoined, RunReturns
    <3> QED
      BY <1>1, <2>1, <3>1
  <2> QED
    BY <1>4, <2>2, <2>3, <2>4, <2>5
<1>5. ASSUME NEW f \in Entries, ReverseStep(f)
      PROVE  \E M \in SUBSET Workers : LateCharge(s, M)'
  <2>1. UNCHANGED <<wpc, closer, drained>>
    BY <1>5 DEF ReverseStep, Receive, Discard, ReadError, ReadTimeout, ReverseCloses, ReverseDeletes
  <2>2. \A e \in Entries : state'[e] \in {state[e], "closed"}
    BY <1>5, <1>t DEF ReverseStep, Receive, Discard, ReadError, ReadTimeout, ReverseCloses,
       ReverseDeletes, CloseEntry
  <2> QED
    BY <1>1, <2>1, <2>2 DEF TableDrained
<1>6. CASE Tick \/ UNCHANGED vars
  <2>1. UNCHANGED <<wpc, closer, drained, state>>
    BY <1>6 DEF Tick, vars
  <2> QED
    BY <1>1, <2>1 DEF TableDrained
<1> QED
    BY <1>2, <1>3, <1>4, <1>5, <1>6

\* Every step keeps the invariant.
LEMMA LimitStep == LimitInv /\ [Next]_vars => LimitInv'
<1> SUFFICES ASSUME LimitInv, [Next]_vars PROVE LimitInv'
    OBVIOUS
<1>1. TableInv' /\ TableWithinLimit' /\ DrainedWithinLimit'
    BY TableStep, TableLimitStep, DrainedLimitStep DEF LimitInv, TableInv, ShutInv
<1>2. ASSUME NEW s \in Relays, TableDrained(s)' PROVE \E M \in SUBSET Workers : LateCharge(s, M)'
  <2>1. ASSUME NEW r \in Relays, NEW w \in Workers, WorkerStep(r, w)
        PROVE  \E M \in SUBSET Workers : LateCharge(s, M)'
    <3>1. TableDrained(s)
      BY <1>2, <2>1, WorkerIsLocal DEF LimitInv, TableInv, ShutInv, FlowInv, TableDrained, handlerVars
    <3>2. PICK L \in SUBSET Workers : LateCharge(s, L)
      BY <3>1 DEF LimitInv, LateSocketsCharged
    <3> QED
      BY <2>1, <3>1, <3>2, ChargeWorkerStep DEF LimitInv
  <2> QED
    BY <1>2, <2>1, ChargeOutsideStep DEF Next
<1> QED
    BY <1>1, <1>2 DEF LimitInv, LateSocketsCharged

\* Initially there are no flows and no sockets.
LEMMA LimitInit == Init => LimitInv
<1> SUFFICES ASSUME Init PROVE LimitInv
    OBVIOUS
<1>1. \A r \in Relays : Installed(r) = {} /\ drained[r] = {} /\ SocketsOf(r) = {}
    BY DEF Init, Installed, SocketsOf
<1>2. TableWithinLimit /\ DrainedWithinLimit
    BY <1>1, FS_EmptySet, Limits DEF TableWithinLimit, DrainedWithinLimit
<1>3. ASSUME NEW r \in Relays PROVE LateCharge(r, {})
    BY <1>1 DEF LateCharge, Installed
<1> QED
    BY <1>2, <1>3, TableInit DEF LimitInv, LateSocketsCharged

\* The invariant of the per-association limits holds in every state.
THEOREM LimitInvariant == Spec => []LimitInv
BY LimitInit, LimitStep, PTL DEF Spec

\* An association's table never holds more than MaxNATEntries flows, and its open
\* sockets, late installs racing Drain included, exceed that by at most one per worker.
THEOREM AssociationSocketsBounded == Spec => []FlowsWithinLimit
<1>1. ASSUME LimitInv PROVE FlowsWithinLimit
  <2> SUFFICES ASSUME NEW r \in Relays
               PROVE  /\ Cardinality(Installed(r)) <= MaxNATEntries
                      /\ Cardinality(SocketsOf(r)) <= MaxNATEntries + Cardinality(Workers)
    BY DEF FlowsWithinLimit
  <2>a. FlowInv /\ OpenIsCovered /\ TableWithinLimit /\ DrainedWithinLimit /\ LateSocketsCharged
    BY <1>1 DEF LimitInv, TableInv, ShutInv
  <2>t. /\ drained[r] \in SUBSET Entries /\ MaxNATEntries \in Nat
        /\ table[r] \in [Keys -> Entries \cup {NoEntry}] /\ key \in [Entries -> Keys]
        /\ Cardinality(Workers) \in Nat
    BY <2>a, Limits, WorkerIds, FS_CardinalityType DEF FlowInv, TypeOK, RelayTypeOK, EntryTypeOK
  <2>1. Cardinality(Installed(r)) <= MaxNATEntries
    BY <2>a DEF TableWithinLimit
  <2>3. CASE ~TableDrained(r)
    <3> DEFINE f == [w \in Workers |-> IF wpc[r][w] = "evict" THEN victim[r][w] ELSE went[r][w]]
               g == [k \in Installed(r) |-> table[r][k]]
               S == {g[k] : k \in Installed(r)} \cup drained[r]
    <3>1. drained[r] = {} \/ closer[r] = "draining"
      BY <2>a DEF FlowInv, Lifecycle
    <3>2. S = {g[k] : k \in Installed(r)}
      BY <2>3, <3>1 DEF TableDrained
    <3>3. /\ IsFiniteSet(Installed(r)) /\ Cardinality(Installed(r)) \in Nat
      BY <2>a, InstalledFinite
    <3>4. IsFiniteSet(S) /\ Cardinality(S) <= Cardinality(Installed(r))
      <4>1. g = [k \in Installed(r) |-> g[k]]
        OBVIOUS
      <4> HIDE DEF g, S
      <4> QED
        BY <3>2, <3>3, <4>1, ImageBound
    <3>5. ASSUME NEW e \in SocketsOf(r) PROVE e \in S \cup {f[w] : w \in Workers}
      <4>1. e \in Entries /\ owner[e] = r /\ Covered(e)
        BY <2>a DEF SocketsOf, OpenIsCovered
      <4>2. \/ \E v \in Workers : wpc[r][v] \in {"install", "undo"} /\ went[r][v] = e
            \/ \E v \in Workers : wpc[r][v] = "evict" /\ victim[r][v] = e
            \/ e \in drained[r]
            \/ table[r][key[e]] = e
        BY <2>3, <4>1, CoverMeaning
      <4>3. CASE table[r][key[e]] = e
        <5>1. key[e] \in Installed(r) /\ g[key[e]] = e
          BY <2>t, <4>1, <4>3, EntryIds DEF Installed
        <5> QED
          BY <5>1
      <4> QED
        BY <4>2, <4>3
    <3>6. Cardinality(S) \in Nat
      BY <3>4, FS_CardinalityType
    <3> HIDE DEF S
    <3>7. Cardinality(S) <= MaxNATEntries
      BY <2>1, <2>t, <3>3, <3>4, <3>6
    <3>8. f = [w \in Workers |-> f[w]]
      OBVIOUS
    <3> HIDE DEF f
    <3>9. SocketsOf(r) \subseteq S \cup {f[w] : w \in Workers}
      BY <3>5
    <3> QED
      BY <2>1, <2>t, <3>4, <3>7, <3>8, <3>9, SlotsAndWorkers
  <2>4. CASE TableDrained(r)
    <3>1. PICK L \in SUBSET Workers : LateCharge(r, L)
      BY <2>4, <2>a DEF LateSocketsCharged
    <3> DEFINE f == [w \in Workers |->
                       IF wpc[r][w] = "evict" /\ w \notin L THEN victim[r][w] ELSE went[r][w]]
    <3>2. ASSUME NEW e \in SocketsOf(r) PROVE e \in drained[r] \cup {f[w] : w \in Workers}
      <4>1. \/ e \in drained[r]
            \/ \E w \in Workers : wpc[r][w] \in {"install", "undo"} /\ went[r][w] = e
            \/ \E w \in L : wpc[r][w] \in {"evict", "redone"} /\ went[r][w] = e
            \/ \E w \in Workers \ L : wpc[r][w] = "evict" /\ victim[r][w] = e
        BY <3>1 DEF LateCharge
      <4> QED
        BY <4>1
    <3>3. IsFiniteSet(drained[r]) /\ Cardinality(drained[r]) <= MaxNATEntries
      BY <2>a, <2>t, EntryIds, FS_Subset DEF DrainedWithinLimit
    <3>4. f = [w \in Workers |-> f[w]]
      OBVIOUS
    <3> HIDE DEF f
    <3>5. SocketsOf(r) \subseteq drained[r] \cup {f[w] : w \in Workers}
      BY <3>2
    <3> QED
      BY <2>1, <2>t, <3>3, <3>4, <3>5, SlotsAndWorkers
  <2> QED
    BY <2>1, <2>3, <2>4
<1> QED
    BY <1>1, LimitInvariant, PTL

----------------------------------------------------------------------------
(***************************************************************************)
(* Singleflight: who waits has somebody to wait for.                       *)
(***************************************************************************)
\* A call that is in flight is led by a worker inside its function, and a worker
\* that waits, waits for a call that is in flight.
FlightsLed ==
    /\ \A r \in Relays, k \in Keys : flight[r][k] # NoWorker =>
          wpc[r][flight[r][k]] \in LeaderPCs /\ wkey[r][flight[r][k]] = k
    /\ \A r \in Relays, w \in Workers : wpc[r][w] = "wait" => flight[r][wkey[r][w]] # NoWorker

\* A leader leads for as long as it stays in its function.
LEMMA LeadStep ==
    ASSUME TypeOK, NEW r \in Relays, NEW w \in Workers, WorkerStep(r, w)
    PROVE  \/ /\ UNCHANGED flight
              /\ wpc[r][w] \in LeaderPCs => wpc'[r][w] \in LeaderPCs /\ wkey'[r][w] = wkey[r][w]
              /\ wpc'[r][w] = "wait" => /\ wkey'[r][w] = wkey[r][w]
                                        /\ flight[r][wkey[r][w]] # NoWorker
           \/ wkey'[r][w] = wkey[r][w] /\ \E e \in Entries \cup {NoEntry} : Finish(r, w, e)
           \/ /\ wkey'[r][w] = wkey[r][w] /\ wpc[r][w] = "join" /\ wpc'[r][w] = "recheck"
              /\ flight' = [flight EXCEPT ![r][wkey[r][w]] = w]
<1>t. /\ wkey \in [Relays -> [Workers -> Keys]]
      /\ wpc \in [Relays -> [Workers -> WorkerPCs]]
      /\ wkey[r][w] \in Keys /\ went[r][w] \in Entries \cup {NoEntry}
      /\ table[r][wkey[r][w]] \in Entries \cup {NoEntry}
    BY DEF TypeOK, RelayTypeOK, WorkerTypeOK
<1>g. ASSUME NEW pc \in WorkerPCs, Goto(r, w, pc) PROVE wpc'[r][w] = pc
    BY <1>g, GotoFacts
<1>1. CASE Take(r, w) \/ WorkerExits(r, w) \/ CheckDone(r, w) \/ Load(r, w)
           \/ Write(r, w) \/ Touch(r, w)
  <2>1. UNCHANGED flight /\ wpc[r][w] \notin LeaderPCs /\ wpc'[r][w] # "wait"
    BY <1>1, <1>t DEF Take, WorkerExits, CheckDone, Load, Write, Touch, Goto, LeaderPCs, workerVars
  <2> QED
    BY <2>1
<1>2. CASE Join(r, w)
  <2>1. CASE flight[r][wkey[r][w]] = NoWorker
    BY <1>2, <1>t, <1>g, <2>1 DEF Join, WorkerPCs
  <2>2. CASE flight[r][wkey[r][w]] # NoWorker
    BY <1>2, <1>t, <1>g, <2>2 DEF Join, WorkerPCs, LeaderPCs
  <2> QED
    BY <2>1, <2>2
<1>3. CASE Recheck(r, w)
    BY <1>3, <1>t, <1>g DEF Recheck, LeaderPCs, WorkerPCs
<1>4. CASE Refused(r, w) \/ DialFails(r, w) \/ Undo(r, w)
    BY <1>4 DEF Refused, DialFails, Undo
<1>5. CASE AcquireToken(r, w) \/ DialSucceeds(r, w) \/ CloseVictim(r, w)
  <2>1. PICK pc \in {"dial", "install", "redone"} : Goto(r, w, pc)
    BY <1>5 DEF AcquireToken, DialSucceeds, CloseVictim
  <2>2. UNCHANGED flight /\ wkey'[r][w] = wkey[r][w]
    BY <1>5 DEF AcquireToken, DialSucceeds, CloseVictim
  <2> QED
    BY <1>g, <2>1, <2>2 DEF LeaderPCs, WorkerPCs
<1>6. CASE Install(r, w)
  <2>1. \/ Finish(r, w, table[r][wkey[r][w]])
        \/ (Goto(r, w, "redone") \/ Goto(r, w, "evict")) /\ UNCHANGED flight
    BY <1>6 DEF Install
  <2>2. wkey'[r][w] = wkey[r][w]
    BY <1>6 DEF Install
  <2> QED
    BY <1>t, <1>g, <2>1, <2>2 DEF LeaderPCs, WorkerPCs
<1>7. CASE RecheckDone(r, w)
  <2>1. \/ Finish(r, w, went[r][w])
        \/ Goto(r, w, "undo") /\ UNCHANGED flight
    BY <1>7 DEF RecheckDone
  <2>2. wkey'[r][w] = wkey[r][w]
    BY <1>7 DEF RecheckDone
  <2> QED
    BY <1>t, <1>g, <2>1, <2>2 DEF LeaderPCs, WorkerPCs
<1> QED
    BY <1>1, <1>2, <1>3, <1>4, <1>5, <1>6, <1>7 DEF WorkerStep

\* Outside the workers only the start of the pool moves them, and then none runs yet.
LEMMA PoolStart ==
    ASSUME TypeOK, Lifecycle, FlightsLed,
           \/ \E r \in Relays : RelayStep(r)
           \/ \E e \in Entries : ReverseStep(e)
           \/ Tick \/ UNCHANGED vars
    PROVE  FlightsLed'
<1>t. /\ wpc \in [Relays -> [Workers -> WorkerPCs]]
      /\ flight \in [Relays -> [Keys -> Workers \cup {NoWorker}]]
    BY DEF TypeOK, WorkerTypeOK
<1>1. UNCHANGED <<wkey, flight>>
    BY OutsideWorkers
<1>2. CASE UNCHANGED wpc
    BY <1>1, <1>2 DEF FlightsLed
<1>3. ASSUME NEW r \in Relays, Reply(r) PROVE FlightsLed'
  <2>1. \A w \in Workers : wpc[r][w] = "exited"
    BY <1>3 DEF Reply, Lifecycle
  <2>2. wpc' = [wpc EXCEPT ![r] = [w \in Workers |-> "idle"]]
    BY <1>3 DEF Reply
  <2>3. \A s \in Relays, w \in Workers :
           \/ wpc'[s][w] = wpc[s][w]
           \/ s = r /\ wpc'[s][w] = "idle"
    BY <1>t, <2>2
  <2>4. \A k \in Keys : flight[r][k] = NoWorker
    BY <1>t, <2>1 DEF FlightsLed, LeaderPCs
  <2>5. ASSUME NEW s \in Relays, NEW k \in Keys, flight'[s][k] # NoWorker
        PROVE  wpc'[s][flight'[s][k]] \in LeaderPCs /\ wkey'[s][flight'[s][k]] = k
    <3>1. PICK v \in Workers : v = flight[s][k]
      BY <1>t, <1>1, <2>5
    <3>2. s # r /\ wpc[s][v] \in LeaderPCs /\ wkey[s][v] = k
      BY <1>1, <2>4, <2>5, <3>1 DEF FlightsLed
    <3> QED
      BY <1>1, <2>3, <3>1, <3>2
  <2>6. ASSUME NEW s \in Relays, NEW v \in Workers, wpc'[s][v] = "wait"
        PROVE  flight'[s][wkey'[s][v]] # NoWorker
    BY <1>1, <2>3, <2>6 DEF FlightsLed
  <2> QED
    BY <2>5, <2>6 DEF FlightsLed
<1>4. ASSUME NEW r \in Relays, RelayStep(r), ~Reply(r) PROVE UNCHANGED wpc
    BY <1>4 DEF RelayStep, Associate, ListenFails, Listen, ReplyFails, ControlClosed,
       HandlerReturns, CloseDone, CloseSocket, Drain, CloseDrained, ReleaseAssociation,
       ReadDatagram, ReaderStops, WorkersJoined, RunReturns, handlerVars, poolVars, workerVars
<1>5. ASSUME NEW e \in Entries, ReverseStep(e) PROVE UNCHANGED wpc
    BY <1>5 DEF ReverseStep, Receive, Discard, ReadError, ReadTimeout, ReverseCloses,
       ReverseDeletes, handlerVars, poolVars, workerVars
<1>6. CASE Tick \/ UNCHANGED vars
    BY <1>2, <1>6 DEF Tick, vars, handlerVars, poolVars, workerVars
<1> QED
    BY <1>2, <1>3, <1>4, <1>5, <1>6

LEMMA FlightsLedStep ==
    ASSUME FlowInv, FlightsLed, [Next]_vars
    PROVE  FlightsLed'
<1>t. /\ TypeOK /\ Lifecycle
      /\ wkey \in [Relays -> [Workers -> Keys]]
      /\ flight \in [Relays -> [Keys -> Workers \cup {NoWorker}]]
    BY DEF FlowInv, TypeOK, WorkerTypeOK
<1>1. ASSUME NEW r \in Relays, NEW w \in Workers, WorkerStep(r, w) PROVE FlightsLed'
  <2>t. wkey[r][w] \in Keys
    BY <1>t
  <2>1. \A s \in Relays, v \in Workers : s # r \/ v # w =>
           /\ wkey'[s][v] = wkey[s][v]
           /\ wpc[s][v] # "wait" => wpc'[s][v] = wpc[s][v]
           /\ wpc'[s][v] = "wait" => wpc[s][v] = "wait"
    BY <1>1, <1>t, OthersStay
  <2>2. CASE /\ UNCHANGED flight
             /\ wpc[r][w] \in LeaderPCs => wpc'[r][w] \in LeaderPCs /\ wkey'[r][w] = wkey[r][w]
             /\ wpc'[r][w] = "wait" => wkey'[r][w] = wkey[r][w] /\ flight[r][wkey[r][w]] # NoWorker
    <3>1. ASSUME NEW s \in Relays, NEW k \in Keys, flight'[s][k] # NoWorker
          PROVE  wpc'[s][flight'[s][k]] \in LeaderPCs /\ wkey'[s][flight'[s][k]] = k
      <4>1. PICK v \in Workers : v = flight[s][k]
        BY <1>t, <2>2, <3>1
      <4>2. wpc[s][v] \in LeaderPCs /\ wkey[s][v] = k /\ flight'[s][k] = v
        BY <2>2, <3>1, <4>1 DEF FlightsLed
      <4> QED
        BY <2>1, <2>2, <4>2 DEF LeaderPCs
    <3>2. ASSUME NEW s \in Relays, NEW v \in Workers, wpc'[s][v] = "wait"
          PROVE  flight'[s][wkey'[s][v]] # NoWorker
      BY <2>1, <2>2, <3>2 DEF FlightsLed
    <3> QED
      BY <3>1, <3>2 DEF FlightsLed
  <2>3. ASSUME wkey'[r][w] = wkey[r][w], NEW e \in Entries \cup {NoEntry}, Finish(r, w, e)
        PROVE  FlightsLed'
    <3>1. flight' = [flight EXCEPT ![r][wkey[r][w]] = NoWorker]
      BY <2>3 DEF Finish
    <3>2. \A s \in Relays, k \in Keys :
             flight'[s][k] = IF s = r /\ k = wkey[r][w] THEN NoWorker ELSE flight[s][k]
      BY <1>t, <2>t, <3>1
    <3>3. /\ \A v \in Answered(r, w) : wpc'[r][v] \in {"idle", "write"}
          /\ w \in Answered(r, w)
      BY <1>t, <2>3, FinishFacts DEF Answered
    <3>4. ASSUME NEW s \in Relays, NEW k \in Keys, flight'[s][k] # NoWorker
          PROVE  wpc'[s][flight'[s][k]] \in LeaderPCs /\ wkey'[s][flight'[s][k]] = k
      <4>1. PICK v \in Workers : v = flight[s][k]
        BY <1>t, <3>2, <3>4
      <4>2. wpc[s][v] \in LeaderPCs /\ wkey[s][v] = k /\ flight'[s][k] = v
        BY <3>2, <3>4, <4>1 DEF FlightsLed
      <4>3. s # r \/ v # w
        BY <3>2, <3>4, <4>2
      <4> QED
        BY <2>1, <4>2, <4>3 DEF LeaderPCs
    <3>5. ASSUME NEW s \in Relays, NEW v \in Workers, wpc'[s][v] = "wait"
          PROVE  flight'[s][wkey'[s][v]] # NoWorker
      <4>1. s # r \/ v \notin Answered(r, w)
        BY <3>3, <3>5
      <4>2. s # r \/ v # w
        BY <3>3, <4>1
      <4>3. wpc[s][v] = "wait" /\ wkey'[s][v] = wkey[s][v] /\ wkey[s][v] \in Keys
        BY <1>t, <2>1, <3>5, <4>2
      <4>4. s # r \/ wkey[s][v] # wkey[r][w]
        BY <4>1, <4>3 DEF Answered
      <4> QED
        BY <3>2, <4>3, <4>4 DEF FlightsLed
    <3> QED
      BY <3>4, <3>5 DEF FlightsLed
  <2>4. CASE /\ wkey'[r][w] = wkey[r][w] /\ wpc[r][w] = "join" /\ wpc'[r][w] = "recheck"
             /\ flight' = [flight EXCEPT ![r][wkey[r][w]] = w]
    <3>1. \A s \in Relays, k \in Keys :
             flight'[s][k] = IF s = r /\ k = wkey[r][w] THEN w ELSE flight[s][k]
      BY <1>t, <2>t, <2>4
    <3>2. ASSUME NEW s \in Relays, NEW k \in Keys, flight'[s][k] # NoWorker
          PROVE  wpc'[s][flight'[s][k]] \in LeaderPCs /\ wkey'[s][flight'[s][k]] = k
      <4>1. CASE s = r /\ k = wkey[r][w]
        BY <2>4, <3>1, <4>1 DEF LeaderPCs
      <4>2. CASE ~(s = r /\ k = wkey[r][w])
        <5>1. PICK v \in Workers : v = flight[s][k]
          BY <1>t, <3>1, <3>2, <4>2
        <5>2. wpc[s][v] \in LeaderPCs /\ wkey[s][v] = k /\ flight'[s][k] = v
          BY <3>1, <3>2, <4>2, <5>1 DEF FlightsLed
        <5>3. s # r \/ v # w
          BY <2>4, <5>2 DEF LeaderPCs
        <5> QED
          BY <2>1, <5>2, <5>3 DEF LeaderPCs
      <4> QED
        BY <4>1, <4>2
    <3>3. ASSUME NEW s \in Relays, NEW v \in Workers, wpc'[s][v] = "wait"
          PROVE  flight'[s][wkey'[s][v]] # NoWorker
      <4>1. s # r \/ v # w
        BY <2>4, <3>3
      <4>2. wpc[s][v] = "wait" /\ wkey'[s][v] = wkey[s][v] /\ wkey[s][v] \in Keys
        BY <1>t, <2>1, <3>3, <4>1
      <4> QED
        BY <3>1, <4>2, WorkerIds DEF FlightsLed
    <3> QED
      BY <3>2, <3>3 DEF FlightsLed
  <2> QED
    BY <1>1, <1>t, <2>2, <2>3, <2>4, LeadStep
<1> QED
    BY <1>1, <1>t, PoolStart DEF Next

\* Every worker that waits for a singleflight call.
NobodyWaitsAlone ==
    \A r \in Relays, w \in Workers : wpc[r][w] = "wait" =>
        \E v \in Workers : wpc[r][v] \in LeaderPCs /\ wkey[r][v] = wkey[r][w]

\* A worker that waits in singleflight waits for one that is inside the function, for
\* the same key: no result is handed out before the last waiter has joined, and no
\* call is forgotten while somebody waits for it.  What EveryWaiterAnswered adds is
\* that the leader gets on (udp.go:687).
THEOREM WaitersHaveLeaders == Spec => []NobodyWaitsAlone
<1>1. Init => FlowInv /\ FlightsLed
    BY FlowInit, WorkerIds DEF Init, FlightsLed
<1>2. FlowInv /\ FlightsLed /\ [Next]_vars => FlowInv' /\ FlightsLed'
    BY FlowStep, FlightsLedStep
<1>3. FlowInv /\ FlightsLed => NobodyWaitsAlone
  <2> SUFFICES ASSUME FlowInv, FlightsLed, NEW r \in Relays, NEW w \in Workers, wpc[r][w] = "wait"
               PROVE  \E v \in Workers : wpc[r][v] \in LeaderPCs /\ wkey[r][v] = wkey[r][w]
    BY DEF NobodyWaitsAlone
  <2>1. wkey[r][w] \in Keys /\ flight[r][wkey[r][w]] \in Workers
    BY DEF FlightsLed, FlowInv, TypeOK, WorkerTypeOK
  <2> QED
    BY <2>1, WorkerIds DEF FlightsLed
<1> QED
    BY <1>1, <1>2, <1>3, PTL DEF Spec
=============================================================================
