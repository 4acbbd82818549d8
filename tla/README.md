# Spaceship: TLA+ models, checks and proofs

Spaceship is a proxy: a client process accepts SOCKS5, HTTP and DNS requests, a
router chooses an egress for each destination, and a transport carries the
traffic, directly, through another proxy, or through a gRPC tunnel to a server
process that dials the target. This directory models the parts of it where
goroutines, timeouts and failures meet, checks them with TLC on small instances
and proves the most important results with TLAPS for every size of the constants.

## The system's parts

| Part | State it keeps | Operations | What makes it correct |
|---|---|---|---|
| SOCKS5 UDP relay (`internal/socks/udp.go`, `handleAssociate`) | per association: NAT table, job queue, `done`, socket; process-wide: two limiters | associate, read, handle packet, get or create flow, evict, reverse relay, idle expiry, close | no socket or token leaks, no datagram in the wrong flow, caps hold, teardown ends |
| Router (`internal/router`) | route list and version under `routesMu`, CLOCK cache under its own mutex | lookup, SetRoutes, AddToFirst/LastRoute, GenerateCache | the cache is invisible, no update is lost, the cache stays bounded |
| gRPC connection pool (`rpc/client/queue.go`, `wrapper.go`) | connections, load per connection, shutdown flag | init, pick least loaded, replace, destroy | load equals sessions, no connection leaks |
| Tunnel session (`rpc/client/forwarder.go`, `rpc/server/forwarder.go`) | one stream, two copy directions on each side, ack | handshake, copy, cancel, close | order and completeness of the payload, the session ends, nothing writes after it ends |
| Tunnel packet connection (`rpc/client/packet_conn.go`) | one stream, receive channel, two deadlines | read, write, deadline, close | a blocked call wakes on deadline or close, Send and CloseSend never overlap |
| Direct, forward, blackhole transports, `copy.go` | one session's two copies | proxy, half close, cancel | a half-closed session is not cut, everything is closed once |
| SOCKS5 / HTTP front ends (`socks/socks.go`, `auth.go`, `request.go`, `http/http.go`) | one request and its errgroup | negotiate, authenticate, route, reply, hand over | no dial without credentials, one answer per request, the response is whole, the session ends |
| Configuration (`pkg/config`) | process-wide settings | apply, one after the other | a rejected configuration leaves settings that fit each other |
| Launcher (`api/launcher.go`) | the errgroup of the services, the published pool | launch, fail, stop | the pool outlives the services, everything ends and is closed |
| DNS front end, statistics, generated protobuf code, terminal indicator, management pages | none of interest | | not modelled, see below |

The front ends call `router.GetRoute` and run the transport it returns. The proxy
transport takes a connection from the pool and opens a stream; the UDP relay uses
a packet connection of its egress (a direct socket or a tunnel stream) for each
flow. Goroutines of one request share an `errgroup` context; packages share
process-wide settings, which the launcher applies before it makes the pool and
starts the services.

Hard behaviours: workers, reverse relays and `Close` of one association
interleave freely; a flow is created by one of several waiting workers; deadlines
race traffic; a lookup and a table update overlap; both ends of a tunnel may fail
at any step; a deadline is moved while a call is blocked on it; a pool is destroyed
under sessions that hold a connection of it. PROJECT.json lists each such hazard at
its line, with the properties that cover it or the reason why none does.

## Modules

| Module | Models | Role |
|---|---|---|
| `UDPLimiter` | `udpResourceLimiter` | the limiter as a value |
| `UDPRelay` | `UDPRelay`, `natTable`, `natEntry`, `getOrCreateNAT`, `reverseRelay`, `handleAssociate` | the component |
| `MCUDPRelay` | | TLC instances, symmetry, view |
| `UDPRelayProofs` | | flow invariant, type correctness, no cross talk |
| `UDPRelayResources` | | shutdown strands nothing, the flow table, token accounting and caps, who waits for whom |
| `RouteTable` | what the router promises | abstract specification |
| `Router` | `cache.go`, `routes.go`, `table.go`, `Route.GenerateCache` | the component |
| `MCRouter` | | TLC instances |
| `RouterProofs` | | invariant, coherence, refinement of `RouteTable`, the CLOCK list, its eviction loop |
| `RPCStream` | the gRPC stream as the forwarders use it (external) | shared by both sides |
| `TunnelServer` | `Server.Proxy`, `rpc/server/forwarder.go`, the auth interceptor, the target | one side of a session |
| `TunnelClient` | the CONNECT handlers of HTTP and SOCKS, `Client.Proxy`, `rpc/client/forwarder.go`, the local client | the other side |
| `Session` | what a tunnelled session promises its two ends | abstract specification |
| `Tunnel` | | composes both sides over the stream, states the properties |
| `MCTunnel` | | TLC instances, view |
| `ChunkProofs` | | lemmas about counting and numbering the chunks of a stream |
| `TunnelProofs` | | types, order of the goroutines, truth of the success answer, delivery of the data, refinement of `Session` |
| `PipeDeadline` | `pipeDeadline` | timers, callbacks and channels of both deadlines |
| `PacketPipe` | what a packet connection promises its reader | abstract specification |
| `PacketConn` | `StreamPacketConn`, `Client.DialPacket`, `sendHandshake` | the component, over `RPCStream` and `PipeDeadline` |
| `MCPacketConn` | | TLC instances |
| `PacketConnProofs` | | exclusive sends, deadlines, types, refinement of `PacketPipe` |
| `Config` | `MixedConfig.Apply` | the settings and who gave them |
| `ConnQueue` | `ConnQueue`, `ConnWrapper`, `Init`, `Destroy`, `New`, `Client.Close` | the pool and its sessions |
| `Launcher` | `Launch`, `launchClient`, `launchServer`, `listenSignal`, `ListenAndServe` of each service | composes `Config` and `ConnQueue` |
| `MCLauncher` | | TLC instance |
| `LauncherProofs` | | the pool's and the launch's invariants, types |
| `LocalProxy` | `Proxy` of direct, forward and blackhole, `CopyWithContext` | one session's transport |
| `FrontEnd` | `ServeConn`, authentication, `handleConnect`, `handleRequest` of both front ends | composes a front end with `LocalProxy` |
| `MCFrontEnd` | | TLC instance |
| `FrontEndProofs` | | credentials, one answer, whole responses, types |

### UDPRelay

A relay is one association. `handler` is where `handleAssociate` is, `run` where
`Run` is, `closer` how far the one execution of `Close` that `sync.Once` admits
has come (`done` closed, socket closed, table drained, entries closed, token
returned), `wpc` where each worker is in `handlePacket` and `getOrCreateNAT`, and
`rev` where the reverse relay of a flow is. Each action is what the code does
between two points at which another goroutine can see or change shared state: one
critical section of the table's mutex, one operation on a channel, one limiter
call, one socket operation.

- A refused ASSOCIATE (UDP disabled, no UDP route, association limit) leaves no
  state and is not a step. A refused flow ends the singleflight call with an error.
- A flow is a member of `Entries` from the moment its token is acquired; ids that
  nothing refers to are reused. Ids of relays are reused once the old relay's
  last reverse relay has ended.
- `singleflight` is external: the first caller of a key leads, later callers wait,
  and the leader's return answers all of them and forgets the key in one step.
- A write may fail at any time, which also covers the moment inside
  `natEntry.Close` at which the socket is closed and the token is not yet returned.
- `Install` reads the `lastSeen` of all entries under the table's mutex while
  workers may still touch them; the model picks a least recently seen entry of the
  moment. Its branch for a key that is already installed cannot be reached
  (`InstallHasNoRival`); the model keeps it, as one step.
- Time is relative: `age` is the time since `lastSeen`, `left` the time until the
  read deadline. A datagram from the target that is dropped moves the deadline
  and not `lastSeen`, as in the code.
- Not modelled: the SOCKS UDP header codec (a datagram is a flow key, or rejected),
  and `SetUDPSettings` while associations live.

### Router

A lookup holds `routesMu` for reading from its miss (`Miss`) over the walk of the
table (`Match`) to the moment its answer is cached (`Store`); other lookups run
in between, updates do not. An update compiles its routes one by one before it
takes the lock (`Build`, `BuildFails`) and commits in one step; `GenerateCache`
compares the version it started from and starts over when it changed. A rule is
the set of keys its sources match, whether it reads an ext file (whose content is
chosen afresh each time it is read), its egress, and whether it compiles. A lookup
is for a destination, `Normal` maps it to its cache key.

The CLOCK cache is kept as the code keeps it, a list and a map. The eviction loop
is one step of the model, in a closed form (where the scan stops, which entries move
and lose their bit). `Turns` is the loop itself, turn by turn, as a recursive
function; `ScanIsLoop` says that the loop ends and leaves the same list and map.

`RouteTable` has no cache, no versions and no locks: a lookup answers with the
first match of the table in one step, an update replaces, extends or recompiles
the table in one step. `Router` extends it and shares `routes` and `answer`.

### Tunnel

One CONNECT session end to end. Each variable that names a place (`proxy`,
`crecv`, `cdown`, `cread`, `cup`, `cack`, `reply`, `fend`; `handler`, `sup`,
`srecv`, `sdown`, `watch`) is one goroutine: the front end's two, the forwarder's
three errgroup members with the goroutines two of them start, and the same on
the server. Contexts are derived, as in Go: `ClientDone` and `ServerDone` are true
once a member of the errgroup has failed or a parent is cancelled. An action is
what one goroutine does up to its next Send, Recv, Read, Write, select or channel
operation; a function's return value and its record in the errgroup are two
steps on the server, where the deferred `close(f.Ack)` lies between them.

- Data is a sequence of numbered chunks. Errors are the classes the code tells
  apart: `io.EOF`, `context.Canceled`, a gRPC status Canceled, anything else.
- `RPCStream` is external: reliable and ordered with a window; a cancellation or
  a broken transport loses any suffix of what was not received. Its errors are
  those the forwarders see: a Send on an ended stream gives EOF, Recv gives the
  reason.
- The ack timeout and the handshake deadline may pass at any moment.
- The server's dial returns at some time, with or without a connection.
- On the local client's EOF the client side cancels the stream, so the end of an
  upload may be lost; the empty payload that `copyClientToTarget` reads as the end
  of the stream is never sent by this client. A payload may reach the local
  client before the success answer: two goroutines write to it. The properties
  promise neither.
- `Session` has the target's connection, the chunks each end has sent and been given,
  the answers, and whether the client's connection was closed; no goroutine, stream or
  context. The refinement maps its variables to those of the same names, and `over` to
  the handler's return.
- A session is a TCP session; what a UDP session changes on the server, empty
  payloads that count as datagrams, is not modelled. HTTP requests other than
  CONNECT are in `FrontEnd`, the choice of a connection of the pool in `ConnQueue`.

### PacketConn

A packet connection of the tunnel and all the goroutines that use it: `DialPacket`
and the goroutine that sends its header, `readLoop`, any number of readers, writers
(each with the goroutine of its Send), closers and goroutines that set deadlines.
`readMu` and `writeMu` are held by the one reader and the one writer that are not
idle; `Close` holds `writeMu` over its CloseSend only.

- A deadline is a channel, known by the number of its creation. `set` may find that
  its timer has fired and its callback has not run; it then waits for the callback
  with the mutex held (`SetBlocks`), and the callback runs without it. `due` is a
  ghost: whether the deadline last set has passed.
- `TimerFires` and `Callback` are two steps, since the runtime starts a callback in
  a goroutine of its own.
- The server at the other end accepts, sends datagrams, ends or breaks at any time.
- `PacketPipe` is a queue: datagrams arrive, are delivered in order, and may be lost,
  the last ones first, only once the connection has been shut. The refinement maps
  the stream, what `readLoop` holds and the channel, in this order, to the queue.

### Config, ConnQueue and Launcher

A process that is launched several times, with different configurations and in
either role. A setting is known by the launch whose configuration gave it its
value, which is what `ModesConsistent` has to tell apart; each stage of `Apply` is
a step, and a configuration may be rejected at each stage that can reject one.

A pool belongs to a launch. A session asks for the published pool, scans its
connections one by one under the read lock (`PickLeastLoaded`, one turn a step,
while the loads change), uses one, and gives it back; with a pool of size 0 it
dials and closes a connection of its own. A pooled connection is shut down by
nothing but its own Close, so `replaceConn` starts only when the pool was destroyed
between the scan and `Use`, and then always closes what it dialled: `Apart` in
`LauncherProofs` states it for every size. The loads count modulo `LoadMod`,
2^32 in the code.

`ListenAndServe` of a service is `svc`, its serving goroutine `gor`. A launch ends
when all of `svc` and the signal listener have ended; sessions are not waited for.

### LocalProxy and FrontEnd

One connection of a local client, from its first byte to the handler's return. The
handler starts an errgroup: `px` is the goroutine of `Proxy`, `hk` the one that waits
for the address and answers, `wr` the one that writes a plain HTTP request into a
pipe. Inside `Proxy`, each direction is a `copier` (io.CopyBuffer) and a `waiter`
(`CopyWithContext` and the closure around it). Data counts in units of one Read.

- What is parsed (methods, addresses, headers, credentials) is abstracted to the
  outcomes: refused without an answer, refused with one, or accepted.
- `kind` "direct" is forward too: its `Proxy` is direct's with another dialer, and that
  dialer, the SOCKS5 client of `proxy.FromURL`, returns the TCP connection to the
  upstream proxy. Both are closed by halves (`tst` "half"): nothing more is written,
  what the target sends still arrives. The `Close` that `CloseWriteOrClose` falls back
  to is for other dialers and is not reached.
- Blackhole takes no notice of the target and does not wait for its reader.
- `cstall` is a client whose window is full; a write to it blocks until the
  connection is closed or its deadline passes.

## Runs

| Run | Instance | Shows |
|---|---|---|
| `udp_races` | 1 relay, 2 workers, 2 keys, 3 entries, table of 1, no clock | eviction, creation and shutdown in every order |
| `udp_limits` | 2 relays, 2 clients, 1 worker each, per-client cap below the global one | token accounting and caps across associations |
| `udp_liveness` | 1 relay, 2 workers, 1 key, 1 entry, idle timeout of 2 ticks | teardown, singleflight, reverse relays, expiry |
| `udp_socket_cap` | as `udp_races` | expected violation, see Findings |
| `router` | 2 readers, 2 writers, 3 destinations, cache of 2, 2 updates, rules of every kind | coherence, refinement of `RouteTable`, the CLOCK list, its scan and second chance |
| `tunnel_sessions` | 1 session, window of 2; HTTP: 1 chunk each way and one fault of any kind; SOCKS: no fault, 2 chunks one way and 1 the other | every order of dial, answer, cancellation and close; completeness of the data at the end; refinement of `Session` |
| `tunnel_liveness` | no chunks, window of 1, either side is stopped | every CONNECT is answered, both handlers return |
| `tunnel_503` | as `tunnel_sessions`, HTTP, 1 chunk each way | expected violation, see Findings |
| `packet_races` | 1 reader, 2 writers, 1 closer, 1 setter, window of 1, 3 events of the environment | sends exclude each other, deadlines reach blocked calls and do not lie, refinement of `PacketPipe` |
| `packet_liveness` | 1 of each, 1 write, 1 deadline, a peer that stays | a blocked call ends with its deadline and with Close |
| `launcher` | 2 launches, SOCKS and DNS or the server, pool of 0 or 2, 2 sessions | loads, ownership of connections, order of pool and services, settings after a rejection, every launch ends |
| `front_end` | both front ends, all local transports, 1 unit up, 2 down, 3 events of the environment (4 for a plain request) | credentials, one answer, whole responses, the session ends |

Bounds. Two workers are enough for a leader and a waiter, or for a creation that
evicts what another worker writes to; a table of one makes every second flow an
eviction; three entries are the installed flow plus one per worker. Without the
clock (`Timeless`) the races are between goroutines; expiry is still possible,
because a read may fail at any time. `udp_liveness` has the clock, and a timeout
of two ticks lets a flow be touched between two deadlines. In `udp_limits` a
datagram queue shared by the relays (`OneQueued`) only limits how many datagrams
wait. In `router` two updates (`MaxVersion`) suffice for one to overtake
another's compilation; tables have at most two routes (`MaxRoutes`). A cache of
two with three destinations evicts from lists in which every mixture of bits
occurs; a full cache and the second update are not looked at together (`Bounded`).
A session is alone in the tunnel model: sessions share
nothing but the connection below their streams, whose failure is a fault of
each. A fault (`Faults`, `MaxFaults`) is the local client going away, the target
resetting, either side being stopped or the transport breaking; cancellation,
timeouts, refusals and both EOFs are always possible and are no faults. One fault
at any of its moments, against a session that may end by itself at the same
time, gives every pair of causes of an end. One chunk each way is enough for a
Send or a Write to be under way; order needs two in one direction, and a window of two lets both
be queued behind the server's answer or its end (`FaultsOrData` gives each front
end one of these questions; the forwarders do not know it). With a window of one, in
`tunnel_liveness`, the answer and the end of the session wait for each other.
Sessions may stop for good once both handlers returned, hence no deadlock check;
the same holds of a closed packet connection, a process after its last launch and
a front end's connection.

In `packet_races` `Effort` bounds deadlines set, datagrams sent and written and an
end by the peer together: three suffice for a deadline that is moved under a blocked
call, and for a write that runs out of time while another waits and the peer sends.
In `packet_liveness` the peer stays and the transport holds (`QuietPeer`), since
either would end the calls anyway, and MaxDatagrams is 0, so that nothing but the deadline
or Close can. In `launcher` two sessions are the least with which a scan sees loads
that change, and four names of connections are enough for two pools' worth of two
or for one pool, its replacements and a session's own; in the second launch at most
one session is left (`OneIntoTheSecond`). A configuration leaves out the three
settings of `SomeOmitted` (one that can be rejected, one that cannot and comes before
the last that can, one that comes after it), and may be rejected at the routes, the
last stage that can reject. In `front_end` `Effort` bounds what client,
target and server do to a session, with one event more for a plain request, which has
a body to send first; what comes after the dial is looked at without credentials
(`Bounded`), as the code there is shared. Two conjuncts are out of reach of the runs
that check them and rest on their theorems: the global cap of `NATWithinLimits`, and
the number of sockets that `FlowsWithinLimit` bounds. State constraints cut off what goes past them, also under
liveness: the properties hold of the behaviours that stay within the bounds. In the
runs with liveness they cut steps of the environment only, with one exception: in
`front_end` a client of a server with credentials is followed to its dial.
The symmetry sets contain only values the specifications never tell apart, and
the views drop only what no later step reads.

Fairness (`FairSpec` of `UDPRelay`). Weak fairness for the steps of each
goroutine, because the Go scheduler runs every goroutine that can run; for the
return of a read whose socket is closed; for the clock and for an expired deadline.
No fairness is assumed for clients, targets or the network: nobody has to send, and
a read of an open socket may block until its deadline. A worker's dial and write
return, as sockets with a dial timeout and UDP writes do.

Fairness (`FairSpec` of `Tunnel`). Weak fairness for the steps of each goroutine,
for the cancellation of a stream whose context is done, and for the forced stop
that follows a graceful one after `GeneralTimeout`. That includes the dial of the
target, which has a timeout, and the write to the local client, which is assumed
to read; the code sets no deadline there. Nobody has to send or to close
anything: `SessionEnds` starts from an end point that closed or a side that was
stopped.

Fairness (`FairPSpec`, `FairLSpec`, `FairFSpec`). Weak fairness for each goroutine,
for gRPC's end of a cancelled stream and for timers. Strong fairness only where a
mutex is waited for: `Close` for `writeMu`, `Destroy` and `replaceConn` for the pool's
write lock; `sync.Mutex` hands over to a waiter that starves and a waiting writer of
a `sync.RWMutex` stops new readers. `FairLSpec` also assumes that a session that has a
connection gives it back: its RPCs fail once the pool is closed. `FairFSpec` assumes
that the target takes what it is sent. Nobody makes a client speak, send or read,
nobody makes a target answer, nobody has to call or to stop anything: every property
starts from a deadline, a Close, a failure, a stop or an end that has happened.
`SessionOver` leaves out what the code does not promise: see Observations.

## Proofs

All results hold for every finite number of relays, workers and entries and any
sets of clients, keys, rules, readers and writers, from the assumptions the
modules name (`EntryIds`, `WorkerIds`, `Datagrams`, `Limits`, `RuleShape`,
`SizeAssumption`, `NoDstAssumption`, `WindowAssumption`); those about the tunnel
for any window, any number of chunks and any number of faults; those about the
packet connection for any number of calls, datagrams and deadlines
(`SetsAssumption`, `PacketAssumption`); those about the launcher for any number of
launches, services, sizes of pool and configurations (`ConfigAssumption`,
`LauncherAssumption`), and for finitely many connections and sessions, fewer than
the load counter can count (`QueueAssumption`); those about the front ends for any
amount of data (`ProxyAssumption`, `FrontAssumption`).

- `UDPRelayProofs`: `FlowInv` is `TypeOK` strengthened by who refers to an entry
  (`WorkerFlow`), what the table may hold (`TableMatches`), in which states an
  entry and its reverse relay can be together (`Lifecycle`) and that an entry
  being dialled is known to its worker only (`DialingIsPrivate`). Without these a
  step could close or reuse an entry of somebody else. It gives `TypeOK` and
  `NoCrossTalk`.
- `UDPRelayResources`, teardown: `ShutInv` says which open socket is covered by whom:
  the table, `Drain`'s list, its reverse relay, or a worker inside `getOrCreateNAT`. It
  gives `NoStrandedSocket` and `NothingOutlivesHandler`.
- `UDPRelayResources`, the flow table: `TableInv` adds that a key has one leader
  (`OneLeader`), that the leader's slot stays free from its second lookup on
  (`SlotStaysFree`), that the entry it is to install is in no table and has no reverse
  relay (`InstallIsPrivate`, `NotYetRelayed`), and that what `Drain`, an eviction or a
  late install took out of the table does not come back (`Withdrawn`). Neither
  `InstallHasNoRival` nor `ClosedFlowIsLeaving` is inductive alone: the first needs the
  leader, the second that nobody but the reverse relay closes an entry that is still
  installed.
- `UDPRelayResources`, the limits: with `FlowInv`, the limiters' counts equal the
  cardinality of the sets of held entries and open associations, by one lemma each for
  a token acquired, returned or kept. The caps follow. For the sockets of one
  association (`FlowsWithinLimit`), `LimitInv` bounds the table and `Drain`'s list. An
  open socket in neither is charged to a worker: the one that has dialled it or is
  closing the victim. After the table was drained a worker can hold both; then the
  victim came from a table filled by late installs, and `LateSocketsCharged` splits the
  workers into those that pay for what they install and those that pay for what they
  evict.
- `UDPRelayResources`, who waits for whom: `FlightsLed` says that a call in flight is led
  by a worker inside the singleflight function, for the key it is filed under, and that
  who waits, waits for a call in flight. `NobodyWaitsAlone` follows.
- `RouterProofs`: `RInv` says that the cache is coherent, that a lookup on its way
  to the cache carries the installed table's answer, that what is compiled was
  compiled from the update's rules, and that a `GenerateCache` whose version is
  current compiles the installed rules. It gives coherence and the step
  simulation of `RouteTable`. That `Select` returns an egress rests on the least
  element principle of the naturals. `ListMatchesMap` is inductive as it stands; its
  proof is about sequences: moving an element to the front, dropping the last one and
  adding one keep the keys distinct and their set what the map holds. `SecondChance`
  follows from where the scan stops. `ScanIsLoop` is about a recursive function, which
  the prover can unfold only turn by turn: `Turned` gives the list and the map after n
  turns directly, and a least n at which it differs from the recursion does not exist.
  That an entry with a clear bit is met within one round rests on `ListMatchesMap`.
- `TunnelProofs`: `ServerOrder` says that the server's goroutines are behind each
  other (the download starts with the ack, the ack comes after the dial, the
  handler goes on when both are over, nothing is dialled after the deferred
  close); `SingleSender` and `TargetReleased` follow. `ClientOrder` says the same of
  the client's receive goroutine, the download and `Client.Proxy`, and gives
  `NoWriteAfterReturn`. `ToldTheTruth` follows the news of the dial from the ack
  over the stream, the channel and the ack goroutine to the local client; without
  the stages in between `SuccessMeansDialled` is not inductive. `DownInv` and `UpInv`
  follow the data. A direction is a chain: the queue at its source, the chunk its
  reader holds, the stream, the chunk its writer holds, what has arrived. The chunks
  of each link are numbered on from the next one, by `Chunks`, the number of chunks
  among the first messages; what was sent is what arrived and what is under way as
  long as the stream loses nothing, and a message that tells the end comes after the
  last chunk (`EndsAfter`). That the header goes first (`HeaderFirst`) and that an end
  without an error is the target's own (`TargetsOwnEnd`) complete them. They give
  `EndMeansComplete`.
- `TunnelProofs`, the refinement of `Session`: `OnlyMoves` says which steps touch what
  the two ends have or what is under way to them; all others stutter. A write to an end
  needs that the chunk is the next one (`DownInv`, `UpInv`) and that it was sent. The
  chains say the second only while the stream loses nothing, so `WayInv` says it of
  every chunk under way by itself. `EndsInv` says that nothing but data is written
  before the answer and that the target is dialled by the upload's dial only. The
  success answer needs `ToldTheTruth`; that it comes after the dial is therefore
  part of `ImplementsSession`, and `SuccessMeansDialled` is proved but is no property of
  a run of its own.
- `PacketConnProofs`: `TimerInv` says of each deadline that a callback is under way
  only between the end of its timer and the closing of the channel, so at most one
  is, and that no channel above the current one is closed. `Locks` says who holds
  the two mutexes. `CallInv` adds `BlockedSeesDeadline`, which needs both: a channel
  is replaced only once it is closed, and only the holder of the lock is blocked.
  The refinement of `PacketPipe` rests on `PipeInv`: the channel, what `readLoop` holds
  and the stream are one sequence (`Coming`) whose datagrams are numbered on from the
  last one a reader was given. Every step leaves the sequence as it is, appends to it,
  takes its head, or cuts its end off when the connection is shut; one lemma for each
  shows that this is a step of the pipe.
- `LauncherProofs`: `QueueInv` says that a session's connection belongs to the pool it
  asked unless that was destroyed, that connections of sessions and replacers are in
  no pool (`Apart`), and that every open one has an owner. `LaunchInv` says which of
  the pools may be open and published at each point of `Launch`, and that services
  run only between. `LoadIsUsers` is proved on top: a session adds itself to and
  removes itself from the users of one connection, and there are fewer sessions than
  the counter has values. `ModesFollowRoutes` follows the stages of `Apply`.
  `IdleHoldsNothing` says what is left when a launch has ended: no service, and no
  connection but those of sessions and replacements that are still to end.
- `FrontEndProofs`: `AuthInv` follows the credentials through the negotiation.
  `AnswerInv` says what the group's goroutines know of each other: the answer is
  pending only until the address comes or the dial has failed (`Waiting`), the copies
  end with the client's connection closed (`Copies`), and an error of the group means
  that the connection takes nothing more, or that there was no dial and no answer
  yet (`Answers`). `OneAnswer` alone is not inductive. `WholeInv` counts the response:
  while the download has no error, what the target sent is what the client has, what is
  in the copier's hand and what is still in the connection (`Counted`, `Ended`), and
  without a disturbance nothing is cancelled, closed or expired before the download
  has ended (`Quiet`). It gives `ResponseWhole`.
- `ChunkProofs` has what `TunnelProofs` and `PacketConnProofs` need of the stream: what sending, receiving and
  losing messages does to `Chunks` and to numbers without a gap. `Chunks` is a
  cardinality and not a recursion, so its lemmas are proved from those about finite
  sets; that every rank occurs, from the least element principle.

Type correctness is proved for the relay, the router, the tunnel, the packet
connection, the launcher and the front ends, and is not a property of a run.

Only model-checked: liveness (out of reach of the prover, as is ENABLED). Every other
property of a passing run is proved. Of two liveness properties the safety they rest
on is proved as well: `NobodyWaitsAlone` for `EveryWaiterAnswered`, `IdleHoldsNothing` for
`LaunchEnds`.

## Findings

- `udp_socket_cap`: `udp.go:77` says "MaxNATEntries bounds outbound sockets per
  association"; `getOrCreateNAT` dials the new socket before `Install` chooses a
  victim, so the sockets exceed the bound by up to one per worker
  (`FlowsWithinLimit` is what holds).
- `tunnel_503`: `http/utils.go:18` says that the 503 is written "when the client
  still expects HTTP framing"; `handleConnect` writes it whenever the session
  fails, also into a tunnel whose 200 was already sent. The shortest way there is
  a front end that is stopped: the receiver's gRPC status Canceled is not
  `context.Canceled`, so the error counts as a failure.

## Observations

What the models show and no property contradicts, because neither the code nor the
documents promise anything else:

- A client may be given data of the target before the success answer: two goroutines
  write to it (`Reply` and `DownWrite`, `request.go:174`).
- A plain HTTP request whose dial fails ends without its 503: `handleRequest` lets the
  client's deadline pass when `Proxy` returns (`http.go:199`) and writes the error
  afterwards.
- The negotiation of a SOCKS client has no deadline and does not end with the server:
  only the client's end ends it. A client that has ended its upload, or has sent a
  plain request, and disappears is not noticed until the target speaks or ends.
- A configuration that leaves out idle timeout, buffer size, path or forward proxy
  keeps what an earlier launch of the process set, and a rejected configuration keeps
  the settings made before the one that was rejected. Routes, dial mode and idle
  timeout are the ones that never come from a rejected configuration.
- The Shutdown of a DNS server whose goroutine has not started yet has no effect; the
  goroutine then listens although its launch has ended (`dns.go`, `ListenLater`).
- An Accept that fails ends the SOCKS service without closing its listener
  (`socks.go:63`, `ServeFails`); within one process a later launch cannot bind again.

## Not modelled

- Plain HTTP requests over the tunnel. The tunnel tells the end of an upload only by the
  end of the session, so it is there that a request's end passed on at once would cut
  its response (`http.go:220`); over the local transports the wait makes no difference.
- DNS front end: one query, one answer, nothing kept between queries. Its start and
  stop are in `Launcher`. `DnsResolve` of the tunnel is one RPC without state, and the
  conversion of DNS records is a function of their text.
- Traffic statistics, management server, terminal indicator: they read counters and
  the pool's status, and nothing depends on what they show.
- Generated protobuf code; the reading of a configuration from a file or stdin and
  the command line; small helpers (`once_closer` is modelled where it is used).
- The bytes of SOCKS, HTTP and UDP headers, and what a source string of a route
  matches: functions of strings, abstracted to their outcomes.
- UDP targets on the tunnel's server, and `SetUDPSettings` while associations live: an
  association keeps the limiters it began with, and the relay model has one pair.

## Plan

Done: the UDP relay, the router, the tunnel, the packet connection, configuration,
pool and launcher, the front ends over the local transports, with proofs of all their
safety properties. What is left, in this order:

1. `FrontEnd` over the local transports shown to implement an abstract session, as
   `Tunnel` is; its plain requests need one whose response may be cut short.
2. Pure functions against references: domain suffix and CIDR matching, host
   normalisation, the SOCKS UDP header, the DNS record conversion, rate sampling.
3. UDP targets on the tunnel's server, and relaunches with live associations.
