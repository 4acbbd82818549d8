------------------------------- MODULE Router -------------------------------
(* internal/router: the route table behind routesMu, the CLOCK cache of looked up
   destinations behind its own mutex, lookups, and the operations that change the
   table.  A lookup holds routesMu for reading from its first step to its last;
   an update compiles its routes before it takes routesMu for writing.          *)
EXTENDS RouteTable

CONSTANTS Writers, MaxSize,     \* maxCacheSize
          NoDst

ASSUME SizeAssumption == MaxSize \in Nat \ {0}
ASSUME NoDstAssumption == NoDst \notin Dsts

VARIABLES
    version,    \* routesVersion
    order,      \* lruList: the cached keys, front first
    cache,      \* cache: key -> its egress and its referenced bit
    asked,      \* reader -> the destination it looks up, or NoDst
    found,      \* reader -> the egress it is about to cache, or NotFound
    op,         \* writer -> the update under way, or "none"
    draft,      \* writer -> the rules it is compiling
    built,      \* writer -> the routes it has compiled from them
    snap        \* writer -> the version GenerateCache started from

tableVars  == <<routes, version>>
cacheVars  == <<order, cache>>
readerVars == <<asked, found, answer>>
writerVars == <<op, draft, built, snap>>
vars == <<tableVars, cacheVars, readerVars, writerVars>>

\* Mutant of ReadLocked: lookups do not hold routesMu.
NeverLocked == FALSE

\* Some reader holds routesMu: a lookup holds it from its miss to its answer.
ReadLocked == \E p \in Readers : asked[p] # NoDst
----------------------------------------------------------------------------
(* The CLOCK cache.                                                           *)
\* Where the scan from the back stops: at the last entry not referenced or, when
\* all are, at the back again after one round.
Victim(o, c) ==
    IF \A i \in DOMAIN o : c[o[i]].ref
    THEN Len(o)
    ELSE CHOOSE i \in DOMAIN o : ~c[o[i]].ref /\ \A j \in (i + 1)..Len(o) : c[o[j]].ref

\* The entries the scan passed are at the front, their bits cleared; the one it
\* stopped at is gone from the list and from the map.
ScannedOrder(o, v) == SubSeq(o, v + 1, Len(o)) \o SubSeq(o, 1, v - 1)

Passed(o, c, v) ==
    {o[i] : i \in IF \A j \in DOMAIN o : c[o[j]].ref THEN DOMAIN o ELSE (v + 1)..Len(o)}

ScannedCache(o, c, v) ==
    [k \in DOMAIN c \ {o[v]} |->
        IF k \in Passed(o, c, v) THEN [c[k] EXCEPT !.ref = FALSE] ELSE c[k]]

\* Mutant of Scanned: the entries the scan passes keep their bits.
ScannedKeepsBits(o, c) ==
    [order |-> ScannedOrder(o, Victim(o, c)),
     cache |-> [k \in DOMAIN c \ {o[Victim(o, c)]} |-> c[k]]]

\* Mutant of Scanned: the scan evicts the back of the list, referenced or not.
EvictBack(o, c) ==
    [order |-> ScannedOrder(o, Len(o)),
     cache |-> [k \in DOMAIN c \ {o[Len(o)]} |-> c[k]]]

Scanned(o, c) == [order |-> ScannedOrder(o, Victim(o, c)),
                  cache |-> ScannedCache(o, c, Victim(o, c))]

\* Mutant of MakeRoom: the size is compared one too late.
MakeRoomLate(o, c) == IF Len(o) > MaxSize THEN Scanned(o, c) ELSE [order |-> o, cache |-> c]

MakeRoom(o, c) == IF Len(o) >= MaxSize THEN Scanned(o, c) ELSE [order |-> o, cache |-> c]

\* syncedRoutesTable.Set
CacheSet(k, egress) ==
    IF k \in DOMAIN cache
    THEN /\ \E i \in DOMAIN order :
              order[i] = k /\ order' = <<k>> \o SubSeq(order, 1, i - 1) \o SubSeq(order, i + 1, Len(order))
         /\ cache' = [cache EXCEPT ![k].egress = egress]
    ELSE LET room == MakeRoom(order, cache)
         IN  /\ order' = <<k>> \o room.order
             /\ cache' = [x \in DOMAIN room.cache \cup {k} |->
                            IF x = k THEN [egress |-> egress, ref |-> FALSE]
                            ELSE room.cache[x]]

\* syncedRoutesTable.Reset
CacheReset == order' = <<>> /\ cache' = [k \in {} |-> NotFound]
----------------------------------------------------------------------------
(* GetRoute.                                                                  *)
Answer(p, d, egress) ==
    /\ answer' = [answer EXCEPT ![p] = [dst |-> d, egress |-> egress]]
    /\ asked' = [asked EXCEPT ![p] = NoDst]
    /\ found' = [found EXCEPT ![p] = NotFound]

Hit(p, d) ==
    LET k == Normal[d] IN
    /\ asked[p] = NoDst
    /\ k \in DOMAIN cache
    /\ cache' = [cache EXCEPT ![k].ref = TRUE]
    /\ Answer(p, d, cache[k].egress)
    /\ UNCHANGED <<tableVars, order, writerVars>>

Miss(p, d) ==
    /\ asked[p] = NoDst
    /\ Normal[d] \notin DOMAIN cache
    /\ asked' = [asked EXCEPT ![p] = d]
    /\ UNCHANGED <<tableVars, cacheVars, found, answer, writerVars>>

\* Routes.GetRoute walks the table ...
Match(p) ==
    LET egress == Select(routes, Normal[asked[p]]) IN
    /\ asked[p] # NoDst
    /\ found[p] = NotFound
    /\ IF egress = NotFound
       THEN Answer(p, asked[p], NotFound)
       ELSE found' = [found EXCEPT ![p] = egress] /\ UNCHANGED <<asked, answer>>
    /\ UNCHANGED <<tableVars, cacheVars, writerVars>>

\* ... and caches what it found; another reader may have cached the key by now.
Store(p) ==
    /\ found[p] # NotFound
    /\ CacheSet(Normal[asked[p]], found[p])
    /\ Answer(p, asked[p], found[p])
    /\ UNCHANGED <<tableVars, writerVars>>
----------------------------------------------------------------------------
(* SetRoutes, AddToFirstRoute, AddToLastRoute and GenerateCache.              *)
Start(w, name, rules) ==
    /\ op' = [op EXCEPT ![w] = name]
    /\ draft' = [draft EXCEPT ![w] = rules]
    /\ built' = [built EXCEPT ![w] = <<>>]
    /\ UNCHANGED <<tableVars, cacheVars, readerVars>>

SetRoutes(w, table) == op[w] = "none" /\ Start(w, "set", table) /\ UNCHANGED snap

AddToFirstRoute(w, rule) == op[w] = "none" /\ Start(w, "first", <<rule>>) /\ UNCHANGED snap

AddToLastRoute(w, rule) == op[w] = "none" /\ Start(w, "last", <<rule>>) /\ UNCHANGED snap

\* GenerateCache, first or again, copies the rules of the table and its version.
GenerateCache(w) ==
    /\ op[w] \in {"none", "again"}
    /\ Start(w, "regen", [i \in DOMAIN routes |-> routes[i].rule])
    /\ snap' = [snap EXCEPT ![w] = version]

Building(w) == op[w] \in {"set", "first", "last", "regen"} /\ Len(built[w]) < Len(draft[w])
NextRule(w) == draft[w][Len(built[w]) + 1]

\* Routes.GenerateCache compiles one route after the other, reading its ext file
\* as it is at that moment.
Build(w) ==
    /\ Building(w)
    /\ ~NextRule(w).bad
    /\ \E route \in Compiled(NextRule(w)) : built' = [built EXCEPT ![w] = Append(@, route)]
    /\ UNCHANGED <<tableVars, cacheVars, readerVars, op, draft, snap>>

\* A nil route, an unknown type, a source that does not parse, an unreadable file.
BuildFails(w) ==
    /\ Building(w)
    /\ NextRule(w).bad \/ NextRule(w).ext
    /\ Start(w, "none", <<>>)
    /\ UNCHANGED snap

\* Everything is compiled and routesMu can be had for writing.
Ready(w, name) == op[w] = name /\ Len(built[w]) = Len(draft[w]) /\ ~ReadLocked

\* The update under routesMu: the new table, its version, an empty cache.
Commit(w, rs) ==
    /\ routes' = rs
    /\ version' = version + 1
    /\ CacheReset
    /\ op' = [op EXCEPT ![w] = "none"]
    /\ draft' = [draft EXCEPT ![w] = <<>>]
    /\ built' = [built EXCEPT ![w] = <<>>]
    /\ UNCHANGED <<readerVars, snap>>

CommitSet(w)   == Ready(w, "set") /\ Commit(w, built[w])
CommitFirst(w) == Ready(w, "first") /\ Commit(w, built[w] \o routes)
CommitLast(w)  == Ready(w, "last") /\ Commit(w, routes \o built[w])

\* Mutant of CommitRegen: the version is not compared.
CommitRegenBlindly(w) == Ready(w, "regen") /\ Commit(w, built[w])

CommitRegen(w) ==
    /\ Ready(w, "regen")
    /\ snap[w] = version
    /\ Commit(w, built[w])

\* The table changed meanwhile: GenerateCache starts over.
RetryRegen(w) ==
    /\ Ready(w, "regen")
    /\ snap[w] # version
    /\ Start(w, "again", <<>>)
    /\ UNCHANGED snap
----------------------------------------------------------------------------
RInit ==
    /\ Init
    /\ version = 0
    /\ order = <<>>
    /\ cache = [k \in {} |-> NotFound]
    /\ asked = [p \in Readers |-> NoDst]
    /\ found = [p \in Readers |-> NotFound]
    /\ op = [w \in Writers |-> "none"]
    /\ draft = [w \in Writers |-> <<>>]
    /\ built = [w \in Writers |-> <<>>]
    /\ snap = [w \in Writers |-> 0]

ReaderStep(p) ==
    \/ \E d \in Dsts : Hit(p, d) \/ Miss(p, d)
    \/ Match(p)
    \/ Store(p)

WriterStep(w) ==
    \/ \E table \in Tables : SetRoutes(w, table)
    \/ \E rule \in Rules : AddToFirstRoute(w, rule) \/ AddToLastRoute(w, rule)
    \/ GenerateCache(w)
    \/ Build(w) \/ BuildFails(w)
    \/ CommitSet(w) \/ CommitFirst(w) \/ CommitLast(w) \/ CommitRegen(w) \/ RetryRegen(w)

RNext ==
    \/ \E p \in Readers : ReaderStep(p)
    \/ \E w \in Writers : WriterStep(w)

RSpec == RInit /\ [][RNext]_vars
----------------------------------------------------------------------------
Routes == UNION {Compiled(rule) : rule \in Rules}

\* Every variable has its type.
RTypeOK ==
    /\ routes \in Seq(Routes)
    /\ answer \in [Readers -> [dst : Dsts, egress : STRING \cup {NotFound}] \cup {NoAnswer}]
    /\ version \in Nat
    /\ order \in Seq(Keys)
    /\ DOMAIN cache \subseteq Keys
    /\ cache = [k \in DOMAIN cache |-> cache[k]]
    /\ \A k \in DOMAIN cache : cache[k] \in [egress : STRING, ref : BOOLEAN]
    /\ asked \in [Readers -> Dsts \cup {NoDst}]
    /\ found \in [Readers -> STRING \cup {NotFound}]
    /\ op \in [Writers -> {"none", "set", "first", "last", "regen", "again"}]
    /\ draft \in [Writers -> Seq(Rules)]
    /\ built \in [Writers -> Seq(Routes)]
    /\ snap \in [Writers -> Nat]

\* What the cache answers is what the installed table answers: no update, and no
\* lookup that began before an update, leaves the egress of an older table behind.
CacheCoherent == \A k \in DOMAIN cache : cache[k].egress = Select(routes, k)

\* The CLOCK list and the map hold the same keys, each once, and at most
\* maxCacheSize of them.
ListMatchesMap ==
    /\ Len(order) <= MaxSize
    /\ {order[i] : i \in DOMAIN order} = DOMAIN cache
    /\ \A i, j \in DOMAIN order : order[i] = order[j] => i = j

\* The eviction loop of Set: whether a turn finds the back of the list referenced,
\* what it then does with it, and what the last turn does.
BackReferenced(s) == s.cache[s.order[Len(s.order)]].ref

PassBack(s) ==
    LET back == s.order[Len(s.order)]
    IN  [order |-> <<back>> \o SubSeq(s.order, 1, Len(s.order) - 1),
         cache |-> [s.cache EXCEPT ![back].ref = FALSE]]

TakeBack(s) ==
    LET back == s.order[Len(s.order)]
    IN  [order |-> SubSeq(s.order, 1, Len(s.order) - 1),
         cache |-> [k \in DOMAIN s.cache \ {back} |-> s.cache[k]]]

\* The list and the map before each turn that follows turns which passed an entry.
Turns(o, c) ==
    LET turn[n \in 0..Len(o)] ==
            IF n = 0 THEN [order |-> o, cache |-> c] ELSE PassBack(turn[n - 1])
    IN  turn

\* The eviction loop ends, after at most one round, and leaves what Scanned says in
\* one step.
ScanIsLoop ==
    order # <<>> =>
        \E n \in 0..Len(order) :
            /\ \A m \in 0..(n - 1) : BackReferenced(Turns(order, cache)[m])
            /\ ~BackReferenced(Turns(order, cache)[n])
            /\ Scanned(order, cache) = TakeBack(Turns(order, cache)[n])

\* An entry that was looked up since the scan last passed it is not evicted while
\* another entry was not looked up.
SecondChance ==
    [][\A k \in DOMAIN cache :
         version' = version /\ k \notin DOMAIN cache' /\ cache[k].ref =>
             \A l \in DOMAIN cache : cache[l].ref]_vars

\* Readers cannot tell that there is a cache, and no update of the table is lost
\* to a GenerateCache that started before it: the router implements RouteTable.
ImplementsRouteTable == Spec
=============================================================================
