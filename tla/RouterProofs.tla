---------------------------- MODULE RouterProofs ----------------------------
(* The router implements RouteTable: proofs.                                  *)
EXTENDS Router, WellFoundedInduction, TLAPS

\* A lookup on its way to the cache carries the answer of the installed table,
\* which cannot change under it.
FoundIsCurrent ==
    \A p \in Readers : found[p] # NotFound =>
        asked[p] # NoDst /\ found[p] = Select(routes, Normal[asked[p]])

\* What an update has compiled so far, it has compiled from its rules.
BuiltFromDraft ==
    \A w \in Writers :
        /\ Len(built[w]) <= Len(draft[w])
        /\ \A i \in DOMAIN built[w] : ~draft[w][i].bad /\ built[w][i] \in Compiled(draft[w][i])

\* The rules an update compiles are its arguments; those of a GenerateCache are the
\* installed ones for as long as the version it saw is current.
DraftIsInput ==
    \A w \in Writers :
        /\ op[w] = "set" => draft[w] \in Tables
        /\ op[w] \in {"first", "last"} => \E rule \in Rules : draft[w] = <<rule>>
        /\ op[w] = "regen" =>
             /\ snap[w] <= version
             /\ snap[w] = version => draft[w] = [i \in DOMAIN routes |-> routes[i].rule]

\* The inductive invariant.
RInv == RTypeOK /\ CacheCoherent /\ FoundIsCurrent /\ BuiltFromDraft /\ DraftIsInput
----------------------------------------------------------------------------
\* A set of naturals that is not empty has a least element.
LEMMA LeastNatural ==
    ASSUME NEW T, T \subseteq Nat, T # {}
    PROVE  \E x \in T : \A y \in T : x <= y
<1> DEFINE R == OpToRel(<, Nat)
<1>1. IsWellFoundedOn(R, Nat)
  BY NatLessThanWellFounded, Zenon
<1>2. \A a, b \in Nat : a < b => <<a, b>> \in R
  BY DEF OpToRel
<1> HIDE DEF R
<1>3. PICK x \in T : \A y \in T : ~(<<y, x>> \in R)
  BY <1>1, WFMin, Zenon
<1>4. \A y \in T : ~(y < x)
  BY <1>2, <1>3
<1> QED BY <1>4

\* Compiling a rule gives a route that carries the rule.
LEMMA CompiledRoute ==
    ASSUME NEW rule \in Rules, NEW route \in Compiled(rule)
    PROVE  route \in Routes /\ route.rule = rule /\ route.matched \subseteq Keys
<1>1. route \in Routes
  BY DEF Routes
<1>2. route.rule = rule
  BY DEF Compiled
<1>3. rule.src \subseteq Keys
  BY RuleShape
<1>4. \A c \in Contents : c \subseteq Keys
  BY RuleShape
<1>5. route.matched \subseteq Keys
  BY <1>3, <1>4 DEF Compiled
<1> QED BY <1>1, <1>2, <1>5

\* Every route was compiled from a rule.
LEMMA RouteRule ==
    ASSUME NEW route \in Routes
    PROVE  route.rule \in Rules /\ route \in Compiled(route.rule)
<1>1. PICK rule \in Rules : route \in Compiled(rule)
  BY DEF Routes
<1> QED BY <1>1, CompiledRoute

\* A table answers with the egress of one of its routes, or with NotFound.
LEMMA SelectType ==
    ASSUME NEW rs \in Seq(Routes), NEW k
    PROVE  Select(rs, k) \in STRING \cup {NotFound}
<1> DEFINE M == {i \in DOMAIN rs : k \in rs[i].matched}
<1>1. CASE M = {}
  BY <1>1 DEF Select
<1>2. CASE M # {}
  <2>1. M \subseteq Nat
    OBVIOUS
  <2>2. PICK i \in M : \A j \in M : i <= j
    BY <1>2, <2>1, LeastNatural
  <2>3. i \in DOMAIN rs /\ k \in rs[i].matched /\ \A j \in 1..(i - 1) : k \notin rs[j].matched
    BY <2>2
  <2> DEFINE n == CHOOSE j \in DOMAIN rs : /\ k \in rs[j].matched
                                           /\ \A l \in 1..(j - 1) : k \notin rs[l].matched
  <2>4. n \in DOMAIN rs
    BY <2>3
  <2>5. rs[n] \in Routes
    BY <2>4
  <2>6. rs[n].rule \in Rules
    BY <2>5, RouteRule
  <2>7. rs[n].rule.dst \in STRING
    BY <2>6, RuleShape
  <2>8. Select(rs, k) = rs[n].rule.dst
    BY <2>3 DEF Select
  <2> QED BY <2>7, <2>8
<1> QED BY <1>1, <1>2
----------------------------------------------------------------------------
\* A set of positions of a sequence that is not empty has a last one.
LEMMA LastPosition ==
    ASSUME NEW n \in Nat, NEW T, T \subseteq 1..n, T # {}
    PROVE  \E x \in T : \A y \in T : y <= x
<1> DEFINE D == {n - i : i \in T}
<1>1. D \subseteq Nat
  <2>1. \A i \in T : n - i \in Nat
    OBVIOUS
  <2> QED BY <2>1
<1>0. D # {}
  <2>1. PICK i \in T : TRUE
    OBVIOUS
  <2>2. n - i \in D
    OBVIOUS
  <2> QED BY <2>2
<1>2. PICK d \in D : \A c \in D : d <= c
  BY <1>0, <1>1, LeastNatural
<1>3. PICK x \in T : d = n - x
  OBVIOUS
<1>4. ASSUME NEW y \in T PROVE y <= x
  <2>1. n - y \in D
    OBVIOUS
  <2>2. d <= n - y
    BY <1>2, <2>1
  <2> QED BY <1>3, <2>2
<1> QED BY <1>4

\* The eviction scan stops at an entry of the list: the last one not referenced, or
\* the last one of all when all are.
LEMMA VictimInList ==
    ASSUME NEW o \in Seq(Keys), NEW c, o # <<>>
    PROVE  /\ Victim(o, c) \in 1..Len(o)
           /\ \/ \A i \in DOMAIN o : c[o[i]].ref
              \/ /\ ~c[o[Victim(o, c)]].ref
                 /\ \A j \in (Victim(o, c) + 1)..Len(o) : c[o[j]].ref
<1>1. CASE \A i \in DOMAIN o : c[o[i]].ref
  BY <1>1 DEF Victim
<1>2. CASE ~(\A i \in DOMAIN o : c[o[i]].ref)
  <2> DEFINE T == {i \in DOMAIN o : ~c[o[i]].ref}
  <2>1. T \subseteq 1..Len(o) /\ T # {}
    BY <1>2
  <2>2. PICK i \in T : \A j \in T : j <= i
    <3>1. Len(o) \in Nat
      OBVIOUS
    <3> HIDE DEF T
    <3> QED BY <2>1, <3>1, LastPosition
  <2>3. i \in DOMAIN o /\ ~c[o[i]].ref /\ \A j \in (i + 1)..Len(o) : c[o[j]].ref
    BY <2>2
  <2> DEFINE v == CHOOSE l \in DOMAIN o : ~c[o[l]].ref /\ \A j \in (l + 1)..Len(o) : c[o[j]].ref
  <2>4. v \in DOMAIN o /\ ~c[o[v]].ref /\ \A j \in (v + 1)..Len(o) : c[o[j]].ref
    BY <2>3
  <2>5. Victim(o, c) = v
    BY <1>2 DEF Victim
  <2> QED BY <2>4, <2>5
<1> QED BY <1>1, <1>2

IsCache(c) == /\ DOMAIN c \subseteq Keys
              /\ c = [k \in DOMAIN c |-> c[k]]
              /\ \A k \in DOMAIN c : c[k] \in [egress : STRING, ref : BOOLEAN]

\* Set makes room by dropping one entry, and changes the egress of none.
LEMMA MakeRoomKeeps ==
    ASSUME NEW o \in Seq(Keys), NEW c, IsCache(c),
           NEW room, room = MakeRoom(o, c)
    PROVE  /\ room.order \in Seq(Keys)
           /\ IsCache(room.cache)
           /\ DOMAIN room.cache \subseteq DOMAIN c
           /\ \A k \in DOMAIN room.cache : room.cache[k].egress = c[k].egress
<1>1. CASE ~(Len(o) >= MaxSize)
  BY <1>1 DEF MakeRoom
<1>2. CASE Len(o) >= MaxSize
  <2>1. o # <<>>
    BY <1>2, SizeAssumption
  <2> DEFINE v == Victim(o, c)
  <2>2. v \in 1..Len(o)
    BY <2>1, VictimInList
  <2>3. room = Scanned(o, c)
    BY <1>2 DEF MakeRoom
  <2> HIDE DEF v
  <2>4. room.order = SubSeq(o, v + 1, Len(o)) \o SubSeq(o, 1, v - 1)
    <3>1. room.order = ScannedOrder(o, v)
      BY <2>3 DEF Scanned, v
    <3> QED BY <3>1 DEF ScannedOrder
  <2>5. room.order \in Seq(Keys)
    BY <2>2, <2>4
  <2>6. /\ DOMAIN room.cache \subseteq DOMAIN c
        /\ \A k \in DOMAIN room.cache :
             room.cache[k] \in {c[k], [c[k] EXCEPT !.ref = FALSE]}
    <3>1. room.cache = ScannedCache(o, c, v)
      BY <2>3 DEF Scanned, v
    <3> QED BY <3>1 DEF ScannedCache
  <2>7. \A k \in DOMAIN room.cache :
           /\ room.cache[k] \in [egress : STRING, ref : BOOLEAN]
           /\ room.cache[k].egress = c[k].egress
    <3> TAKE k \in DOMAIN room.cache
    <3>1. c[k] \in [egress : STRING, ref : BOOLEAN]
      BY <2>6 DEF IsCache
    <3>2. room.cache[k] = c[k] \/ room.cache[k] = [c[k] EXCEPT !.ref = FALSE]
      BY <2>6
    <3> QED BY <3>1, <3>2
  <2>8. room.cache = [k \in DOMAIN room.cache |-> room.cache[k]]
    BY <2>3 DEF Scanned, ScannedCache
  <2> QED BY <2>5, <2>6, <2>7, <2>8 DEF IsCache
<1> QED BY <1>1, <1>2

\* Caching the right egress of a key keeps the cache well formed and coherent.
LEMMA CacheSetKeeps ==
    ASSUME RTypeOK, CacheCoherent, NEW k \in Keys, NEW egress \in STRING,
           egress = Select(routes, k), CacheSet(k, egress)
    PROVE  /\ order' \in Seq(Keys)
           /\ IsCache(cache)'
           /\ \A x \in DOMAIN cache' : cache'[x].egress = Select(routes, x)
<1>0. IsCache(cache) /\ order \in Seq(Keys)
  BY DEF IsCache, RTypeOK
<1>1. CASE k \in DOMAIN cache
  <2>1. PICK i \in DOMAIN order :
           order' = <<k>> \o SubSeq(order, 1, i - 1) \o SubSeq(order, i + 1, Len(order))
    BY <1>1 DEF CacheSet
  <2>2. order' \in Seq(Keys)
    BY <1>0, <2>1
  <2>3. cache' = [cache EXCEPT ![k].egress = egress]
    BY <1>1 DEF CacheSet
  <2>4. \A x \in DOMAIN cache : cache[x] \in [egress : STRING, ref : BOOLEAN]
                                 /\ cache[x].egress = Select(routes, x)
    BY <1>0 DEF IsCache, CacheCoherent
  <2>5. DOMAIN cache' = DOMAIN cache
    BY <2>3
  <2>6. \A x \in DOMAIN cache' : x # k => cache'[x] = cache[x]
    BY <2>3
  <2>7. cache'[k] = [cache[k] EXCEPT !.egress = egress]
    BY <1>1, <2>3
  <2>8. \A x \in DOMAIN cache' : cache'[x] \in [egress : STRING, ref : BOOLEAN]
                                  /\ cache'[x].egress = Select(routes, x)
    BY <1>1, <2>4, <2>5, <2>6, <2>7
  <2>9. cache' = [x \in DOMAIN cache' |-> cache'[x]]
    BY <2>3
  <2> QED BY <1>0, <2>2, <2>5, <2>8, <2>9 DEF IsCache
<1>2. CASE k \notin DOMAIN cache
  <2> DEFINE room == MakeRoom(order, cache)
  <2>1. /\ room.order \in Seq(Keys)
        /\ IsCache(room.cache)
        /\ DOMAIN room.cache \subseteq DOMAIN cache
        /\ \A x \in DOMAIN room.cache : room.cache[x].egress = cache[x].egress
    BY <1>0, MakeRoomKeeps
  <2>2. order' = <<k>> \o room.order
    BY <1>2 DEF CacheSet
  <2>3. cache' = [x \in DOMAIN room.cache \cup {k} |->
                    IF x = k THEN [egress |-> egress, ref |-> FALSE] ELSE room.cache[x]]
    BY <1>2 DEF CacheSet
  <2> HIDE DEF room
  <2>4. order' \in Seq(Keys)
    BY <2>1, <2>2
  <2>5. DOMAIN cache' = DOMAIN room.cache \cup {k}
    BY <2>3
  <2>6. cache'[k] = [egress |-> egress, ref |-> FALSE]
    BY <2>3
  <2>7. \A x \in DOMAIN cache' : x # k => x \in DOMAIN room.cache /\ cache'[x] = room.cache[x]
    BY <2>3
  <2>8. \A x \in DOMAIN cache' : cache'[x].egress = Select(routes, x)
    BY <2>1, <2>6, <2>7 DEF CacheCoherent
  <2>9. \A x \in DOMAIN cache' : cache'[x] \in [egress : STRING, ref : BOOLEAN]
    <3> TAKE x \in DOMAIN cache'
    <3>1. CASE x = k
      <4>1. [egress |-> egress, ref |-> FALSE] \in [egress : STRING, ref : BOOLEAN]
        BY Zenon
      <4>2. cache'[x] = [egress |-> egress, ref |-> FALSE]
        BY <2>6, <3>1
      <4> QED BY <4>1, <4>2
    <3>2. CASE x # k
      BY <2>1, <2>7, <3>2 DEF IsCache
    <3> QED BY <3>1, <3>2
  <2>10. DOMAIN cache' \subseteq Keys
    BY <1>0, <2>1, <2>5 DEF IsCache
  <2>11. cache' = [x \in DOMAIN cache' |-> cache'[x]]
    BY <2>3
  <2> QED BY <2>4, <2>8, <2>9, <2>10, <2>11 DEF IsCache
<1> QED BY <1>1, <1>2
----------------------------------------------------------------------------
\* The invariant holds before anything is installed or asked.
LEMMA RInitInv == RInit => RInv
<1> SUFFICES ASSUME RInit PROVE RInv
  OBVIOUS
<1> USE DEF RInit, Init
<1>1. RTypeOK
  BY DEF RTypeOK
<1>2. CacheCoherent
  BY DEF CacheCoherent
<1>3. FoundIsCurrent
  BY DEF FoundIsCurrent
<1>4. BuiltFromDraft
  BY DEF BuiltFromDraft
<1>5. DraftIsInput
  BY DEF DraftIsInput
<1> QED BY <1>1, <1>2, <1>3, <1>4, <1>5 DEF RInv

\* A lookup leaves the table, the updates and the other lookups alone.
LEMMA ReaderKeepsRest ==
    ASSUME RInv, UNCHANGED <<tableVars, writerVars>>
    PROVE  /\ BuiltFromDraft' /\ DraftIsInput'
           /\ routes' \in Seq(Routes) /\ version' \in Nat
           /\ op' \in [Writers -> {"none", "set", "first", "last", "regen", "again"}]
           /\ draft' \in [Writers -> Seq(Rules)]
           /\ built' \in [Writers -> Seq(Routes)]
           /\ snap' \in [Writers -> Nat]
BY DEF RInv, RTypeOK, BuiltFromDraft, DraftIsInput, tableVars, writerVars

\* An update leaves the lookups and the cache alone until it commits.
LEMMA WriterKeepsRest ==
    ASSUME RInv, UNCHANGED <<tableVars, cacheVars, readerVars>>
    PROVE  /\ CacheCoherent' /\ FoundIsCurrent'
           /\ routes' \in Seq(Routes) /\ version' \in Nat
           /\ answer' \in [Readers -> [dst : Dsts, egress : STRING \cup {NotFound}] \cup {NoAnswer}]
           /\ order' \in Seq(Keys)
           /\ DOMAIN cache' \subseteq Keys
           /\ cache' = [k \in DOMAIN cache' |-> cache'[k]]
           /\ \A k \in DOMAIN cache' : cache'[k] \in [egress : STRING, ref : BOOLEAN]
           /\ asked' \in [Readers -> Dsts \cup {NoDst}]
           /\ found' \in [Readers -> STRING \cup {NotFound}]
BY DEF RInv, RTypeOK, CacheCoherent, FoundIsCurrent, tableVars, cacheVars, readerVars

\* Giving an answer ends the lookup and keeps the readers' variables in order.
LEMMA AnswerKeeps ==
    ASSUME RInv, NEW p \in Readers, NEW d \in Dsts, NEW egress \in STRING \cup {NotFound},
           Answer(p, d, egress), UNCHANGED routes
    PROVE  /\ FoundIsCurrent'
           /\ answer' \in [Readers -> [dst : Dsts, egress : STRING \cup {NotFound}] \cup {NoAnswer}]
           /\ asked' \in [Readers -> Dsts \cup {NoDst}]
           /\ found' \in [Readers -> STRING \cup {NotFound}]
<1>1. [dst |-> d, egress |-> egress] \in [dst : Dsts, egress : STRING \cup {NotFound}]
  OBVIOUS
<1>2. answer' \in [Readers -> [dst : Dsts, egress : STRING \cup {NotFound}] \cup {NoAnswer}]
  BY <1>1 DEF RInv, RTypeOK, Answer
<1>3. asked' \in [Readers -> Dsts \cup {NoDst}]
  BY DEF RInv, RTypeOK, Answer
<1>4. found' \in [Readers -> STRING \cup {NotFound}]
  BY DEF RInv, RTypeOK, Answer
<1>5. FoundIsCurrent'
  BY DEF RInv, RTypeOK, FoundIsCurrent, Answer
<1> QED BY <1>2, <1>3, <1>4, <1>5

\* A lookup answered by the cache keeps the invariant.
LEMMA HitKeeps ==
    ASSUME RInv, NEW p \in Readers, NEW d \in Dsts, Hit(p, d)
    PROVE  RInv'
<1> DEFINE k == Normal[d]
<1>0. k \in DOMAIN cache /\ cache[k].egress \in STRING /\ order \in Seq(Keys)
  BY DEF Hit, RInv, RTypeOK
<1>1. UNCHANGED <<tableVars, order, writerVars>>
  BY DEF Hit
<1>2. Answer(p, d, cache[k].egress)
  BY DEF Hit
<1>3. cache' = [cache EXCEPT ![k].ref = TRUE]
  BY DEF Hit
<1> HIDE DEF k
<1>4. \A x \in DOMAIN cache : /\ cache[x] \in [egress : STRING, ref : BOOLEAN]
                              /\ cache[x].egress = Select(routes, x)
  BY DEF RInv, RTypeOK, CacheCoherent
<1>5. DOMAIN cache' = DOMAIN cache /\ DOMAIN cache \subseteq Keys
  BY <1>3 DEF RInv, RTypeOK
<1>15. cache' = [x \in DOMAIN cache' |-> cache'[x]]
  BY <1>3
<1>6. \A x \in DOMAIN cache' : x # k => cache'[x] = cache[x]
  BY <1>3
<1>7. cache'[k] = [cache[k] EXCEPT !.ref = TRUE]
  BY <1>0, <1>3
<1>8. cache'[k] \in [egress : STRING, ref : BOOLEAN] /\ cache'[k].egress = cache[k].egress
  BY <1>0, <1>4, <1>7
<1>9. \A x \in DOMAIN cache' : cache'[x] \in [egress : STRING, ref : BOOLEAN]
  BY <1>4, <1>5, <1>6, <1>8
<1>10. UNCHANGED routes
  BY <1>1 DEF tableVars
<1>11. CacheCoherent'
  BY <1>0, <1>4, <1>5, <1>6, <1>8, <1>10 DEF CacheCoherent
<1>12. /\ BuiltFromDraft' /\ DraftIsInput'
       /\ routes' \in Seq(Routes) /\ version' \in Nat
       /\ op' \in [Writers -> {"none", "set", "first", "last", "regen", "again"}]
       /\ draft' \in [Writers -> Seq(Rules)]
       /\ built' \in [Writers -> Seq(Routes)]
       /\ snap' \in [Writers -> Nat]
  BY <1>1, ReaderKeepsRest
<1>13. /\ FoundIsCurrent'
       /\ answer' \in [Readers -> [dst : Dsts, egress : STRING \cup {NotFound}] \cup {NoAnswer}]
       /\ asked' \in [Readers -> Dsts \cup {NoDst}]
       /\ found' \in [Readers -> STRING \cup {NotFound}]
  BY <1>0, <1>2, <1>10, AnswerKeeps
<1>14. RTypeOK'
  BY <1>0, <1>1, <1>5, <1>9, <1>12, <1>13, <1>15 DEF RTypeOK
<1> QED BY <1>11, <1>12, <1>13, <1>14 DEF RInv

\* A lookup that misses takes the read lock and nothing else.
LEMMA MissKeeps ==
    ASSUME RInv, NEW p \in Readers, NEW d \in Dsts, Miss(p, d)
    PROVE  RInv'
<1> USE DEF RInv
<1>1. UNCHANGED <<tableVars, cacheVars, found, answer, writerVars>>
  BY DEF Miss
<1>2. asked' = [asked EXCEPT ![p] = d]
  BY DEF Miss
<1>3. RTypeOK'
  BY <1>1, <1>2 DEF RTypeOK, tableVars, cacheVars, writerVars
<1>4. CacheCoherent'
  BY <1>1 DEF CacheCoherent, tableVars, cacheVars
<1>5. found[p] = NotFound
  BY DEF Miss, FoundIsCurrent
<1>6. FoundIsCurrent'
  BY <1>1, <1>2, <1>5 DEF FoundIsCurrent, RTypeOK, tableVars
<1>7. BuiltFromDraft' /\ DraftIsInput'
  BY <1>1, ReaderKeepsRest
<1> QED BY <1>3, <1>4, <1>6, <1>7

\* Walking the table keeps the invariant: what is found is the table's answer.
LEMMA MatchKeeps ==
    ASSUME RInv, NEW p \in Readers, Match(p)
    PROVE  RInv'
<1> DEFINE d == asked[p]
           egress == Select(routes, Normal[d])
<1>1. d \in Dsts /\ d # NoDst /\ found[p] = NotFound
  BY DEF Match, RInv, RTypeOK
<1>2. UNCHANGED <<tableVars, cacheVars, writerVars>> /\ UNCHANGED routes
  BY DEF Match, tableVars
<1>3. \/ Answer(p, d, NotFound)
      \/ /\ egress # NotFound
         /\ found' = [found EXCEPT ![p] = egress]
         /\ UNCHANGED <<asked, answer>>
  BY DEF Match
<1>4. egress \in STRING \cup {NotFound}
  BY SelectType DEF RInv, RTypeOK
<1> HIDE DEF d, egress
<1>5. /\ FoundIsCurrent'
      /\ answer' \in [Readers -> [dst : Dsts, egress : STRING \cup {NotFound}] \cup {NoAnswer}]
      /\ asked' \in [Readers -> Dsts \cup {NoDst}]
      /\ found' \in [Readers -> STRING \cup {NotFound}]
  <2>1. CASE Answer(p, d, NotFound)
    BY <1>1, <1>2, <2>1, AnswerKeeps
  <2>2. CASE /\ found' = [found EXCEPT ![p] = egress]
             /\ UNCHANGED <<asked, answer>>
    <3>1. FoundIsCurrent'
      BY <1>1, <1>2, <2>2 DEF RInv, RTypeOK, FoundIsCurrent, d, egress
    <3> QED BY <1>4, <2>2, <3>1 DEF RInv, RTypeOK
  <2> QED BY <1>3, <2>1, <2>2
<1>6. CacheCoherent'
  BY <1>2 DEF RInv, CacheCoherent, cacheVars
<1>7. BuiltFromDraft' /\ DraftIsInput'
  BY <1>2, ReaderKeepsRest
<1>8. RTypeOK'
  BY <1>2, <1>5 DEF RInv, RTypeOK, tableVars, cacheVars, writerVars
<1> QED BY <1>5, <1>6, <1>7, <1>8 DEF RInv

\* Caching what was found keeps the invariant.
LEMMA StoreKeeps ==
    ASSUME RInv, NEW p \in Readers, Store(p)
    PROVE  RInv'
<1> DEFINE d == asked[p]
           k == Normal[d]
<1>1. /\ found[p] \in STRING /\ d \in Dsts
      /\ found[p] = Select(routes, k)
  BY DEF Store, RInv, RTypeOK, FoundIsCurrent
<1>2. k \in Keys
  BY <1>1, RuleShape
<1>3. CacheSet(k, found[p]) /\ Answer(p, d, found[p]) /\ UNCHANGED <<tableVars, writerVars>>
  BY DEF Store
<1> HIDE DEF d, k
<1>4. UNCHANGED routes
  BY <1>3 DEF tableVars
<1>5. /\ order' \in Seq(Keys)
      /\ IsCache(cache)'
      /\ \A x \in DOMAIN cache' : cache'[x].egress = Select(routes, x)
  BY <1>1, <1>2, <1>3, CacheSetKeeps DEF RInv
<1>6. CacheCoherent'
  BY <1>4, <1>5 DEF CacheCoherent
<1>7. /\ FoundIsCurrent'
      /\ answer' \in [Readers -> [dst : Dsts, egress : STRING \cup {NotFound}] \cup {NoAnswer}]
      /\ asked' \in [Readers -> Dsts \cup {NoDst}]
      /\ found' \in [Readers -> STRING \cup {NotFound}]
  BY <1>1, <1>3, <1>4, AnswerKeeps
<1>8. /\ BuiltFromDraft' /\ DraftIsInput'
      /\ routes' \in Seq(Routes) /\ version' \in Nat
      /\ op' \in [Writers -> {"none", "set", "first", "last", "regen", "again"}]
      /\ draft' \in [Writers -> Seq(Rules)]
      /\ built' \in [Writers -> Seq(Routes)]
      /\ snap' \in [Writers -> Nat]
  BY <1>3, ReaderKeepsRest
<1>9. RTypeOK'
  BY <1>5, <1>7, <1>8 DEF RTypeOK, IsCache
<1> QED BY <1>6, <1>7, <1>8, <1>9 DEF RInv
----------------------------------------------------------------------------
\* An update that starts with rules of the kind its name calls for.
LEMMA StartKeeps ==
    ASSUME RInv, NEW w \in Writers,
           NEW name \in {"none", "set", "first", "last", "regen", "again"},
           NEW rules \in Seq(Rules), Start(w, name, rules),
           snap' \in [Writers -> Nat],
           \A v \in Writers : v # w => snap'[v] = snap[v],
           name = "set" => rules \in Tables,
           name \in {"first", "last"} => \E rule \in Rules : rules = <<rule>>,
           name = "regen" => /\ snap'[w] = version
                             /\ rules = [i \in DOMAIN routes |-> routes[i].rule]
    PROVE  RInv'
<1>1. /\ op' = [op EXCEPT ![w] = name]
      /\ draft' = [draft EXCEPT ![w] = rules]
      /\ built' = [built EXCEPT ![w] = <<>>]
      /\ UNCHANGED <<tableVars, cacheVars, readerVars>>
  BY DEF Start
<1>2. UNCHANGED <<routes, version>>
  BY <1>1 DEF tableVars
<1>3. /\ op \in [Writers -> {"none", "set", "first", "last", "regen", "again"}]
      /\ draft \in [Writers -> Seq(Rules)]
      /\ built \in [Writers -> Seq(Routes)]
  BY DEF RInv, RTypeOK
<1>4. BuiltFromDraft'
  BY <1>1, <1>3 DEF RInv, BuiltFromDraft
<1>5. DraftIsInput'
  <2> SUFFICES ASSUME NEW v \in Writers
               PROVE /\ op'[v] = "set" => draft'[v] \in Tables
                     /\ op'[v] \in {"first", "last"} => \E rule \in Rules : draft'[v] = <<rule>>
                     /\ op'[v] = "regen" =>
                          /\ snap'[v] <= version
                          /\ snap'[v] = version =>
                               draft'[v] = [i \in DOMAIN routes |-> routes[i].rule]
    BY <1>2 DEF DraftIsInput
  <2>1. CASE v = w
    <3>1. op'[v] = name /\ draft'[v] = rules /\ version \in Nat
      BY <1>1, <1>3, <2>1 DEF RInv, RTypeOK
    <3> QED BY <2>1, <3>1
  <2>2. CASE v # w
    <3>1. op'[v] = op[v] /\ draft'[v] = draft[v] /\ snap'[v] = snap[v]
      BY <1>1, <1>3, <2>2
    <3> QED BY <3>1 DEF RInv, DraftIsInput
  <2> QED BY <2>1, <2>2
<1>6. /\ CacheCoherent' /\ FoundIsCurrent'
      /\ routes' \in Seq(Routes) /\ version' \in Nat
      /\ answer' \in [Readers -> [dst : Dsts, egress : STRING \cup {NotFound}] \cup {NoAnswer}]
      /\ order' \in Seq(Keys)
      /\ DOMAIN cache' \subseteq Keys
      /\ cache' = [k \in DOMAIN cache' |-> cache'[k]]
      /\ \A k \in DOMAIN cache' : cache'[k] \in [egress : STRING, ref : BOOLEAN]
      /\ asked' \in [Readers -> Dsts \cup {NoDst}]
      /\ found' \in [Readers -> STRING \cup {NotFound}]
  BY <1>1, WriterKeepsRest
<1>7. RTypeOK'
  BY <1>1, <1>3, <1>6 DEF RTypeOK
<1> QED BY <1>4, <1>5, <1>6, <1>7 DEF RInv

\* The operations that start an update, that give one up and that start it over.
LEMMA StartsKeep ==
    ASSUME RInv, NEW w \in Writers,
           \/ \E table \in Tables : SetRoutes(w, table)
           \/ \E rule \in Rules : AddToFirstRoute(w, rule) \/ AddToLastRoute(w, rule)
           \/ GenerateCache(w) \/ BuildFails(w) \/ RetryRegen(w)
    PROVE  RInv'
<1>0. snap \in [Writers -> Nat] /\ version \in Nat /\ routes \in Seq(Routes)
  BY DEF RInv, RTypeOK
<1>1. ASSUME NEW table \in Tables, SetRoutes(w, table) PROVE RInv'
  <2>1. table \in Seq(Rules)
    BY RuleShape
  <2> QED BY <1>0, <1>1, <2>1, StartKeeps DEF SetRoutes
<1>2. ASSUME NEW rule \in Rules, AddToFirstRoute(w, rule) \/ AddToLastRoute(w, rule) PROVE RInv'
  <2>1. <<rule>> \in Seq(Rules)
    OBVIOUS
  <2> QED BY <1>0, <1>2, <2>1, StartKeeps DEF AddToFirstRoute, AddToLastRoute
<1>3. CASE GenerateCache(w)
  <2> DEFINE rules == [i \in DOMAIN routes |-> routes[i].rule]
  <2>1. \A i \in DOMAIN routes : routes[i].rule \in Rules
    BY <1>0, RouteRule
  <2>2. rules \in Seq(Rules)
    BY <1>0, <2>1
  <2>3. Start(w, "regen", rules) /\ snap' = [snap EXCEPT ![w] = version]
    BY <1>3 DEF GenerateCache
  <2>4. snap' \in [Writers -> Nat] /\ snap'[w] = version /\ \A v \in Writers : v # w => snap'[v] = snap[v]
    BY <1>0, <2>3
  <2> QED BY <2>2, <2>3, <2>4, StartKeeps
<1>4. CASE BuildFails(w) \/ RetryRegen(w)
  <2>1. <<>> \in Seq(Rules)
    OBVIOUS
  <2> QED BY <1>0, <1>4, <2>1, StartKeeps DEF BuildFails, RetryRegen
<1> QED BY <1>1, <1>2, <1>3, <1>4

\* Compiling one more route keeps the invariant.
LEMMA BuildKeeps ==
    ASSUME RInv, NEW w \in Writers, Build(w)
    PROVE  RInv'
<1> DEFINE n == Len(built[w])
<1>0. /\ draft \in [Writers -> Seq(Rules)] /\ built \in [Writers -> Seq(Routes)]
      /\ n \in Nat /\ n < Len(draft[w])
  BY DEF RInv, RTypeOK, Build, Building
<1>1. PICK route \in Compiled(draft[w][n + 1]) : built' = [built EXCEPT ![w] = Append(@, route)]
  BY DEF Build, NextRule
<1>2. ~draft[w][n + 1].bad /\ draft[w][n + 1] \in Rules
  BY <1>0 DEF Build, NextRule
<1>3. route \in Routes
  BY <1>2, CompiledRoute
<1>4. UNCHANGED <<tableVars, cacheVars, readerVars, op, draft, snap>>
  BY DEF Build
<1>5. built' \in [Writers -> Seq(Routes)]
  BY <1>0, <1>1, <1>3
<1>6. BuiltFromDraft'
  <2> SUFFICES ASSUME NEW v \in Writers
               PROVE  /\ Len(built'[v]) <= Len(draft[v])
                      /\ \A i \in DOMAIN built'[v] :
                           ~draft[v][i].bad /\ built'[v][i] \in Compiled(draft[v][i])
    BY <1>4 DEF BuiltFromDraft
  <2>1. CASE v # w
    BY <1>0, <1>1, <2>1 DEF RInv, BuiltFromDraft
  <2>2. CASE v = w
    <3>1. built'[w] = Append(built[w], route)
      BY <1>0, <1>1
    <3>2. Len(built'[w]) = n + 1 /\ DOMAIN built'[w] = 1..(n + 1)
      BY <1>0, <1>3, <3>1
    <3>3. ASSUME NEW i \in 1..(n + 1)
          PROVE  ~draft[w][i].bad /\ built'[w][i] \in Compiled(draft[w][i])
      <4>1. CASE i = n + 1
        BY <1>0, <1>1, <1>2, <1>3, <3>1, <4>1
      <4>2. CASE i \in 1..n
        <5>1. built'[w][i] = built[w][i] /\ i \in DOMAIN built[w]
          BY <1>0, <1>3, <3>1, <4>2
        <5> QED BY <5>1 DEF RInv, BuiltFromDraft
      <4> QED BY <1>0, <4>1, <4>2
    <3> QED BY <1>0, <2>2, <3>2, <3>3
  <2> QED BY <2>1, <2>2
<1>7. DraftIsInput'
  BY <1>4 DEF RInv, DraftIsInput, tableVars
<1>8. /\ CacheCoherent' /\ FoundIsCurrent'
      /\ routes' \in Seq(Routes) /\ version' \in Nat
      /\ answer' \in [Readers -> [dst : Dsts, egress : STRING \cup {NotFound}] \cup {NoAnswer}]
      /\ order' \in Seq(Keys)
      /\ DOMAIN cache' \subseteq Keys
      /\ cache' = [k \in DOMAIN cache' |-> cache'[k]]
      /\ \A k \in DOMAIN cache' : cache'[k] \in [egress : STRING, ref : BOOLEAN]
      /\ asked' \in [Readers -> Dsts \cup {NoDst}]
      /\ found' \in [Readers -> STRING \cup {NotFound}]
  BY <1>4, WriterKeepsRest
<1>9. RTypeOK'
  BY <1>4, <1>5, <1>8 DEF RInv, RTypeOK
<1> QED BY <1>6, <1>7, <1>8, <1>9 DEF RInv

\* A commit empties the cache, and no lookup is under way that could fill it with
\* what the old table said; it outdates every GenerateCache that is under way.
LEMMA CommitKeeps ==
    ASSUME RInv, NEW w \in Writers, NEW rs \in Seq(Routes), ~ReadLocked, Commit(w, rs)
    PROVE  RInv'
<1>1. /\ routes' = rs /\ version' = version + 1
      /\ order' = <<>> /\ cache' = [k \in {} |-> NotFound]
      /\ op' = [op EXCEPT ![w] = "none"]
      /\ draft' = [draft EXCEPT ![w] = <<>>]
      /\ built' = [built EXCEPT ![w] = <<>>]
      /\ UNCHANGED <<asked, found, answer, snap>>
  BY DEF Commit, CacheReset, readerVars
<1>2. RTypeOK
  BY DEF RInv
<1>3. RTypeOK'
  BY <1>1, <1>2 DEF RTypeOK
<1>4. CacheCoherent'
  BY <1>1 DEF CacheCoherent
<1>5. FoundIsCurrent'
  <2>1. \A p \in Readers : found[p] = NotFound
    BY DEF ReadLocked, RInv, FoundIsCurrent
  <2> QED BY <1>1, <2>1 DEF FoundIsCurrent
<1>6. BuiltFromDraft'
  BY <1>1, <1>2 DEF RInv, RTypeOK, BuiltFromDraft
<1>7. DraftIsInput'
  <2> SUFFICES ASSUME NEW v \in Writers
               PROVE /\ op'[v] = "set" => draft'[v] \in Tables
                     /\ op'[v] \in {"first", "last"} => \E rule \in Rules : draft'[v] = <<rule>>
                     /\ op'[v] = "regen" => snap[v] <= version + 1 /\ snap[v] # version + 1
    BY <1>1 DEF DraftIsInput
  <2>1. CASE v = w
    BY <1>1, <1>2, <2>1 DEF RTypeOK
  <2>2. CASE v # w
    <3>1. op'[v] = op[v] /\ draft'[v] = draft[v] /\ snap[v] \in Nat /\ version \in Nat
      BY <1>1, <1>2, <2>2 DEF RTypeOK
    <3>2. /\ op[v] = "set" => draft[v] \in Tables
          /\ op[v] \in {"first", "last"} => \E rule \in Rules : draft[v] = <<rule>>
      BY DEF RInv, DraftIsInput
    <3>3. op[v] = "regen" => snap[v] <= version
      BY DEF RInv, DraftIsInput
    <3>4. op[v] = "regen" => snap[v] <= version + 1 /\ snap[v] # version + 1
      BY <3>1, <3>3
    <3> QED BY <3>1, <3>2, <3>4
  <2> QED BY <2>1, <2>2
<1> QED BY <1>3, <1>4, <1>5, <1>6, <1>7 DEF RInv

\* Each of the four commits installs compiled routes.
LEMMA CommitsKeep ==
    ASSUME RInv, NEW w \in Writers,
           CommitSet(w) \/ CommitFirst(w) \/ CommitLast(w) \/ CommitRegen(w)
    PROVE  RInv'
<1>1. built[w] \in Seq(Routes) /\ routes \in Seq(Routes)
  BY DEF RInv, RTypeOK
<1>2. built[w] \o routes \in Seq(Routes) /\ routes \o built[w] \in Seq(Routes)
  BY <1>1
<1>3. ~ReadLocked
  BY DEF CommitSet, CommitFirst, CommitLast, CommitRegen, Ready
<1>4. \/ Commit(w, built[w]) \/ Commit(w, built[w] \o routes) \/ Commit(w, routes \o built[w])
  BY DEF CommitSet, CommitFirst, CommitLast, CommitRegen
<1> QED BY <1>1, <1>2, <1>3, <1>4, CommitKeeps

\* Every step keeps the invariant.
LEMMA RNextInv == RInv /\ [RNext]_vars => RInv'
<1> SUFFICES ASSUME RInv, [RNext]_vars PROVE RInv'
  OBVIOUS
<1>1. ASSUME NEW p \in Readers, ReaderStep(p) PROVE RInv'
  BY <1>1, HitKeeps, MissKeeps, MatchKeeps, StoreKeeps DEF ReaderStep
<1>2. ASSUME NEW w \in Writers, WriterStep(w) PROVE RInv'
  <2>1. CASE \/ \E table \in Tables : SetRoutes(w, table)
             \/ \E rule \in Rules : AddToFirstRoute(w, rule) \/ AddToLastRoute(w, rule)
             \/ GenerateCache(w) \/ BuildFails(w) \/ RetryRegen(w)
    BY <2>1, StartsKeep
  <2>2. CASE Build(w)
    BY <2>2, BuildKeeps
  <2>3. CASE CommitSet(w) \/ CommitFirst(w) \/ CommitLast(w) \/ CommitRegen(w)
    BY <2>3, CommitsKeep
  <2> QED BY <1>2, <2>1, <2>2, <2>3 DEF WriterStep
<1>3. CASE UNCHANGED vars
  <2>1. UNCHANGED <<routes, version, order, cache, asked, found, answer, op, draft, built, snap>>
    BY <1>3 DEF vars, tableVars, cacheVars, readerVars, writerVars
  <2> QED BY <2>1 DEF RInv, RTypeOK, CacheCoherent, FoundIsCurrent, BuiltFromDraft, DraftIsInput
<1> QED BY <1>1, <1>2, <1>3 DEF RNext

\* The inductive invariant of the router: coherent cache, current lookups, updates
\* that compile what they were given.
THEOREM RouterInvariant == RSpec => []RInv
BY RInitInv, RNextInv, PTL DEF RSpec

\* Every variable of the router keeps its type.
THEOREM RouterTypes == RSpec => []RTypeOK
BY RouterInvariant, PTL DEF RInv

\* The cache never answers with the egress of an older table, however lookups and
\* updates interleave.
THEOREM CacheStaysCoherent == RSpec => []CacheCoherent
BY RouterInvariant, PTL DEF RInv
----------------------------------------------------------------------------
(* Refinement.                                                                *)

\* A finished compilation of an update's rules is a compilation in RouteTable's
\* sense.
LEMMA BuiltIsCompilation ==
    ASSUME RInv, NEW w \in Writers, Len(built[w]) = Len(draft[w])
    PROVE  IsCompilation(built[w], draft[w])
<1>1. draft[w] \in Seq(Rules) /\ built[w] \in Seq(Routes)
  BY DEF RInv, RTypeOK
<1>2. DOMAIN draft[w] = DOMAIN built[w]
  BY <1>1
<1> QED BY <1>2 DEF RInv, BuiltFromDraft, IsCompilation

\* A step of a lookup is a RouteTable lookup, or invisible.
LEMMA ReaderRefines ==
    ASSUME RInv, NEW p \in Readers, ReaderStep(p)
    PROVE  [Next]_<<routes, answer>>
<1>1. ASSUME NEW d \in Dsts, Hit(p, d) PROVE Get(p, d)
  <2>1. cache[Normal[d]].egress = Select(routes, Normal[d])
    BY <1>1 DEF Hit, RInv, CacheCoherent
  <2> QED BY <1>1, <2>1 DEF Hit, Answer, Get, tableVars
<1>2. ASSUME NEW d \in Dsts, Miss(p, d) PROVE UNCHANGED <<routes, answer>>
  BY <1>2 DEF Miss, tableVars
<1>3. CASE Match(p)
  <2>1. asked[p] \in Dsts
    BY <1>3 DEF Match, RInv, RTypeOK
  <2>2. CASE Select(routes, Normal[asked[p]]) = NotFound
    <3>1. Get(p, asked[p])
      BY <1>3, <2>2 DEF Match, Answer, Get, tableVars
    <3> QED BY <2>1, <3>1 DEF Next
  <2>3. CASE Select(routes, Normal[asked[p]]) # NotFound
    BY <1>3, <2>3 DEF Match, tableVars
  <2> QED BY <2>2, <2>3
<1>4. CASE Store(p)
  <2>1. asked[p] \in Dsts /\ found[p] = Select(routes, Normal[asked[p]])
    BY <1>4 DEF Store, RInv, RTypeOK, FoundIsCurrent
  <2>2. Get(p, asked[p])
    BY <1>4, <2>1 DEF Store, Answer, Get, tableVars
  <2> QED BY <2>1, <2>2 DEF Next
<1> QED BY <1>1, <1>2, <1>3, <1>4 DEF ReaderStep, Next

\* A step of an update is a RouteTable update, or invisible.
LEMMA WriterRefines ==
    ASSUME RInv, NEW w \in Writers, WriterStep(w)
    PROVE  [Next]_<<routes, answer>>
<1>0. draft[w] \in Seq(Rules) /\ built[w] \in Seq(Routes) /\ routes \in Seq(Routes)
  BY DEF RInv, RTypeOK
<1>1. CASE \/ \E table \in Tables : SetRoutes(w, table)
           \/ \E rule \in Rules : AddToFirstRoute(w, rule) \/ AddToLastRoute(w, rule)
           \/ GenerateCache(w) \/ BuildFails(w) \/ RetryRegen(w) \/ Build(w)
  BY <1>1 DEF SetRoutes, AddToFirstRoute, AddToLastRoute, GenerateCache, BuildFails,
              RetryRegen, Build, Start, tableVars, readerVars
<1>2. CASE CommitSet(w)
  <2>1. draft[w] \in Tables
    BY <1>2 DEF CommitSet, Ready, RInv, DraftIsInput
  <2>2. IsCompilation(built[w], draft[w])
    BY <1>2, BuiltIsCompilation DEF CommitSet, Ready
  <2>3. routes' = built[w] /\ UNCHANGED answer
    BY <1>2 DEF CommitSet, Commit, readerVars
  <2> QED BY <2>1, <2>2, <2>3 DEF Replace, Next
<1>3. CASE CommitFirst(w) \/ CommitLast(w)
  <2>1. PICK rule \in Rules : draft[w] = <<rule>>
    BY <1>3 DEF CommitFirst, CommitLast, Ready, RInv, DraftIsInput
  <2>2. Len(built[w]) = 1 /\ Len(draft[w]) = 1
    BY <1>3, <2>1 DEF CommitFirst, CommitLast, Ready
  <2>3. IsCompilation(built[w], draft[w])
    BY <2>2, BuiltIsCompilation
  <2>4. ~rule.bad /\ built[w][1] \in Compiled(rule)
    <3>1. 1 \in DOMAIN draft[w] /\ draft[w][1] = rule
      BY <2>1
    <3> QED BY <2>3, <3>1 DEF IsCompilation
  <2>5. built[w] = <<built[w][1]>>
    BY <1>0, <2>2
  <2>6. UNCHANGED answer /\ (routes' = built[w] \o routes \/ routes' = routes \o built[w])
    BY <1>3 DEF CommitFirst, CommitLast, Commit, readerVars
  <2>7. AddFirst \/ AddLast
    BY <2>4, <2>5, <2>6 DEF AddFirst, AddLast
  <2> QED BY <2>6, <2>7 DEF Next
<1>4. CASE CommitRegen(w)
  <2>1. draft[w] = [i \in DOMAIN routes |-> routes[i].rule]
    BY <1>4 DEF CommitRegen, Ready, RInv, DraftIsInput
  <2>2. IsCompilation(built[w], draft[w])
    BY <1>4, BuiltIsCompilation DEF CommitRegen, Ready
  <2>3. routes' = built[w] /\ UNCHANGED answer
    BY <1>4 DEF CommitRegen, Commit, readerVars
  <2> QED BY <2>1, <2>2, <2>3 DEF Recompile, Next
<1> QED BY <1>1, <1>2, <1>3, <1>4 DEF WriterStep

\* The router implements RouteTable: every lookup answers with the first match of
\* the table of that moment, and every update acts on the table of that moment.
THEOREM RouterImplements == RSpec => ImplementsRouteTable
<1>1. RInit => Init
  BY DEF RInit
<1>2. RInv /\ [RNext]_vars => [Next]_<<routes, answer>>
  <2> SUFFICES ASSUME RInv, [RNext]_vars PROVE [Next]_<<routes, answer>>
    OBVIOUS
  <2>1. CASE UNCHANGED vars
    BY <2>1 DEF vars, tableVars, readerVars
  <2> QED BY <2>1, ReaderRefines, WriterRefines DEF RNext
<1> QED BY <1>1, <1>2, RouterInvariant, PTL DEF RSpec, Spec, ImplementsRouteTable
----------------------------------------------------------------------------
(* The list and the map of the CLOCK cache.                                   *)

Keyset(o) == {o[i] : i \in DOMAIN o}
Distinct(o) == \A i, j \in DOMAIN o : o[i] = o[j] => i = j

ToFront(o, i) == (<<o[i]>> \o SubSeq(o, 1, i - 1)) \o SubSeq(o, i + 1, Len(o))

\* What a part of a list holds.
LEMMA PartOf ==
    ASSUME NEW o \in Seq(Keys), NEW a \in Nat, NEW b \in Nat, 1 <= a, a <= b + 1, b <= Len(o),
           NEW p, p = SubSeq(o, a, b)
    PROVE  p \in Seq(Keys) /\ Len(p) = b - a + 1 /\ \A j \in 1..(b - a + 1) : p[j] = o[a + j - 1]
OBVIOUS

\* Moving an entry to the front keeps the list's keys, each once.
LEMMA MovedToFront ==
    ASSUME NEW o \in Seq(Keys), Distinct(o), NEW i \in DOMAIN o,
           NEW q, q = ToFront(o, i)
    PROVE  Len(q) = Len(o) /\ Keyset(q) = Keyset(o) /\ Distinct(q)
<1> DEFINE n == Len(o)
           at(j) == IF j = 1 THEN i ELSE IF j <= i THEN j - 1 ELSE j
           front == SubSeq(o, 1, i - 1)
           back == SubSeq(o, i + 1, n)
<1>0. n \in Nat /\ DOMAIN o = 1..n
  OBVIOUS
<1>1. n \in Nat /\ DOMAIN o = 1..n /\ i \in 1..n
  BY <1>0
<1>2. q \in Seq(Keys) /\ Len(q) = n
  BY <1>1 DEF ToFront
<1>3. DOMAIN q = 1..n
  BY <1>1, <1>2
<1>4. \A j \in 1..n : at(j) \in 1..n /\ q[j] = o[at(j)]
  <2>1. front \in Seq(Keys) /\ Len(front) = i - 1 /\ \A j \in 1..(i - 1) : front[j] = o[j]
    BY <1>1
  <2>2. back \in Seq(Keys) /\ Len(back) = n - i /\ \A j \in 1..(n - i) : back[j] = o[i + j]
    <3>1. i + 1 \in Nat /\ 1 <= i + 1 /\ i + 1 <= n + 1
      BY <1>1
    <3>2. /\ back \in Seq(Keys) /\ Len(back) = n - (i + 1) + 1
          /\ \A j \in 1..(n - (i + 1) + 1) : back[j] = o[(i + 1) + j - 1]
      BY <1>1, <3>1, PartOf
    <3>3. n - (i + 1) + 1 = n - i /\ \A j \in 1..(n - i) : (i + 1) + j - 1 = i + j
      BY <1>1
    <3> HIDE DEF back
    <3> QED BY <3>2, <3>3
  <2>3. q = (<<o[i]>> \o front) \o back /\ o[i] \in Keys
    BY <1>1 DEF ToFront
  <2> HIDE DEF front, back
  <2> DEFINE h == <<o[i]>> \o front
  <2>4. h \in Seq(Keys) /\ Len(h) = i /\ h[1] = o[i]
    BY <1>1, <2>1, <2>3
  <2>5. \A j \in 2..i : h[j] = front[j - 1]
    BY <1>1, <2>1, <2>3
  <2> HIDE DEF h
  <2>6. \A j \in 1..i : q[j] = h[j]
    BY <1>1, <2>2, <2>3, <2>4 DEF h
  <2>7. \A j \in (i + 1)..n : q[j] = back[j - i]
    BY <1>1, <2>2, <2>3, <2>4 DEF h
  <2> TAKE j \in 1..n
  <2>8. CASE j = 1
    BY <1>1, <2>4, <2>6, <2>8
  <2>9. CASE j # 1 /\ j <= i
    <3>1. j \in 2..i /\ j \in 1..i /\ j - 1 \in 1..(i - 1)
      BY <1>1, <2>9
    <3> QED BY <1>1, <2>1, <2>5, <2>6, <2>9, <3>1
  <2>10. CASE j > i
    <3>1. j \in (i + 1)..n /\ j - i \in 1..(n - i) /\ i + (j - i) = j
      BY <1>1, <2>10
    <3>2. q[j] = o[j]
      BY <2>2, <2>7, <3>1
    <3> QED BY <1>1, <2>10, <3>1, <3>2
  <2> QED BY <1>1, <2>8, <2>9, <2>10
<1>5. \A j, l \in 1..n : at(j) = at(l) => j = l
  BY <1>1
<1>6. \A l \in 1..n : \E j \in 1..n : at(j) = l
  <2> SUFFICES ASSUME NEW l \in 1..n PROVE \E j \in 1..n : at(j) = l
    OBVIOUS
  <2>1. CASE l = i
    <3>1. at(1) = l /\ 1 \in 1..n
      BY <1>1, <2>1
    <3> QED BY <3>1
  <2>2. CASE l < i
    <3>1. at(l + 1) = l /\ l + 1 \in 1..n
      BY <1>1, <2>2
    <3> QED BY <3>1
  <2>3. CASE l > i
    <3>1. at(l) = l
      BY <1>1, <2>3
    <3> QED BY <3>1
  <2> QED BY <1>1, <2>1, <2>2, <2>3
<1> HIDE DEF at
<1>7. Keyset(q) = Keyset(o)
  <2>1. \A x : x \in Keyset(q) => x \in Keyset(o)
    BY <1>1, <1>3, <1>4 DEF Keyset
  <2>2. \A x : x \in Keyset(o) => x \in Keyset(q)
    BY <1>1, <1>3, <1>4, <1>6 DEF Keyset
  <2> QED BY <2>1, <2>2
<1>8. Distinct(q)
  BY <1>1, <1>3, <1>4, <1>5 DEF Distinct
<1> QED BY <1>2, <1>7, <1>8

\* What the list holds after the scan, and where it was before.
LEMMA ScannedEntries ==
    ASSUME NEW o \in Seq(Keys), NEW v \in DOMAIN o, NEW q, q = ScannedOrder(o, v)
    PROVE  /\ q \in Seq(Keys) /\ Len(q) = Len(o) - 1
           /\ \A j \in 1..(Len(o) - 1) :
                q[j] = o[IF j <= Len(o) - v THEN v + j ELSE j - (Len(o) - v)]
<1> DEFINE n == Len(o)
           at(j) == IF j <= n - v THEN v + j ELSE j - (n - v)
<1>1. n \in Nat /\ DOMAIN o = 1..n /\ v \in 1..n
  OBVIOUS
<1>2. q = SubSeq(o, v + 1, n) \o SubSeq(o, 1, v - 1)
  BY DEF ScannedOrder
<1>3. q \in Seq(Keys) /\ Len(q) = n - 1
  BY <1>1, <1>2
<1>4. DOMAIN q = 1..(n - 1)
  BY <1>1, <1>3
<1>5. \A j \in 1..(n - 1) : q[j] = o[at(j)]
  <2> DEFINE back == SubSeq(o, v + 1, n)
             front == SubSeq(o, 1, v - 1)
  <2>1. back \in Seq(Keys) /\ Len(back) = n - v /\ \A j \in 1..(n - v) : back[j] = o[v + j]
    BY <1>1
  <2>2. front \in Seq(Keys) /\ Len(front) = v - 1 /\ \A j \in 1..(v - 1) : front[j] = o[j]
    BY <1>1
  <2>3. q = back \o front
    BY <1>2
  <2> HIDE DEF back, front
  <2>4. \A j \in 1..(n - v) : q[j] = back[j]
    BY <1>1, <2>1, <2>2, <2>3
  <2>5. \A j \in (n - v + 1)..(n - 1) : q[j] = front[j - (n - v)]
    BY <1>1, <2>1, <2>2, <2>3
  <2> TAKE j \in 1..(n - 1)
  <2>6. CASE j <= n - v
    <3>1. j \in 1..(n - v)
      BY <1>1, <2>6
    <3> QED BY <1>1, <2>1, <2>4, <2>6, <3>1
  <2>7. CASE j > n - v
    <3>1. j \in (n - v + 1)..(n - 1) /\ j - (n - v) \in 1..(v - 1)
      BY <1>1, <2>7
    <3>2. q[j] = o[j - (n - v)]
      BY <2>2, <2>5, <3>1
    <3> QED BY <1>1, <2>7, <3>1, <3>2
  <2> QED BY <1>1, <2>6, <2>7
<1> QED BY <1>3, <1>5

\* The scan takes the entry it stops at out of the list, and no other.
LEMMA ScannedList ==
    ASSUME NEW o \in Seq(Keys), Distinct(o), NEW v \in DOMAIN o,
           NEW q, q = ScannedOrder(o, v)
    PROVE  /\ q \in Seq(Keys) /\ Len(q) = Len(o) - 1
           /\ Keyset(q) = Keyset(o) \ {o[v]} /\ Distinct(q)
<1> DEFINE n == Len(o)
           at(j) == IF j <= n - v THEN v + j ELSE j - (n - v)
<1>1. n \in Nat /\ DOMAIN o = 1..n /\ v \in 1..n
  OBVIOUS
<1>3. q \in Seq(Keys) /\ Len(q) = n - 1
  BY ScannedEntries
<1>4. DOMAIN q = 1..(n - 1)
  BY <1>1, <1>3
<1>5. \A j \in 1..(n - 1) : at(j) \in 1..n /\ at(j) # v /\ q[j] = o[at(j)]
  <2>1. \A j \in 1..(n - 1) : q[j] = o[at(j)]
    BY ScannedEntries
  <2>2. \A j \in 1..(n - 1) : at(j) \in 1..n /\ at(j) # v
    BY <1>1
  <2> QED BY <2>1, <2>2
<1>6. \A j, l \in 1..(n - 1) : at(j) = at(l) => j = l
  BY <1>1
<1>7. \A l \in 1..n : l # v => \E j \in 1..(n - 1) : at(j) = l
  <2> SUFFICES ASSUME NEW l \in 1..n, l # v PROVE \E j \in 1..(n - 1) : at(j) = l
    OBVIOUS
  <2>1. CASE l > v
    <3>1. at(l - v) = l /\ l - v \in 1..(n - 1)
      BY <1>1, <2>1
    <3> QED BY <3>1
  <2>2. CASE l < v
    <3>1. at(l + (n - v)) = l /\ l + (n - v) \in 1..(n - 1)
      BY <1>1, <2>2
    <3> QED BY <3>1
  <2> QED BY <1>1, <2>1, <2>2
<1> HIDE DEF at
<1>8. Keyset(q) = Keyset(o) \ {o[v]}
  <2>1. \A x : x \in Keyset(q) => x \in Keyset(o) \ {o[v]}
    BY <1>1, <1>4, <1>5 DEF Keyset, Distinct
  <2>2. \A x : x \in Keyset(o) \ {o[v]} => x \in Keyset(q)
    BY <1>1, <1>4, <1>5, <1>7 DEF Keyset
  <2> QED BY <2>1, <2>2
<1>9. Distinct(q)
  BY <1>1, <1>4, <1>5, <1>6 DEF Distinct
<1> QED BY <1>3, <1>8, <1>9

\* A list that matches the map.
Matches(o, c) == Len(o) <= MaxSize /\ Keyset(o) = DOMAIN c /\ Distinct(o)

LEMMA MatchesSays == ListMatchesMap <=> Matches(order, cache)
BY DEF ListMatchesMap, Matches, Keyset, Distinct

LEMMA MatchesSaysNext == ListMatchesMap' <=> Matches(order', cache')
BY DEF ListMatchesMap, Matches, Keyset, Distinct

\* Set makes room for one more entry, in the list and in the map alike; what it
\* evicts was not referenced, unless everything was.
LEMMA MakeRoomMatches ==
    ASSUME NEW o \in Seq(Keys), NEW c, Matches(o, c), NEW room, room = MakeRoom(o, c)
    PROVE  /\ room.order \in Seq(Keys) /\ Len(room.order) < MaxSize
           /\ Matches(room.order, room.cache)
           /\ DOMAIN room.cache \subseteq DOMAIN c
           /\ \A k \in DOMAIN c \ DOMAIN room.cache :
                c[k].ref => \A l \in DOMAIN c : c[l].ref
<1>0. Len(o) \in Nat /\ MaxSize \in Nat /\ MaxSize > 0
  BY SizeAssumption
<1>1. CASE ~(Len(o) >= MaxSize)
  BY <1>0, <1>1 DEF MakeRoom
<1>2. CASE Len(o) >= MaxSize
  <2> DEFINE v == Victim(o, c)
  <2>1. o # <<>>
    BY <1>0, <1>2
  <2>2. v \in DOMAIN o /\ (~c[o[v]].ref \/ \A i \in DOMAIN o : c[o[i]].ref)
    BY <2>1, VictimInList
  <2>3. room.order = ScannedOrder(o, v) /\ room.cache = ScannedCache(o, c, v)
    BY <1>2 DEF MakeRoom, Scanned
  <2> HIDE DEF v
  <2>4. /\ room.order \in Seq(Keys) /\ Len(room.order) = Len(o) - 1
        /\ Keyset(room.order) = Keyset(o) \ {o[v]} /\ Distinct(room.order)
    BY <2>2, <2>3, ScannedList DEF Matches
  <2>5. DOMAIN room.cache = DOMAIN c \ {o[v]}
    BY <2>3 DEF ScannedCache
  <2>6. Len(o) <= MaxSize /\ Keyset(o) = DOMAIN c
    BY DEF Matches
  <2>7. Matches(room.order, room.cache)
    BY <1>0, <2>4, <2>5, <2>6 DEF Matches
  <2>8. \A k \in DOMAIN c \ DOMAIN room.cache : c[k].ref => \A l \in DOMAIN c : c[l].ref
    <3>1. (\A i \in DOMAIN o : c[o[i]].ref) => \A l \in DOMAIN c : c[l].ref
      BY <2>6 DEF Keyset
    <3> QED BY <2>2, <2>5, <3>1
  <2> QED BY <1>0, <2>4, <2>5, <2>6, <2>7, <2>8
<1> QED BY <1>1, <1>2

\* A key in front of the others.
LEMMA PutInFront ==
    ASSUME NEW o \in Seq(Keys), Distinct(o), NEW k \in Keys, k \notin Keyset(o),
           NEW q, q = <<k>> \o o
    PROVE  Len(q) = Len(o) + 1 /\ Keyset(q) = Keyset(o) \cup {k} /\ Distinct(q)
<1> DEFINE n == Len(o)
<1>1. n \in Nat /\ DOMAIN o = 1..n
  OBVIOUS
<1>2. q \in Seq(Keys) /\ Len(q) = n + 1 /\ q[1] = k /\ \A j \in 1..n : q[j + 1] = o[j]
  OBVIOUS
<1>3. DOMAIN q = 1..(n + 1)
  BY <1>1, <1>2
<1>4. \A j \in 1..(n + 1) : j = 1 \/ (j - 1 \in 1..n /\ q[j] = o[j - 1])
  <2> SUFFICES ASSUME NEW j \in 1..(n + 1), j # 1 PROVE j - 1 \in 1..n /\ q[j] = o[j - 1]
    OBVIOUS
  <2>1. j - 1 \in 1..n /\ (j - 1) + 1 = j
    BY <1>1
  <2> QED BY <1>2, <2>1
<1>5. \A j \in 1..n : j + 1 \in 1..(n + 1) /\ q[j + 1] = o[j]
  BY <1>1, <1>2
<1>6. Keyset(q) = Keyset(o) \cup {k}
  <2>1. 1 \in 1..(n + 1)
    BY <1>1
  <2>2. \A x : x \in Keyset(q) => x \in Keyset(o) \cup {k}
    BY <1>1, <1>2, <1>3, <1>4 DEF Keyset
  <2>3. k \in Keyset(q)
    BY <1>2, <1>3, <2>1 DEF Keyset
  <2>4. \A x : x \in Keyset(o) => x \in Keyset(q)
    BY <1>1, <1>3, <1>5 DEF Keyset
  <2> QED BY <2>2, <2>3, <2>4
<1>7. Distinct(q)
  <2> SUFFICES ASSUME NEW i \in 1..(n + 1), NEW j \in 1..(n + 1), q[i] = q[j] PROVE i = j
    BY <1>3 DEF Distinct
  <2>1. \A l \in 1..n : o[l] # k
    BY <1>1 DEF Keyset
  <2>2. \A l, m \in 1..n : o[l] = o[m] => l = m
    BY <1>1 DEF Distinct
  <2>3. CASE i = 1 \/ j = 1
    <3>1. \A l \in 1..(n + 1) : l # 1 => q[l] # k
      BY <1>4, <2>1
    <3> QED BY <1>2, <2>3, <3>1
  <2>4. CASE i # 1 /\ j # 1
    <3>1. i - 1 = j - 1
      BY <1>4, <2>2, <2>4
    <3> QED BY <1>1, <3>1
  <2> QED BY <2>3, <2>4
<1> QED BY <1>2, <1>6, <1>7

\* Set keeps the list and the map together, within the limit, and evicts fairly.
LEMMA CacheSetMatches ==
    ASSUME RTypeOK, ListMatchesMap, NEW k \in Keys, NEW egress, CacheSet(k, egress)
    PROVE  /\ ListMatchesMap'
           /\ \A x \in DOMAIN cache \ DOMAIN cache' :
                cache[x].ref => \A l \in DOMAIN cache : cache[l].ref
<1>0. order \in Seq(Keys) /\ Matches(order, cache)
  BY MatchesSays DEF RTypeOK
<1>1. CASE k \in DOMAIN cache
  <2>1. PICK i \in DOMAIN order :
           order[i] = k /\ order' = ToFront(order, i)
    BY <1>1 DEF CacheSet, ToFront
  <2>2. Len(order') = Len(order) /\ Keyset(order') = Keyset(order) /\ Distinct(order')
    BY <1>0, <2>1, MovedToFront DEF Matches
  <2>3. DOMAIN cache' = DOMAIN cache
    BY <1>1 DEF CacheSet
  <2>4. Matches(order', cache')
    BY <1>0, <2>2, <2>3 DEF Matches
  <2> QED BY <2>3, <2>4, MatchesSaysNext
<1>2. CASE k \notin DOMAIN cache
  <2> DEFINE room == MakeRoom(order, cache)
  <2>1. /\ room.order \in Seq(Keys) /\ Len(room.order) < MaxSize
        /\ Matches(room.order, room.cache)
        /\ DOMAIN room.cache \subseteq DOMAIN cache
        /\ \A x \in DOMAIN cache \ DOMAIN room.cache :
             cache[x].ref => \A l \in DOMAIN cache : cache[l].ref
    BY <1>0, MakeRoomMatches
  <2>2. order' = <<k>> \o room.order /\ DOMAIN cache' = DOMAIN room.cache \cup {k}
    BY <1>2 DEF CacheSet
  <2> HIDE DEF room
  <2>3. k \notin Keyset(room.order) /\ Distinct(room.order)
    BY <1>2, <2>1 DEF Matches
  <2>4. /\ Len(order') = Len(room.order) + 1
        /\ Keyset(order') = Keyset(room.order) \cup {k} /\ Distinct(order')
    BY <2>1, <2>2, <2>3, PutInFront
  <2>5. Len(room.order) \in Nat /\ MaxSize \in Nat
    BY <2>1, SizeAssumption
  <2>6. Matches(order', cache')
    BY <2>1, <2>2, <2>4, <2>5 DEF Matches
  <2> QED BY <2>1, <2>2, <2>6, MatchesSaysNext
<1> QED BY <1>1, <1>2

\* What a step may do to the list and the map.
LEMMA CacheSteps ==
    ASSUME RInv, [RNext]_vars
    PROVE  \/ order' = order /\ DOMAIN cache' = DOMAIN cache
           \/ order' = <<>> /\ DOMAIN cache' = {} /\ version' = version + 1
           \/ \E k \in Keys, egress \in STRING : CacheSet(k, egress)
<1>1. ASSUME NEW p \in Readers, NEW d \in Dsts, Hit(p, d)
      PROVE  order' = order /\ DOMAIN cache' = DOMAIN cache
  BY <1>1 DEF Hit
<1>2. ASSUME NEW p \in Readers, (\E d \in Dsts : Miss(p, d)) \/ Match(p)
      PROVE  order' = order /\ DOMAIN cache' = DOMAIN cache
  BY <1>2 DEF Miss, Match, cacheVars
<1>3. ASSUME NEW p \in Readers, Store(p)
      PROVE  \E k \in Keys, egress \in STRING : CacheSet(k, egress)
  <2>1. asked[p] \in Dsts /\ found[p] \in STRING
    BY <1>3 DEF Store, RInv, RTypeOK, FoundIsCurrent
  <2>2. Normal[asked[p]] \in Keys
    BY <2>1, RuleShape
  <2> QED BY <1>3, <2>1, <2>2 DEF Store
<1>4. ASSUME NEW w \in Writers, WriterStep(w)
      PROVE  \/ order' = order /\ DOMAIN cache' = DOMAIN cache
             \/ order' = <<>> /\ DOMAIN cache' = {} /\ version' = version + 1
  <2>1. CASE \/ \E table \in Tables : SetRoutes(w, table)
             \/ \E rule \in Rules : AddToFirstRoute(w, rule) \/ AddToLastRoute(w, rule)
             \/ GenerateCache(w) \/ BuildFails(w) \/ RetryRegen(w) \/ Build(w)
    BY <2>1 DEF SetRoutes, AddToFirstRoute, AddToLastRoute, GenerateCache, BuildFails,
                RetryRegen, Build, Start, cacheVars
  <2>2. CASE CommitSet(w) \/ CommitFirst(w) \/ CommitLast(w) \/ CommitRegen(w)
    BY <2>2 DEF CommitSet, CommitFirst, CommitLast, CommitRegen, Commit, CacheReset
  <2> QED BY <1>4, <2>1, <2>2 DEF WriterStep
<1>5. CASE UNCHANGED vars
  BY <1>5 DEF vars, cacheVars
<1> QED BY <1>1, <1>2, <1>3, <1>4, <1>5 DEF RNext, ReaderStep

\* Every step keeps the list and the map together and evicts fairly.
LEMMA ListNext ==
    ASSUME RInv, ListMatchesMap, [RNext]_vars
    PROVE  /\ ListMatchesMap'
           /\ version' = version =>
                \A x \in DOMAIN cache \ DOMAIN cache' :
                    cache[x].ref => \A l \in DOMAIN cache : cache[l].ref
<1>1. CASE order' = order /\ DOMAIN cache' = DOMAIN cache
  BY <1>1 DEF ListMatchesMap
<1>2. CASE order' = <<>> /\ DOMAIN cache' = {} /\ version' = version + 1
  <2>1. version \in Nat
    BY DEF RInv, RTypeOK
  <2>2. ListMatchesMap'
    BY <1>2, SizeAssumption DEF ListMatchesMap
  <2> QED BY <1>2, <2>1, <2>2
<1>3. CASE \E k \in Keys, egress \in STRING : CacheSet(k, egress)
  BY <1>3, CacheSetMatches DEF RInv
<1> QED BY <1>1, <1>2, <1>3, CacheSteps

\* The CLOCK list and the map hold the same keys, each once, and never more than
\* maxCacheSize, whatever lookups and updates run at once.
THEOREM ListAndMapAgree == RSpec => []ListMatchesMap
<1>1. RInit => ListMatchesMap
  BY SizeAssumption DEF RInit, ListMatchesMap
<1>2. RInv /\ ListMatchesMap /\ [RNext]_vars => ListMatchesMap'
  BY ListNext
<1> QED BY <1>1, <1>2, RouterInvariant, PTL DEF RSpec

\* An entry that was looked up is evicted only when all of them were.
THEOREM ReferencedSurvives == RSpec => SecondChance
<1>1. RInv /\ ListMatchesMap /\ [RNext]_vars =>
        [\A k \in DOMAIN cache :
           version' = version /\ k \notin DOMAIN cache' /\ cache[k].ref =>
               \A l \in DOMAIN cache : cache[l].ref]_vars
  BY ListNext
<1> QED BY <1>1, RouterInvariant, ListAndMapAgree, PTL DEF RSpec, SecondChance
----------------------------------------------------------------------------
(* The eviction loop of Set, and the one step the model takes for it.         *)

\* Where n turns that passed an entry lead: the last n entries are in front, in the
\* order they had, and their bits are cleared.
Turned(o, c, n) ==
    [order |-> SubSeq(o, Len(o) - n + 1, Len(o)) \o SubSeq(o, 1, Len(o) - n),
     cache |-> [k \in DOMAIN c |->
                  IF \E i \in (Len(o) - n + 1)..Len(o) : k = o[i]
                  THEN [c[k] EXCEPT !.ref = FALSE] ELSE c[k]]]

\* Lists with the same entries are the same list.
LEMMA SameList ==
    ASSUME NEW s \in Seq(Keys), NEW t \in Seq(Keys), Len(s) = Len(t),
           \A i \in 1..Len(s) : s[i] = t[i]
    PROVE  s = t
OBVIOUS

\* The entries of the list after n turns.
LEMMA TurnedList ==
    ASSUME NEW o \in Seq(Keys), NEW c, NEW n \in 0..Len(o), NEW q, q = Turned(o, c, n).order
    PROVE  /\ q \in Seq(Keys) /\ Len(q) = Len(o)
           /\ \A j \in 1..n : q[j] = o[Len(o) - n + j]
           /\ \A j \in (n + 1)..Len(o) : q[j] = o[j - n]
<1> DEFINE l == Len(o)
           tail == SubSeq(o, l - n + 1, l)
           head == SubSeq(o, 1, l - n)
<1>1. l \in Nat /\ n \in Nat /\ n <= l /\ l - n \in Nat
  OBVIOUS
<1>2. tail \in Seq(Keys) /\ Len(tail) = n /\ \A j \in 1..n : tail[j] = o[l - n + j]
  <2>1. l - n + 1 \in Nat /\ 1 <= l - n + 1 /\ l - n + 1 <= l + 1
    BY <1>1
  <2>2. /\ tail \in Seq(Keys) /\ Len(tail) = l - (l - n + 1) + 1
        /\ \A j \in 1..(l - (l - n + 1) + 1) : tail[j] = o[(l - n + 1) + j - 1]
    BY <1>1, <2>1, PartOf
  <2>3. l - (l - n + 1) + 1 = n /\ \A j \in 1..n : (l - n + 1) + j - 1 = l - n + j
    BY <1>1
  <2> HIDE DEF tail
  <2> QED BY <2>2, <2>3
<1>3. head \in Seq(Keys) /\ Len(head) = l - n /\ \A j \in 1..(l - n) : head[j] = o[j]
  BY <1>1
<1>4. q = tail \o head
  BY DEF Turned
<1> HIDE DEF tail, head
<1>5. q \in Seq(Keys) /\ Len(q) = l
  <2>1. tail \in Seq(Keys) /\ head \in Seq(Keys) /\ Len(tail) = n /\ Len(head) = l - n
    BY <1>2, <1>3
  <2>2. q \in Seq(Keys) /\ Len(q) = n + (l - n)
    BY <1>4, <2>1
  <2> QED BY <1>1, <2>2
<1>6. \A j \in 1..n : q[j] = tail[j]
  BY <1>1, <1>2, <1>3, <1>4
<1>7. \A j \in (n + 1)..l : q[j] = head[j - n]
  BY <1>1, <1>2, <1>3, <1>4
<1>8. \A j \in (n + 1)..l : j - n \in 1..(l - n)
  BY <1>1
<1> QED BY <1>2, <1>3, <1>5, <1>6, <1>7, <1>8

\* The back of the list after n turns is the entry the loop has come to.
LEMMA TurnedBack ==
    ASSUME NEW o \in Seq(Keys), o # <<>>, NEW c, NEW n \in 0..Len(o),
           NEW s, s = Turned(o, c, n)
    PROVE  s.order[Len(s.order)] = IF n = Len(o) THEN o[Len(o)] ELSE o[Len(o) - n]
<1>1. Len(o) \in Nat /\ Len(o) > 0 /\ n \in Nat /\ n <= Len(o)
  OBVIOUS
<1>2. /\ Len(s.order) = Len(o)
      /\ \A j \in 1..n : s.order[j] = o[Len(o) - n + j]
      /\ \A j \in (n + 1)..Len(o) : s.order[j] = o[j - n]
  BY TurnedList
<1>3. CASE n = Len(o)
  <2>1. Len(o) \in 1..n /\ Len(o) - n + Len(o) = Len(o)
    BY <1>1, <1>3
  <2> QED BY <1>2, <1>3, <2>1
<1>4. CASE n < Len(o)
  <2>1. Len(o) \in (n + 1)..Len(o)
    BY <1>1, <1>4
  <2> QED BY <1>1, <1>2, <1>4, <2>1
<1> QED BY <1>1, <1>3, <1>4

\* A turn that passes the back leads from n turns to the next.
LEMMA TurnedNext ==
    ASSUME NEW o \in Seq(Keys), NEW c, IsCache(c), Keyset(o) = DOMAIN c, Distinct(o),
           NEW n \in 1..Len(o)
    PROVE  Turned(o, c, n) = PassBack(Turned(o, c, n - 1))
<1> DEFINE l == Len(o)
           s == Turned(o, c, n - 1)
           t == Turned(o, c, n)
           back == s.order[Len(s.order)]
<1>1. l \in Nat /\ n \in Nat /\ n >= 1 /\ n <= l /\ n - 1 \in 0..l /\ n \in 0..l /\ o # <<>>
  OBVIOUS
<1>2. back = o[l - n + 1] /\ l - n + 1 \in DOMAIN o
  <2>1. back = IF n - 1 = l THEN o[l] ELSE o[l - (n - 1)]
    BY <1>1, TurnedBack
  <2> QED BY <1>1, <2>1
<1>3. /\ s.order \in Seq(Keys) /\ Len(s.order) = l
      /\ \A j \in 1..(n - 1) : s.order[j] = o[l - (n - 1) + j]
      /\ \A j \in ((n - 1) + 1)..l : s.order[j] = o[j - (n - 1)]
  BY <1>1, TurnedList
<1>4. /\ t.order \in Seq(Keys) /\ Len(t.order) = l
      /\ \A j \in 1..n : t.order[j] = o[l - n + j]
      /\ \A j \in (n + 1)..l : t.order[j] = o[j - n]
  BY <1>1, TurnedList
<1>5. /\ s.cache = [k \in DOMAIN c |->
                      IF \E i \in (l - (n - 1) + 1)..l : k = o[i]
                      THEN [c[k] EXCEPT !.ref = FALSE] ELSE c[k]]
      /\ t.cache = [k \in DOMAIN c |->
                      IF \E i \in (l - n + 1)..l : k = o[i]
                      THEN [c[k] EXCEPT !.ref = FALSE] ELSE c[k]]
  BY DEF Turned
<1>6. t = [order |-> t.order, cache |-> t.cache]
  BY DEF Turned
<1>7. PassBack(s) = [order |-> <<back>> \o SubSeq(s.order, 1, l - 1),
                     cache |-> [s.cache EXCEPT ![back].ref = FALSE]]
  BY <1>3 DEF PassBack
<1> HIDE DEF s, t, back
<1>8. t.order = <<back>> \o SubSeq(s.order, 1, l - 1)
  <2> DEFINE r == SubSeq(s.order, 1, l - 1)
             q == <<back>> \o r
  <2>1. r \in Seq(Keys) /\ Len(r) = l - 1 /\ \A j \in 1..(l - 1) : r[j] = s.order[j]
    <3>1. l - 1 \in Nat /\ 1 <= (l - 1) + 1 /\ l - 1 <= Len(s.order) /\ (l - 1) - 1 + 1 = l - 1
      BY <1>1, <1>3
    <3>2. /\ r \in Seq(Keys) /\ Len(r) = (l - 1) - 1 + 1
          /\ \A j \in 1..((l - 1) - 1 + 1) : r[j] = s.order[1 + j - 1]
      BY <1>3, <3>1, PartOf
    <3>3. \A j \in 1..(l - 1) : 1 + j - 1 = j
      BY <1>1
    <3> HIDE DEF r
    <3> QED BY <3>1, <3>2, <3>3
  <2>2. back \in Keys
    BY <1>2
  <2> HIDE DEF r
  <2>3. q \in Seq(Keys) /\ Len(q) = l /\ q[1] = back /\ \A j \in 2..l : q[j] = r[j - 1]
    BY <1>1, <2>1, <2>2
  <2> HIDE DEF q
  <2>4. ASSUME NEW j \in 1..l PROVE t.order[j] = q[j]
    <3>1. CASE j = 1
      <4>1. j \in 1..n /\ l - n + j = l - n + 1
        BY <1>1, <3>1
      <4> QED BY <1>2, <1>4, <2>3, <3>1, <4>1
    <3>2. CASE j # 1 /\ j <= n
      <4>1. j \in 1..n /\ j \in 2..l /\ j - 1 \in 1..(l - 1) /\ j - 1 \in 1..(n - 1)
        BY <1>1, <3>2
      <4>2. l - (n - 1) + (j - 1) = l - n + j
        BY <1>1
      <4>3. q[j] = s.order[j - 1]
        BY <2>1, <2>3, <4>1
      <4>4. s.order[j - 1] = o[l - n + j]
        BY <1>3, <4>1, <4>2
      <4> QED BY <1>4, <4>1, <4>3, <4>4
    <3>3. CASE j > n
      <4>1. /\ j \in (n + 1)..l /\ j \in 2..l /\ j - 1 \in 1..(l - 1)
            /\ j - 1 \in ((n - 1) + 1)..l
        BY <1>1, <3>3
      <4>2. (j - 1) - (n - 1) = j - n
        BY <1>1
      <4>3. q[j] = s.order[j - 1]
        BY <2>1, <2>3, <4>1
      <4>4. s.order[j - 1] = o[j - n]
        BY <1>3, <4>1, <4>2
      <4> QED BY <1>4, <4>1, <4>3, <4>4
    <3> QED BY <1>1, <3>1, <3>2, <3>3
  <2>5. t.order = q
    BY <1>4, <2>3, <2>4, SameList
  <2> QED BY <2>5 DEF q, r
<1>9. t.cache = [s.cache EXCEPT ![back].ref = FALSE]
  <2>1. \A i, j \in 1..l : o[i] = o[j] => i = j
    BY DEF Distinct
  <2>2. \A k : (\E i \in (l - n + 1)..l : k = o[i]) <=>
               (k = back \/ \E i \in (l - (n - 1) + 1)..l : k = o[i])
    <3>1. \A i \in (l - n + 1)..l : i = l - n + 1 \/ i \in (l - (n - 1) + 1)..l
      BY <1>1
    <3>2. \A i \in (l - (n - 1) + 1)..l : i \in (l - n + 1)..l
      BY <1>1
    <3>3. l - n + 1 \in (l - n + 1)..l
      BY <1>1
    <3> QED BY <1>2, <3>1, <3>2, <3>3
  <2>3. ~\E i \in (l - (n - 1) + 1)..l : back = o[i]
    <3>1. \A i \in (l - (n - 1) + 1)..l : i \in 1..l /\ i # l - n + 1
      BY <1>1
    <3>2. l - n + 1 \in 1..l
      BY <1>1
    <3> QED BY <1>2, <2>1, <3>1, <3>2
  <2>4. back \in DOMAIN c
    BY <1>2 DEF Keyset
  <2>5. s.cache[back] = c[back]
    BY <1>5, <2>3, <2>4
  <2> DEFINE G(k) == IF \E i \in (l - n + 1)..l : k = o[i] THEN [c[k] EXCEPT !.ref = FALSE] ELSE c[k]
             H(k) == IF k = back THEN [c[back] EXCEPT !.ref = FALSE] ELSE s.cache[k]
  <2>6. [s.cache EXCEPT ![back].ref = FALSE] = [k \in DOMAIN c |-> H(k)]
    BY <1>5, <2>4, <2>5
  <2>7. ASSUME NEW k \in DOMAIN c PROVE G(k) = H(k)
    <3>1. CASE k = back
      BY <2>2, <3>1
    <3>2. CASE k # back
      <4>1. s.cache[k] = IF \E i \in (l - (n - 1) + 1)..l : k = o[i]
                         THEN [c[k] EXCEPT !.ref = FALSE] ELSE c[k]
        BY <1>5
      <4> QED BY <2>2, <3>2, <4>1
    <3> QED BY <3>1, <3>2
  <2>8. t.cache = [k \in DOMAIN c |-> G(k)]
    BY <1>5
  <2> HIDE DEF G, H
  <2> QED BY <2>6, <2>7, <2>8
<1>10. t = PassBack(s)
  BY <1>6, <1>7, <1>8, <1>9
<1> QED BY <1>10 DEF s, t

\* No turn leaves the list and the map as they are.
LEMMA TurnedNone ==
    ASSUME NEW o \in Seq(Keys), NEW c, IsCache(c)
    PROVE  Turned(o, c, 0) = [order |-> o, cache |-> c]
<1> DEFINE l == Len(o)
<1>1. l \in Nat
  OBVIOUS
<1>2. Turned(o, c, 0) = [order |-> o, cache |-> c]
  <2>1. SubSeq(o, l - 0 + 1, l) \o SubSeq(o, 1, l - 0) = o
    <3> DEFINE q == Turned(o, c, 0).order
    <3>1. 0 \in 0..Len(o)
      BY <1>1
    <3>2. q \in Seq(Keys) /\ Len(q) = Len(o) /\ \A j \in (0 + 1)..Len(o) : q[j] = o[j - 0]
      BY <3>1, TurnedList
    <3>3. \A j \in 1..Len(o) : j \in (0 + 1)..Len(o) /\ j - 0 = j
      BY <1>1
    <3>4. q = SubSeq(o, l - 0 + 1, l) \o SubSeq(o, 1, l - 0)
      BY DEF Turned
    <3> HIDE DEF q
    <3>5. q = o
      BY <3>2, <3>3, SameList
    <3> QED BY <3>4, <3>5
  <2>2. ~\E i \in (l - 0 + 1)..l : TRUE
    BY <1>1
  <2>3. [k \in DOMAIN c |-> c[k]] = c
    BY DEF IsCache
  <2>4. [k \in DOMAIN c |-> IF \E i \in (l - 0 + 1)..l : k = o[i]
                            THEN [c[k] EXCEPT !.ref = FALSE] ELSE c[k]] = c
    BY <2>2, <2>3
  <2> QED BY <2>1, <2>4 DEF Turned
<1> QED BY <1>2

\* The recursion of the loop has a solution, and it is the one given by Turned.
LEMMA TurnsFollow ==
    ASSUME NEW o \in Seq(Keys), NEW c, IsCache(c), Keyset(o) = DOMAIN c, Distinct(o)
    PROVE  Turns(o, c) = [n \in 0..Len(o) |->
                            IF n = 0 THEN [order |-> o, cache |-> c]
                            ELSE PassBack(Turns(o, c)[n - 1])]
<1> DEFINE l == Len(o)
           Solves(f) == f = [n \in 0..l |-> IF n = 0 THEN [order |-> o, cache |-> c]
                                            ELSE PassBack(f[n - 1])]
           g == [n \in 0..l |-> Turned(o, c, n)]
<1>1. l \in Nat
  OBVIOUS
<1>2. Turned(o, c, 0) = [order |-> o, cache |-> c]
  BY TurnedNone
<1>3. ASSUME NEW n \in 0..l
      PROVE  g[n] = IF n = 0 THEN [order |-> o, cache |-> c] ELSE PassBack(g[n - 1])
  <2>1. CASE n = 0
    BY <1>2, <2>1
  <2>2. CASE n # 0
    <3>1. n \in 1..l /\ n - 1 \in 0..l
      BY <1>1, <2>2
    <3>2. Turned(o, c, n) = PassBack(Turned(o, c, n - 1))
      BY <3>1, TurnedNext
    <3> QED BY <2>2, <3>1, <3>2
  <2> QED BY <2>1, <2>2
<1>4. Solves(g)
  <2> DEFINE G(n) == IF n = 0 THEN [order |-> o, cache |-> c] ELSE PassBack(g[n - 1])
  <2>1. \A n \in 0..l : g[n] = G(n)
    BY <1>3
  <2>2. g = [n \in 0..l |-> g[n]]
    OBVIOUS
  <2> HIDE DEF G, g
  <2>3. g = [n \in 0..l |-> G(n)]
    BY <2>1, <2>2
  <2> QED BY <2>3 DEF G
<1>5. Turns(o, c) = CHOOSE f : Solves(f)
  BY DEF Turns
<1> HIDE DEF Solves, g
<1>6. Solves(Turns(o, c))
  BY <1>4, <1>5
<1> QED BY <1>6 DEF Solves

\* Before each turn the loop is where Turned says: no turn is the first that is not.
LEMMA TurnsAreTurned ==
    ASSUME NEW o \in Seq(Keys), NEW c, IsCache(c), Keyset(o) = DOMAIN c, Distinct(o),
           NEW n \in 0..Len(o)
    PROVE  Turns(o, c)[n] = Turned(o, c, n)
<1> DEFINE l == Len(o)
           Wrong == {m \in 0..l : Turns(o, c)[m] # Turned(o, c, m)}
<1>1. l \in Nat
  OBVIOUS
<1>2. \A m \in 0..l : Turns(o, c)[m] = IF m = 0 THEN [order |-> o, cache |-> c]
                                        ELSE PassBack(Turns(o, c)[m - 1])
  BY TurnsFollow
<1>3. ASSUME Wrong # {} PROVE FALSE
  <2>0. Wrong \subseteq Nat
    BY <1>1
  <2>1. PICK m \in Wrong : \A j \in Wrong : m <= j
    <3> HIDE DEF Wrong
    <3> QED BY <1>3, <2>0, LeastNatural
  <2>2. m \in 0..l /\ Turns(o, c)[m] # Turned(o, c, m)
    OBVIOUS
  <2>3. CASE m = 0
    <3>1. 0 \in 0..l
      BY <1>1
    <3>2. Turns(o, c)[0] = [order |-> o, cache |-> c]
      BY <1>2, <3>1
    <3> QED BY <2>2, <2>3, <3>2, TurnedNone
  <2>4. CASE m # 0
    <3>1. m \in 1..l /\ m - 1 \in 0..l /\ ~(m <= m - 1)
      BY <1>1, <2>2, <2>4
    <3>2. Turns(o, c)[m - 1] = Turned(o, c, m - 1)
      BY <2>1, <3>1
    <3>3. Turns(o, c)[m] = PassBack(Turned(o, c, m - 1))
      BY <1>2, <2>2, <2>4, <3>2
    <3>4. Turned(o, c, m) = PassBack(Turned(o, c, m - 1))
      BY <3>1, TurnedNext
    <3> QED BY <2>2, <3>3, <3>4
  <2> QED BY <2>3, <2>4
<1> QED BY <1>3

\* The map after n turns: the bits of the last n entries are cleared, no other changed.
LEMMA TurnedBits ==
    ASSUME NEW o \in Seq(Keys), NEW c, Keyset(o) = DOMAIN c, Distinct(o),
           NEW n \in 0..Len(o), NEW j \in DOMAIN o
    PROVE  Turned(o, c, n).cache[o[j]] =
             IF j > Len(o) - n THEN [c[o[j]] EXCEPT !.ref = FALSE] ELSE c[o[j]]
<1>1. Len(o) \in Nat /\ n \in Nat /\ n <= Len(o) /\ j \in 1..Len(o)
  OBVIOUS
<1>2. (\E i \in (Len(o) - n + 1)..Len(o) : o[j] = o[i]) <=> j > Len(o) - n
  <2>1. ASSUME NEW i \in (Len(o) - n + 1)..Len(o), o[j] = o[i] PROVE j > Len(o) - n
    <3>1. i \in DOMAIN o
      BY <1>1
    <3>2. j = i
      BY <2>1, <3>1 DEF Distinct
    <3> QED BY <1>1, <3>2
  <2>2. ASSUME j > Len(o) - n PROVE \E i \in (Len(o) - n + 1)..Len(o) : o[j] = o[i]
    <3>1. j \in (Len(o) - n + 1)..Len(o)
      BY <1>1, <2>2
    <3> QED BY <3>1
  <2> QED BY <2>1, <2>2
<1>3. o[j] \in DOMAIN c
  BY DEF Keyset
<1> QED BY <1>2, <1>3 DEF Turned

\* The loop ends within a round, and what it leaves is what Scanned says.
LEMMA LoopIsScan ==
    ASSUME NEW o \in Seq(Keys), o # <<>>, NEW c, IsCache(c), Keyset(o) = DOMAIN c, Distinct(o)
    PROVE  \E n \in 0..Len(o) :
              /\ \A m \in 0..(n - 1) : BackReferenced(Turns(o, c)[m])
              /\ ~BackReferenced(Turns(o, c)[n])
              /\ Scanned(o, c) = TakeBack(Turns(o, c)[n])
<1>l. PICK l \in Nat : l = Len(o)
  OBVIOUS
<1> DEFINE v == Victim(o, c)
           All == \A i \in DOMAIN o : c[o[i]].ref
<1>1. l \in Nat /\ l > 0 /\ DOMAIN o = 1..l
  BY <1>l
<1>2. /\ v \in 1..l
      /\ All \/ (~c[o[v]].ref /\ \A j \in (v + 1)..l : c[o[j]].ref)
  BY <1>l, VictimInList
<1>3. All => v = l
  BY <1>l DEF Victim
<1> HIDE DEF v
<1>11. v \in Nat /\ 1 <= v /\ v <= l
  <2>1. v \in 1..l
    BY <1>2
  <2> QED BY <1>1, <2>1
<1>4. PICK n \in 0..l : /\ n = l => All /\ v = l
                        /\ n # l => ~All /\ n = l - v
  <2>1. CASE All
    <3>1. l \in 0..l
      BY <1>1
    <3> QED BY <1>3, <2>1, <3>1
  <2>2. CASE ~All
    <3>1. l - v \in 0..l /\ l - v # l
      BY <1>1, <1>11
    <3> QED BY <2>2, <3>1
  <2> QED BY <2>1, <2>2
<1> DEFINE s == Turned(o, c, n)
<1>0. /\ l \in Nat /\ l > 0 /\ v \in Nat /\ 1 <= v /\ v <= l /\ n \in Nat /\ n <= l
      /\ n = l => v = l
      /\ n # l => n = l - v
  <2>1. n \in 0..l
    OBVIOUS
  <2> QED BY <1>1, <1>4, <1>11, <2>1
<1>5. \A j \in (l - n + 1)..l : c[o[j]].ref
  <2>1. CASE n = l
    <3>1. \A j \in (l - n + 1)..l : j \in DOMAIN o
      BY <1>0, <1>1, <2>1
    <3> QED BY <1>4, <2>1, <3>1
  <2>2. CASE n # l
    <3>1. l - n = v
      BY <1>0, <2>2
    <3> QED BY <1>2, <1>4, <2>2, <3>1
  <2> QED BY <2>1, <2>2
<1>6. s.order[Len(s.order)] = o[v]
  <2>1. s.order[Len(s.order)] = IF n = l THEN o[l] ELSE o[l - n]
    BY <1>l, <1>4, TurnedBack
  <2>2. (IF n = l THEN o[l] ELSE o[l - n]) = o[v]
    <3>1. CASE n = l
      BY <1>4, <1>3, <3>1
    <3>2. CASE n # l
      <4>1. n # l /\ l - n = v
        BY <1>0, <3>2
      <4> QED BY <4>1
    <3> QED BY <1>4, <3>1, <3>2
  <2> QED BY <2>1, <2>2
<1>7. \A m \in 0..(n - 1) : BackReferenced(Turns(o, c)[m])
  <2> SUFFICES ASSUME NEW m \in 0..(n - 1) PROVE BackReferenced(Turns(o, c)[m])
    OBVIOUS
  <2>1. m \in 0..l /\ m # l /\ l - m \in (l - n + 1)..l /\ l - m \in DOMAIN o /\ ~(l - m > l - m)
    <3>1. m \in Int /\ n \in Int /\ 0 <= m /\ m <= n - 1 /\ n <= l
      BY <1>0
    <3> QED BY <1>1, <3>1
  <2>2. Turns(o, c)[m] = Turned(o, c, m)
    BY <1>l, <2>1, TurnsAreTurned
  <2>3. Turned(o, c, m).order[Len(Turned(o, c, m).order)] = o[l - m]
    BY <1>l, <2>1, TurnedBack
  <2>4. Turned(o, c, m).cache[o[l - m]] = c[o[l - m]]
    BY <1>l, <2>1, TurnedBits
  <2>5. c[o[l - m]].ref
    BY <1>5, <2>1
  <2> QED BY <2>2, <2>3, <2>4, <2>5 DEF BackReferenced
<1>8. Turns(o, c)[n] = s
  BY <1>l, <1>4, TurnsAreTurned
<1>9. ~BackReferenced(s)
  <2>1. v \in DOMAIN o /\ o[v] \in DOMAIN c
    BY <1>1, <1>2 DEF Keyset
  <2>2. s.cache[o[v]] = IF v > l - n THEN [c[o[v]] EXCEPT !.ref = FALSE] ELSE c[o[v]]
    BY <1>l, <1>4, <2>1, TurnedBits
  <2>3. CASE n = l
    <3>1. v > l - n
      BY <1>0, <2>3
    <3>2. [c[o[v]] EXCEPT !.ref = FALSE].ref = FALSE
      BY <2>1 DEF IsCache
    <3> QED BY <1>6, <2>2, <3>1, <3>2 DEF BackReferenced
  <2>4. CASE n # l
    <3>1. ~(v > l - n)
      BY <1>0, <2>4
    <3> QED BY <1>2, <1>4, <1>6, <2>2, <2>4, <3>1 DEF BackReferenced
  <2> QED BY <2>3, <2>4
<1>10. Scanned(o, c) = TakeBack(s)
  <2>1. /\ s.order \in Seq(Keys) /\ Len(s.order) = l
        /\ \A j \in 1..n : s.order[j] = o[l - n + j]
        /\ \A j \in (n + 1)..l : s.order[j] = o[j - n]
    BY <1>l, <1>4, TurnedList
  <2>2. s.cache = [k \in DOMAIN c |-> IF \E i \in (l - n + 1)..l : k = o[i]
                                      THEN [c[k] EXCEPT !.ref = FALSE] ELSE c[k]]
    BY <1>l DEF Turned
  <2>3. \A k : k \in Passed(o, c, v) <=> \E i \in (l - n + 1)..l : k = o[i]
    <3>1. CASE n = l
      <4>1. DOMAIN o = (l - n + 1)..l
        BY <1>0, <1>1, <3>1
      <4> QED BY <1>4, <3>1, <4>1 DEF Passed
    <3>2. CASE n # l
      <4>1. l - n + 1 = v + 1
        BY <1>0, <3>2
      <4> QED BY <1>l, <1>4, <3>2, <4>1 DEF Passed
    <3> QED BY <3>1, <3>2
  <2> HIDE DEF s
  <2>4. ScannedCache(o, c, v) = [k \in DOMAIN s.cache \ {o[v]} |-> s.cache[k]]
    <3> DEFINE G(k) == IF k \in Passed(o, c, v) THEN [c[k] EXCEPT !.ref = FALSE] ELSE c[k]
               H(k) == s.cache[k]
    <3>1. \A k \in DOMAIN c \ {o[v]} : G(k) = H(k)
      BY <2>2, <2>3
    <3>2. ScannedCache(o, c, v) = [k \in DOMAIN c \ {o[v]} |-> G(k)]
      BY DEF ScannedCache
    <3>3. DOMAIN s.cache = DOMAIN c
      BY <2>2
    <3> HIDE DEF G, H
    <3>4. ScannedCache(o, c, v) = [k \in DOMAIN s.cache \ {o[v]} |-> H(k)]
      BY <3>1, <3>2, <3>3
    <3> QED BY <3>4 DEF H
  <2>5. ScannedOrder(o, v) = SubSeq(s.order, 1, l - 1)
    <3> DEFINE p == SubSeq(s.order, 1, l - 1)
               q == ScannedOrder(o, v)
    <3>1. /\ q \in Seq(Keys) /\ Len(q) = l - 1
          /\ \A j \in 1..(l - 1) : q[j] = o[IF j <= l - v THEN v + j ELSE j - (l - v)]
      <4>1. v \in DOMAIN o
        BY <1>1, <1>2
      <4> QED BY <1>l, <4>1, ScannedEntries
    <3>2. p \in Seq(Keys) /\ Len(p) = l - 1 /\ \A j \in 1..(l - 1) : p[j] = s.order[j]
      <4>1. l - 1 \in Nat /\ 1 <= (l - 1) + 1 /\ l - 1 <= Len(s.order) /\ (l - 1) - 1 + 1 = l - 1
        BY <1>1, <2>1
      <4>2. /\ p \in Seq(Keys) /\ Len(p) = (l - 1) - 1 + 1
            /\ \A j \in 1..((l - 1) - 1 + 1) : p[j] = s.order[1 + j - 1]
        BY <2>1, <4>1, PartOf
      <4>3. \A j \in 1..(l - 1) : 1 + j - 1 = j
        BY <1>1
      <4> HIDE DEF p
      <4> QED BY <4>1, <4>2, <4>3
    <3> HIDE DEF p, q
    <3>3. ASSUME NEW j \in 1..(l - 1) PROVE q[j] = p[j]
      <4>1. j \in 1..l /\ (j \in 1..n \/ j \in (n + 1)..l)
        BY <1>0
      <4>2. CASE n = l
        <5>1. j \in 1..n /\ l - n + j = j /\ (IF j <= l - v THEN v + j ELSE j - (l - v)) = j
          BY <1>0, <4>1, <4>2
        <5> QED BY <2>1, <3>1, <3>2, <5>1
      <4>3. CASE n # l /\ j <= l - v
        <5>1. j \in 1..n /\ l - n + j = v + j
          BY <1>0, <4>3
        <5> QED BY <2>1, <3>1, <3>2, <4>3, <5>1
      <4>4. CASE n # l /\ ~(j <= l - v)
        <5>1. j \in (n + 1)..l /\ j - n = j - (l - v)
          BY <1>0, <4>1, <4>4
        <5> QED BY <2>1, <3>1, <3>2, <4>4, <5>1
      <4> QED BY <4>2, <4>3, <4>4
    <3>4. Len(q) = Len(p) /\ \A j \in 1..Len(q) : q[j] = p[j]
      BY <3>1, <3>2, <3>3
    <3>5. q = p
      BY <3>1, <3>2, <3>4, SameList
    <3> QED BY <3>5 DEF p, q
  <2>6. TakeBack(s) = [order |-> SubSeq(s.order, 1, l - 1),
                       cache |-> [k \in DOMAIN s.cache \ {o[v]} |-> s.cache[k]]]
    BY <1>6, <1>l, <2>1 DEF TakeBack, s
  <2>7. Scanned(o, c) = [order |-> ScannedOrder(o, v), cache |-> ScannedCache(o, c, v)]
    BY DEF Scanned, v
  <2> QED BY <2>4, <2>5, <2>6, <2>7
<1> HIDE DEF s
<1> QED BY <1>l, <1>4, <1>7, <1>8, <1>9, <1>10

\* Whatever list and map Set meets when it has to evict, its loop ends, after passing
\* no entry more than once, and leaves what the model's one step does.
THEOREM ScanLoopTerminates == RSpec => []ScanIsLoop
<1>1. RInv /\ ListMatchesMap => ScanIsLoop
  <2>1. RInv => order \in Seq(Keys) /\ IsCache(cache)
    BY DEF RInv, RTypeOK, IsCache
  <2>2. ListMatchesMap => Keyset(order) = DOMAIN cache /\ Distinct(order)
    BY MatchesSays DEF Matches
  <2> QED BY <2>1, <2>2, LoopIsScan DEF ScanIsLoop
<1> QED BY <1>1, RouterInvariant, ListAndMapAgree, PTL
=============================================================================
