--------------------------- MODULE LauncherProofs ---------------------------
(***************************************************************************)
(* Proofs about Launcher, for any number of launches, sessions, connections *)
(* and services: the settings, the pool and who closes its connections,    *)
(* and the loads of the connections.                                        *)
(***************************************************************************)
EXTENDS Launcher, FiniteSetTheorems, TLAPS

USE DEF configVars, queueVars, launchVars, lvars

----------------------------------------------------------------------------
(* The pool *)

PoolType == [size : Nat, slots : Seq(Conns), shutdown : BOOLEAN, bad : BOOLEAN]

SessionType ==
    [pc : {"idle", "new", "scan", "picked", "using", "owner"}, q : Nat, i : Nat,
     c : Conns \cup {NoConn}, min : Nat]

ReplacerType == [by : Sessions, q : Launches, old : Conns, new : Conns \cup {NoConn}]

QueueTypeOK ==
    /\ pool \in [Launches -> PoolType]
    /\ queueVal \in Launches \cup {0}
    /\ conn \in [Conns -> {"live", "shut"}] /\ load \in [Conns -> Nat]
    /\ sess \in [Sessions -> SessionType]
    /\ replacers \subseteq ReplacerType

InPool(n, c) == \E i \in DOMAIN pool[n].slots : pool[n].slots[i] = c

(* In a pool that has not been destroyed. *)
Pooled(c) == \E n \in Launches : ~pool[n].shutdown /\ InPool(n, c)

(* What a session has in its hands belongs to the pool it asked, ...        *)
SessionsOK ==
    \A s \in Sessions :
        /\ sess[s].pc \notin {"idle", "owner"} => sess[s].q \in Launches
        /\ sess[s].pc = "scan" => /\ sess[s].i \in DOMAIN pool[sess[s].q].slots
                                  /\ ~pool[sess[s].q].shutdown
        /\ sess[s].pc = "new" => sess[s].c = NoConn
        /\ sess[s].pc = "picked" => sess[s].c # NoConn
        /\ sess[s].pc \in {"scan", "picked"} /\ sess[s].c # NoConn =>
              pool[sess[s].q].shutdown \/ InPool(sess[s].q, sess[s].c)

(* ... unless it has dialled for itself.  A connection is replaced only in  *)
(* a pool that is gone, which then does not take the new one.               *)
Apart ==
    /\ \A s \in Sessions : sess[s].pc = "owner" => sess[s].c \in Conns /\ ~Pooled(sess[s].c)
    /\ \A r \in replacers : pool[r.q].shutdown /\ ~Pooled(r.new)

QueueInv == QueueTypeOK /\ PoolIntact /\ SessionsOK /\ Apart /\ ConnsOwned

LEMMA QueueStart == QueueInit(Launches) => QueueInv
<1> SUFFICES ASSUME QueueInit(Launches) PROVE QueueInv
  OBVIOUS
<1> USE DEF QueueInit
<1>1. Idle \in SessionType /\ NoPool \in PoolType /\ Len(NoPool.slots) = 0
  BY DEF Idle, NoPool, SessionType, PoolType
<1>2. QueueTypeOK
  BY <1>1 DEF QueueTypeOK
<1>3. PoolIntact
  BY <1>1 DEF PoolIntact, NoPool
<1>4. SessionsOK /\ Apart
  BY DEF SessionsOK, Apart, Idle
<1>5. ConnsOwned
  BY DEF ConnsOwned, Live
<1> QED
  BY <1>2, <1>3, <1>4, <1>5 DEF QueueInv

LEMMA FreshOne == Fresh # {} => New \in Fresh
BY DEF New

LEMMA FreshFacts ==
    ASSUME QueueTypeOK, NEW c \in Fresh
    PROVE  /\ c \in Conns /\ conn[c] = "shut" /\ ~Pooled(c)
           /\ \A s \in Sessions : sess[s].c # c
           /\ \A r \in replacers : r.old # c /\ r.new # c
BY DEF Fresh, QueueTypeOK, Pooled, InPool

(* There are names enough for the connections of a new pool. *)
LEMMA FreshSlots ==
    ASSUME QueueTypeOK, NEW mux \in Nat, Cardinality(Fresh) >= mux
    PROVE  \E f \in [1..mux -> Fresh] : \A i, j \in 1..mux : f[i] = f[j] => i = j
<1>1. IsFiniteSet(Fresh)
  BY QueueAssumption, FS_Subset DEF Fresh
<1>2. Cardinality(Fresh) \in Nat /\ \E f : f \in Bijection(1..Cardinality(Fresh), Fresh)
  BY <1>1, FS_CardinalityType DEF ExistsBijection
<1>3. PICK f : f \in Bijection(1..Cardinality(Fresh), Fresh)
  BY <1>2
<1>4. f \in [1..Cardinality(Fresh) -> Fresh]
      /\ \A i, j \in 1..Cardinality(Fresh) : f[i] = f[j] => i = j
  BY <1>3 DEF Bijection, Injection, Surjection, IsInjective
<1>5. 1..mux \subseteq 1..Cardinality(Fresh)
  BY <1>2
<1>6. [i \in 1..mux |-> f[i]] \in [1..mux -> Fresh]
  BY <1>4, <1>5
<1> WITNESS [i \in 1..mux |-> f[i]] \in [1..mux -> Fresh]
<1> QED
  BY <1>4, <1>5

(* A pool that has been made is whole, and nobody else has to do with its   *)
(* connections.                                                              *)
LEMMA InitPoolKeeps ==
    ASSUME QueueInv, NEW n \in Launches, NEW mux \in Nat, NEW bad \in BOOLEAN,
           pool[n] = NoPool, InitPool(n, mux, bad)
    PROVE  QueueInv'
<1>1. CASE UNCHANGED queueVars
  BY <1>1 DEF QueueInv, QueueTypeOK, PoolIntact, SessionsOK, Apart, ConnsOwned, Pooled, InPool, Live
<1>2. CASE ~UNCHANGED queueVars
  <2>1. PICK slots : slots = CHOOSE f \in [1..mux -> Fresh] : \A i, j \in 1..mux : f[i] = f[j] => i = j
    OBVIOUS
  <2>2. slots \in [1..mux -> Fresh]
    <3>1. \E f \in [1..mux -> Fresh] : \A i, j \in 1..mux : f[i] = f[j] => i = j
      BY FreshSlots DEF InitPool, QueueInv
    <3> QED BY <2>1, <3>1
  <2>3. /\ pool' = [pool EXCEPT ![n] =
                       [size |-> mux, slots |-> slots, shutdown |-> FALSE, bad |-> bad]]
        /\ conn' = Opened({slots[i] : i \in 1..mux})
        /\ load' = [c \in Conns |-> IF c \in {slots[i] : i \in 1..mux} THEN 0 ELSE load[c]]
        /\ queueVal' = n /\ UNCHANGED <<sess, replacers>>
    <3>1. ~(bad /\ mux > 0)
      BY <1>2, Zenon DEF InitPool
    <3>2. LET f == CHOOSE f \in [1..mux -> Fresh] : \A i, j \in 1..mux : f[i] = f[j] => i = j
              cs == {f[i] : i \in 1..mux}
          IN  /\ pool' = [pool EXCEPT ![n] =
                             [size |-> mux, slots |-> f, shutdown |-> FALSE, bad |-> bad]]
              /\ conn' = Opened(cs)
              /\ load' = [c \in Conns |-> IF c \in cs THEN 0 ELSE load[c]]
              /\ queueVal' = n
              /\ UNCHANGED <<sess, replacers>>
      BY <3>1, Zenon DEF InitPool
    <3> QED BY <2>1, <3>2, Zenon
  <2>4. slots \in Seq(Conns) /\ DOMAIN slots = 1..mux /\ Len(slots) = mux
    BY <2>2 DEF Fresh
  <2>5. [size |-> mux, slots |-> slots, shutdown |-> FALSE, bad |-> bad] \in PoolType
    BY <2>4 DEF PoolType
  <2>6. \A c \in Conns : conn'[c] = IF c \in {slots[i] : i \in 1..mux} THEN "live" ELSE conn[c]
    BY <2>3 DEF Opened
  <2>7. QueueTypeOK'
    BY <2>3, <2>5 DEF QueueInv, QueueTypeOK, Opened
  <2>8. /\ pool'[n].slots = slots /\ pool'[n].size = mux /\ pool'[n].shutdown = FALSE
        /\ \A m \in Launches : m # n => pool'[m] = pool[m]
        /\ DOMAIN pool' = Launches /\ DOMAIN pool = Launches
    BY <2>3, <2>5 DEF QueueInv, QueueTypeOK
  <2>9. DOMAIN pool[n].slots = {} /\ ~pool[n].shutdown
    BY DEF NoPool
  <2>10. \A c \in Conns : conn[c] = "live" => conn'[c] = "live"
    BY <2>6
  <2>11. PoolIntact'
    <3> SUFFICES ASSUME NEW m \in Launches
                 PROVE  /\ Len(pool'[m].slots) = pool'[m].size
                        /\ ~pool'[m].shutdown => \A i \in DOMAIN pool'[m].slots : conn'[pool'[m].slots[i]] = "live"
      BY <2>8 DEF PoolIntact, Live
    <3>1. CASE m = n
      BY <2>2, <2>4, <2>6, <2>8, <3>1 DEF Fresh
    <3>2. CASE m # n
      <4>1. \A i \in DOMAIN pool[m].slots : pool[m].slots[i] \in Conns
        BY DEF QueueInv, QueueTypeOK, PoolType
      <4> QED BY <2>8, <2>10, <3>2, <4>1 DEF QueueInv, PoolIntact, Live
    <3> QED BY <3>1, <3>2
  <2>12. \A m \in Launches : \A c : InPool(m, c) => InPool(m, c)' /\ m # n
    BY <2>8, <2>9 DEF InPool
  <2>13. SessionsOK'
    BY <2>3, <2>8, <2>9, <2>12 DEF QueueInv, SessionsOK
  <2>14. ASSUME NEW c, Pooled(c)' PROVE Pooled(c) \/ c \in Fresh
    BY <2>2, <2>4, <2>8, <2>14 DEF Pooled, InPool
  <2>15. Apart'
    <3>1. \A r \in replacers : r.q # n /\ r.q \in Launches
      BY <2>9 DEF QueueInv, Apart, QueueTypeOK, ReplacerType
    <3> QED BY <2>3, <2>8, <2>14, <3>1, FreshFacts DEF QueueInv, Apart
  <2>16. ConnsOwned'
    <3> SUFFICES ASSUME NEW c \in Conns, conn'[c] = "live"
                 PROVE  \/ Pooled(c)'
                        \/ \E s \in Sessions : sess'[s].pc = "owner" /\ sess'[s].c = c
                        \/ \E r \in replacers' : r.new = c
      BY <2>8 DEF ConnsOwned, Live, Pooled, InPool
    <3>1. CASE c \in {slots[i] : i \in 1..mux}
      BY <2>4, <2>8, <3>1 DEF Pooled, InPool
    <3>2. CASE conn[c] = "live"
      BY <2>3, <2>8, <2>12, <3>2 DEF QueueInv, ConnsOwned, Live, Pooled, InPool
    <3> QED BY <2>6, <3>1, <3>2
  <2> QED BY <2>7, <2>11, <2>13, <2>15, <2>16 DEF QueueInv
<1> QED
  BY <1>1, <1>2

(* Destroy closes all that the pool holds. *)
LEMMA DestroyPoolKeeps ==
    ASSUME QueueInv, NEW q \in Launches, DestroyPool(q),
           \A n \in Launches : n # q => pool[n].shutdown \/ pool[n].slots = <<>>
    PROVE  QueueInv'
<1> DEFINE cs == {pool[q].slots[i] : i \in 1..pool[q].size}
<1>1. /\ pool' = [pool EXCEPT ![q].shutdown = TRUE]
      /\ conn' = Closed(cs) /\ UNCHANGED <<queueVal, load, sess, replacers>>
  BY DEF DestroyPool
<1>2. \A c : c \in cs <=> InPool(q, c)
  <2>1. DOMAIN pool[q].slots = 1..pool[q].size
    BY DEF QueueInv, PoolIntact, QueueTypeOK, PoolType
  <2> QED BY <2>1 DEF InPool
<1> HIDE DEF cs
<1>3. /\ DOMAIN pool' = Launches /\ DOMAIN pool = Launches
      /\ \A n \in Launches : pool'[n].slots = pool[n].slots /\ pool'[n].size = pool[n].size
      /\ \A n \in Launches : n # q => pool'[n].shutdown = pool[n].shutdown
      /\ pool'[q].shutdown = TRUE
  BY <1>1 DEF QueueInv, QueueTypeOK, PoolType
<1>4. QueueTypeOK'
  BY <1>1 DEF QueueInv, QueueTypeOK, PoolType, Closed
<1>5. \A n \in Launches : \A c : InPool(n, c)' <=> InPool(n, c)
  BY <1>3 DEF InPool
<1>6. \A n \in Launches : \A c : ~pool'[n].shutdown => ~InPool(n, c)
  BY <1>3 DEF InPool
<1>7. PoolIntact'
  BY <1>3, <1>6 DEF QueueInv, PoolIntact, InPool
<1>8. SessionsOK'
  <2>1. \A s \in Sessions : ~(sess[s].pc = "scan" /\ sess[s].q = q)
    BY DEF DestroyPool, WriteLock
  <2> QED BY <1>1, <1>3, <1>5, <2>1 DEF QueueInv, SessionsOK
<1>9. Apart'
  <2>1. \A r \in replacers : r.q \in Launches
    BY DEF QueueInv, QueueTypeOK, ReplacerType
  <2> QED BY <1>1, <1>3, <1>5, <1>6, <2>1 DEF QueueInv, Apart, Pooled
<1>10. ConnsOwned'
  <2> SUFFICES ASSUME NEW c \in Conns, conn'[c] = "live"
               PROVE  \/ \E s \in Sessions : sess'[s].pc = "owner" /\ sess'[s].c = c
                      \/ \E r \in replacers' : r.new = c
    BY <1>3 DEF ConnsOwned, Live
  <2>1. conn[c] = "live" /\ c \notin cs
    BY <1>1 DEF Closed
  <2>2. ~Pooled(c)
    BY <1>2, <2>1 DEF Pooled, InPool
  <2> QED BY <1>1, <1>3, <2>1, <2>2 DEF QueueInv, ConnsOwned, Live, Pooled, InPool
<1> QED
  BY <1>4, <1>7, <1>8, <1>9, <1>10 DEF QueueInv

LEMMA UnpublishKeeps == QueueInv /\ (Unpublish \/ UNCHANGED queueVars) => QueueInv'
<1> SUFFICES ASSUME QueueInv, Unpublish \/ UNCHANGED queueVars PROVE QueueInv'
  OBVIOUS
<1> USE DEF Unpublish
<1>1. QueueTypeOK'
  BY DEF QueueInv, QueueTypeOK
<1>2. PoolIntact' /\ ConnsOwned'
  BY DEF QueueInv, PoolIntact, ConnsOwned, Live
<1>3. SessionsOK' /\ Apart'
  BY DEF QueueInv, SessionsOK, Apart, Pooled, InPool
<1> QED
  BY <1>1, <1>2, <1>3 DEF QueueInv

(* Steps of sessions that only read: nothing but sess changes. *)
LEMMA LookingKeeps ==
    ASSUME QueueInv, NEW s \in Sessions, NEW x \in SessionType, sess' = [sess EXCEPT ![s] = x],
           UNCHANGED <<pool, queueVal, conn>>, load' \in [Conns -> Nat],
           replacers' \subseteq ReplacerType, replacers \subseteq replacers',
           \A r \in replacers' : pool[r.q].shutdown /\ (r \in replacers \/ r.new = NoConn),
           sess[s].pc # "owner", x.pc # "owner",
           /\ x.pc # "idle" => x.q \in Launches
           /\ x.pc = "scan" => x.i \in DOMAIN pool[x.q].slots /\ ~pool[x.q].shutdown
           /\ x.pc = "new" => x.c = NoConn
           /\ x.pc = "picked" => x.c # NoConn
           /\ x.pc \in {"scan", "picked"} /\ x.c # NoConn => pool[x.q].shutdown \/ InPool(x.q, x.c)
    PROVE  QueueInv'
<1>1. QueueTypeOK'
  BY DEF QueueInv, QueueTypeOK
<1>2. PoolIntact'
  BY DEF QueueInv, PoolIntact, Live
<1>3. sess'[s] = x /\ \A t \in Sessions : t # s => sess'[t] = sess[t]
  BY DEF QueueInv, QueueTypeOK
<1>4. \A n \in Launches : \A c : InPool(n, c)' <=> InPool(n, c)
  BY DEF InPool
<1>5. SessionsOK'
  BY <1>3, <1>4 DEF QueueInv, SessionsOK
<1>6. \A c : Pooled(c)' <=> Pooled(c)
  BY <1>4 DEF Pooled
<1>7. ~Pooled(NoConn)
  BY QueueAssumption DEF QueueInv, QueueTypeOK, PoolType, Pooled, InPool
<1>8. Apart'
  BY <1>3, <1>6, <1>7 DEF QueueInv, Apart
<1>9. ConnsOwned'
  BY <1>3 DEF QueueInv, ConnsOwned, Live
<1> QED
  BY <1>1, <1>2, <1>5, <1>8, <1>9 DEF QueueInv

LEMMA IdleSession == Idle \in SessionType /\ Idle.pc = "idle"
BY DEF Idle, SessionType

LEMMA GetQueueKeeps ==
    ASSUME QueueInv, NEW s \in Sessions, GetQueue(s) PROVE QueueInv'
<1> DEFINE x == [Idle EXCEPT !.pc = "new", !.q = queueVal]
<1>1. x \in SessionType /\ x.pc = "new" /\ x.q \in Launches /\ x.c = NoConn
  <2>1. queueVal \in Launches /\ queueVal \in Nat
    BY LauncherAssumption DEF GetQueue, QueueInv, QueueTypeOK, Launches
  <2> QED BY <2>1 DEF Idle, SessionType
<1>2. sess' = [sess EXCEPT ![s] = x] /\ sess[s].pc = "idle" /\ UNCHANGED <<pool, queueVal, conn, load, replacers>>
  BY DEF GetQueue
<1>3. load' \in [Conns -> Nat] /\ replacers' \subseteq ReplacerType
      /\ \A r \in replacers : pool[r.q].shutdown
  BY <1>2 DEF QueueInv, QueueTypeOK, Apart
<1> HIDE DEF x
<1> QED
  BY <1>1, <1>2, <1>3, LookingKeeps

LEMMA GetConnKeeps ==
    ASSUME QueueInv, NEW s \in Sessions, GetConn(s) PROVE QueueInv'
<1>1. PICK x : x = IF pool[sess[s].q].shutdown THEN Idle ELSE [sess[s] EXCEPT !.pc = "scan", !.i = 1]
  OBVIOUS
<1>2. sess' = [sess EXCEPT ![s] = x] /\ sess[s].pc = "new" /\ UNCHANGED <<pool, queueVal, conn, load, replacers>>
  BY <1>1 DEF GetConn, QueueInv, QueueTypeOK
<1>3. load' \in [Conns -> Nat] /\ replacers' \subseteq ReplacerType
      /\ \A r \in replacers : pool[r.q].shutdown
  BY <1>2 DEF QueueInv, QueueTypeOK, Apart
<1>4. sess[s].q \in Launches /\ sess[s] \in SessionType /\ sess[s].c \in Conns \cup {NoConn}
  BY <1>2 DEF QueueInv, QueueTypeOK, SessionsOK, SessionType
<1>5. 1 \in DOMAIN pool[sess[s].q].slots
  BY <1>4 DEF GetConn, QueueInv, PoolIntact, QueueTypeOK, PoolType
<1>6. CASE pool[sess[s].q].shutdown
  BY <1>1, <1>2, <1>3, <1>6, IdleSession, LookingKeeps
<1>7. CASE ~pool[sess[s].q].shutdown
  <2>1. x \in SessionType /\ x.pc = "scan" /\ x.i = 1 /\ x.q = sess[s].q /\ x.c = sess[s].c
    BY <1>1, <1>4, <1>7 DEF SessionType
  <2>2. sess[s].c = NoConn
    BY <1>2 DEF QueueInv, SessionsOK
  <2> QED BY <1>2, <1>3, <1>4, <1>5, <1>7, <2>1, <2>2, LookingKeeps
<1> QED
  BY <1>6, <1>7

LEMMA PickLeastLoadedKeeps ==
    ASSUME QueueInv, NEW s \in Sessions, PickLeastLoaded(s) PROVE QueueInv'
<1> DEFINE slots == pool[sess[s].q].slots
           c     == slots[sess[s].i]
           best  == IF Live(c) /\ (sess[s].c = NoConn \/ load[c] < sess[s].min)
                    THEN [sess[s] EXCEPT !.c = c, !.min = load[c]] ELSE sess[s]
<1>1. PICK x : x = IF best.i < Len(slots) THEN [best EXCEPT !.i = @ + 1]
                   ELSE IF best.c = NoConn THEN Idle
                   ELSE [best EXCEPT !.pc = "picked", !.i = 0, !.min = 0]
  OBVIOUS
<1>2. sess' = [sess EXCEPT ![s] = x] /\ sess[s].pc = "scan" /\ UNCHANGED <<pool, queueVal, conn, load, replacers>>
  BY <1>1 DEF PickLeastLoaded
<1>3. load' \in [Conns -> Nat] /\ replacers' \subseteq ReplacerType
      /\ \A r \in replacers : pool[r.q].shutdown
  BY <1>2 DEF QueueInv, QueueTypeOK, Apart
<1>4. /\ sess[s].q \in Launches /\ sess[s] \in SessionType
      /\ sess[s].i \in DOMAIN slots /\ ~pool[sess[s].q].shutdown
      /\ sess[s].c # NoConn => InPool(sess[s].q, sess[s].c)
  BY <1>2 DEF QueueInv, QueueTypeOK, SessionsOK
<1>5. slots \in Seq(Conns) /\ c \in Conns /\ InPool(sess[s].q, c)
  BY <1>4 DEF QueueInv, QueueTypeOK, PoolType, InPool
<1>6. load[c] \in Nat
  BY <1>5 DEF QueueInv, QueueTypeOK
<1>7. PICK b : b = best
  OBVIOUS
<1>8. /\ b \in SessionType /\ b.pc = "scan" /\ b.i = sess[s].i /\ b.q = sess[s].q
      /\ b.c # NoConn => InPool(b.q, b.c)
  BY <1>2, <1>4, <1>5, <1>6, <1>7 DEF SessionType
<1>9. x = IF b.i < Len(slots) THEN [b EXCEPT !.i = b.i + 1]
          ELSE IF b.c = NoConn THEN Idle
          ELSE [b EXCEPT !.pc = "picked", !.i = 0, !.min = 0]
  BY <1>1, <1>7
<1> HIDE DEF best, c
<1>10. CASE b.i < Len(slots)
  <2>1. x \in SessionType /\ x.pc = "scan" /\ x.i = b.i + 1 /\ x.q = b.q /\ x.c = b.c
    BY <1>8, <1>9, <1>10 DEF SessionType
  <2>2. x.i \in DOMAIN slots
    BY <1>4, <1>5, <1>8, <1>10, <2>1 DEF SessionType
  <2> QED BY <1>2, <1>3, <1>4, <1>8, <2>1, <2>2, LookingKeeps
<1>11. CASE ~(b.i < Len(slots)) /\ b.c = NoConn
  <2>1. x = Idle
    BY <1>9, <1>11
  <2> QED BY <1>2, <1>3, <2>1, IdleSession, LookingKeeps
<1>12. CASE ~(b.i < Len(slots)) /\ b.c # NoConn
  <2>1. x \in SessionType /\ x.pc = "picked" /\ x.q = b.q /\ x.c = b.c
    BY <1>8, <1>9, <1>12 DEF SessionType
  <2> QED BY <1>2, <1>3, <1>4, <1>8, <1>12, <2>1, LookingKeeps
<1> QED
  BY <1>10, <1>11, <1>12

(* A connection that is dead when it is used belongs to a pool that is gone. *)
LEMMA UseKeeps ==
    ASSUME QueueInv, NEW s \in Sessions, Use(s) PROVE QueueInv'
<1>1. /\ sess[s] \in SessionType /\ sess[s].pc = "picked" /\ sess[s].q \in Launches
      /\ sess[s].c \in Conns /\ UNCHANGED <<pool, queueVal, conn>>
      /\ pool[sess[s].q].shutdown \/ InPool(sess[s].q, sess[s].c)
  BY DEF Use, QueueInv, QueueTypeOK, SessionsOK, SessionType
<1>2. replacers \subseteq ReplacerType /\ load \in [Conns -> Nat]
      /\ \A r \in replacers : pool[r.q].shutdown
  BY DEF QueueInv, QueueTypeOK, Apart
<1>3. CASE Live(sess[s].c)
  <2>1. PICK x : x = [sess[s] EXCEPT !.pc = "using"]
    OBVIOUS
  <2>2. sess' = [sess EXCEPT ![s] = x] /\ replacers' = replacers
        /\ load' = [load EXCEPT ![sess[s].c] = (load[sess[s].c] + 1) % LoadMod]
    BY <1>3, <2>1 DEF Use
  <2>3. x \in SessionType /\ x.pc = "using" /\ x.q = sess[s].q
    BY <1>1, <2>1 DEF SessionType
  <2>4. LoadMod \in Nat /\ LoadMod > 0
    BY QueueAssumption, FS_CardinalityType
  <2>5. (load[sess[s].c] + 1) % LoadMod \in Nat
    BY <1>1, <1>2, <2>4
  <2>6. load' \in [Conns -> Nat]
    BY <1>1, <1>2, <2>2, <2>5
  <2> QED BY <1>1, <1>2, <2>2, <2>3, <2>6, LookingKeeps
<1>4. CASE ~Live(sess[s].c)
  <2>1. PICK r : r = [by |-> s, q |-> sess[s].q, old |-> sess[s].c, new |-> NoConn]
    OBVIOUS
  <2>2. sess' = [sess EXCEPT ![s] = Idle] /\ replacers' = replacers \cup {r} /\ load' = load
    BY <1>4, <2>1 DEF Use
  <2>3. r \in ReplacerType /\ r.q = sess[s].q /\ r.new = NoConn
    BY <1>1, <2>1 DEF ReplacerType
  <2>4. pool[sess[s].q].shutdown
    BY <1>1, <1>4 DEF QueueInv, PoolIntact, QueueTypeOK, InPool
  <2> QED BY <1>1, <1>2, <2>2, <2>3, <2>4, IdleSession, LookingKeeps
<1> QED
  BY <1>3, <1>4

(* Opening connections hurts no pool, and closing those outside hurts none.  *)
LEMMA SamePools ==
    ASSUME QueueInv, UNCHANGED pool, conn' \in [Conns -> {"live", "shut"}],
           \A c \in Conns : conn[c] = "live" /\ conn'[c] # "live" => ~Pooled(c)
    PROVE  PoolIntact' /\ (\A c : Pooled(c)' <=> Pooled(c)) /\ (\A n, c : InPool(n, c)' <=> InPool(n, c))
<1>1. \A n, c : InPool(n, c)' <=> InPool(n, c)
  BY DEF InPool
<1>2. \A c : Pooled(c)' <=> Pooled(c)
  BY DEF Pooled, InPool
<1>3. PoolIntact'
  <2> SUFFICES ASSUME NEW n \in Launches, ~pool[n].shutdown, NEW i \in DOMAIN pool[n].slots
               PROVE  conn'[pool[n].slots[i]] = "live"
    BY DEF PoolIntact, Live, QueueInv, QueueTypeOK
  <2>1. pool[n].slots[i] \in Conns /\ conn[pool[n].slots[i]] = "live" /\ Pooled(pool[n].slots[i])
    <3>1. pool[n] \in PoolType /\ n \in DOMAIN pool
      BY DEF QueueInv, QueueTypeOK
    <3>2. pool[n].slots[i] \in Conns
      BY <3>1 DEF PoolType
    <3>3. conn[pool[n].slots[i]] = "live"
      BY <3>1 DEF QueueInv, PoolIntact, Live
    <3>4. Pooled(pool[n].slots[i])
      BY DEF Pooled, InPool
    <3> QED BY <3>2, <3>3, <3>4
  <2> QED BY <2>1
<1> QED
  BY <1>1, <1>2, <1>3

LEMMA DialOutsideKeeps ==
    ASSUME QueueInv, NEW s \in Sessions, DialOutside(s) PROVE QueueInv'
<1>1. /\ sess[s] \in SessionType /\ sess[s].pc = "new" /\ UNCHANGED <<pool, queueVal, replacers>>
      /\ replacers \subseteq ReplacerType /\ load \in [Conns -> Nat]
      /\ \A r \in replacers : pool[r.q].shutdown
  BY DEF DialOutside, QueueInv, QueueTypeOK, Apart
<1>2. CASE pool[sess[s].q].bad
  <2>1. sess' = [sess EXCEPT ![s] = Idle] /\ UNCHANGED <<conn, load>>
    BY <1>2 DEF DialOutside
  <2> QED BY <1>1, <2>1, IdleSession, LookingKeeps
<1>3. CASE ~pool[sess[s].q].bad
  <2>1. PICK a \in Fresh : a = New
    BY <1>3, FreshOne DEF DialOutside
  <2>2. PICK x : x = [sess[s] EXCEPT !.pc = "owner", !.c = a]
    OBVIOUS
  <2>3. conn' = Opened({a}) /\ load' = [load EXCEPT ![a] = 0] /\ sess' = [sess EXCEPT ![s] = x]
    BY <1>3, <2>1, <2>2 DEF DialOutside
  <2>4. a \in Conns /\ conn[a] = "shut" /\ ~Pooled(a)
    BY FreshFacts DEF QueueInv
  <2>5. x \in SessionType /\ x.pc = "owner" /\ x.c = a
    BY <1>1, <2>2, <2>4 DEF SessionType
  <2>6. /\ conn' \in [Conns -> {"live", "shut"}] /\ conn'[a] = "live"
        /\ \A c \in Conns : c # a => conn'[c] = conn[c]
    BY <2>3, <2>4 DEF Opened, QueueInv, QueueTypeOK
  <2>7. sess'[s] = x /\ \A t \in Sessions : t # s => sess'[t] = sess[t]
    BY <2>3 DEF QueueInv, QueueTypeOK
  <2>8. QueueTypeOK'
    BY <1>1, <2>3, <2>4, <2>5, <2>6 DEF QueueInv, QueueTypeOK
  <2>9. PoolIntact' /\ (\A c : Pooled(c)' <=> Pooled(c)) /\ (\A n, c : InPool(n, c)' <=> InPool(n, c))
    BY <1>1, <2>4, <2>6, SamePools
  <2>10. SessionsOK'
    BY <1>1, <2>5, <2>7, <2>9 DEF QueueInv, SessionsOK
  <2>11. Apart'
    BY <1>1, <2>4, <2>5, <2>7, <2>9 DEF QueueInv, Apart
  <2>12. ConnsOwned'
    BY <1>1, <2>5, <2>6, <2>7 DEF QueueInv, ConnsOwned, Live
  <2> QED BY <2>8, <2>9, <2>10, <2>11, <2>12 DEF QueueInv
<1> QED
  BY <1>2, <1>3

LEMMA DoneKeeps ==
    ASSUME QueueInv, NEW s \in Sessions, Done(s) PROVE QueueInv'
<1>1. /\ sess[s] \in SessionType /\ UNCHANGED <<pool, queueVal, replacers>>
      /\ sess' = [sess EXCEPT ![s] = Idle]
      /\ replacers \subseteq ReplacerType /\ load \in [Conns -> Nat]
      /\ \A r \in replacers : pool[r.q].shutdown
  BY DEF Done, QueueInv, QueueTypeOK, Apart
<1>2. CASE sess[s].pc = "using"
  <2>1. UNCHANGED conn /\ load' = [load EXCEPT ![sess[s].c] = (load[sess[s].c] + LoadMod - 1) % LoadMod]
    BY <1>2 DEF Done
  <2>2. LoadMod \in Nat /\ LoadMod > 0
    BY QueueAssumption, FS_CardinalityType
  <2>3. ASSUME sess[s].c \in Conns PROVE (load[sess[s].c] + LoadMod - 1) % LoadMod \in Nat
    BY <1>1, <2>2, <2>3
  <2>4. load' \in [Conns -> Nat]
    BY <1>1, <2>1, <2>3
  <2> QED BY <1>1, <1>2, <2>1, <2>4, IdleSession, LookingKeeps
<1>3. CASE sess[s].pc = "owner"
  <2>1. PICK a \in Conns : a = sess[s].c /\ ~Pooled(a)
    BY <1>3 DEF QueueInv, Apart
  <2>2. conn' = Closed({a}) /\ UNCHANGED load
    BY <1>3, <2>1 DEF Done
  <2>3. /\ conn' \in [Conns -> {"live", "shut"}] /\ conn'[a] = "shut"
        /\ \A c \in Conns : c # a => conn'[c] = conn[c]
    BY <2>2 DEF Closed, QueueInv, QueueTypeOK
  <2>4. sess'[s] = Idle /\ \A t \in Sessions : t # s => sess'[t] = sess[t]
    BY <1>1 DEF QueueInv, QueueTypeOK
  <2>5. QueueTypeOK'
    BY <1>1, <2>2, <2>3, IdleSession DEF QueueInv, QueueTypeOK
  <2>6. PoolIntact' /\ (\A c : Pooled(c)' <=> Pooled(c)) /\ (\A n, c : InPool(n, c)' <=> InPool(n, c))
    BY <1>1, <2>1, <2>3, SamePools
  <2>7. SessionsOK'
    BY <1>1, <2>4, <2>6, IdleSession DEF QueueInv, SessionsOK
  <2>8. Apart'
    BY <1>1, <2>4, <2>6, IdleSession DEF QueueInv, Apart
  <2>9. ConnsOwned'
    BY <1>1, <2>1, <2>3, <2>4 DEF QueueInv, ConnsOwned, Live
  <2> QED BY <2>5, <2>6, <2>7, <2>8, <2>9 DEF QueueInv
<1> QED
  BY <1>2, <1>3 DEF Done

LEMMA ReplaceDialsKeeps ==
    ASSUME QueueInv, NEW r \in replacers, ReplaceDials(r) PROVE QueueInv'
<1>1. PICK a \in Fresh : a = New
  BY FreshOne DEF ReplaceDials
<1>2. PICK x : x = [r EXCEPT !.new = a]
  OBVIOUS
<1>3. /\ conn' = Opened({a}) /\ load' = [load EXCEPT ![a] = 0]
      /\ replacers' = (replacers \ {r}) \cup {x} /\ UNCHANGED <<pool, queueVal, sess>>
      /\ r.new = NoConn
  BY <1>1, <1>2 DEF ReplaceDials
<1>4. a \in Conns /\ conn[a] = "shut" /\ ~Pooled(a)
  BY FreshFacts DEF QueueInv
<1>5. x \in ReplacerType /\ x.new = a /\ x.q = r.q /\ pool[r.q].shutdown
  BY <1>2, <1>4 DEF ReplacerType, QueueInv, QueueTypeOK, Apart
<1>6. /\ conn' \in [Conns -> {"live", "shut"}] /\ conn'[a] = "live"
      /\ \A c \in Conns : c # a => conn'[c] = conn[c]
  BY <1>3, <1>4 DEF Opened, QueueInv, QueueTypeOK
<1>7. QueueTypeOK'
  BY <1>3, <1>4, <1>5, <1>6 DEF QueueInv, QueueTypeOK
<1>8. PoolIntact' /\ (\A c : Pooled(c)' <=> Pooled(c)) /\ (\A n, c : InPool(n, c)' <=> InPool(n, c))
  BY <1>3, <1>4, <1>6, SamePools
<1>9. SessionsOK'
  BY <1>3, <1>8 DEF QueueInv, SessionsOK
<1>10. Apart'
  BY <1>3, <1>4, <1>5, <1>8 DEF QueueInv, Apart
<1>11. ConnsOwned'
  <2>1. NoConn \notin Conns
    BY QueueAssumption
  <2> SUFFICES ASSUME NEW c \in Conns, conn'[c] = "live"
               PROVE  \/ \E n \in DOMAIN pool : ~pool[n].shutdown /\ InPool(n, c)
                      \/ \E s \in Sessions : sess[s].pc = "owner" /\ sess[s].c = c
                      \/ \E t \in replacers' : t.new = c
    BY <1>3 DEF ConnsOwned, Live, InPool
  <2>2. CASE c = a
    BY <1>3, <1>5, <2>2
  <2>3. CASE c # a
    <3>1. conn[c] = "live"
      BY <1>6, <2>3
    <3>2. \A t \in replacers : t.new = c => t \in replacers'
      BY <1>3, <2>1
    <3> QED BY <3>1, <3>2 DEF QueueInv, ConnsOwned, Live, InPool
  <2> QED BY <2>2, <2>3
<1> QED
  BY <1>7, <1>8, <1>9, <1>10, <1>11 DEF QueueInv

(* The pool is gone, so that the new connection is closed. *)
LEMMA ReplaceKeeps ==
    ASSUME QueueInv, NEW r \in replacers, Replace(r) PROVE QueueInv' /\ UNCHANGED pool
<1>1. pool[r.q].shutdown /\ ~Pooled(r.new) /\ r.new \in Conns \cup {NoConn} /\ r.new # NoConn
  BY DEF QueueInv, Apart, QueueTypeOK, ReplacerType, Replace
<1>2. /\ conn' = Closed({r.new}) /\ UNCHANGED pool
      /\ replacers' = replacers \ {r} /\ UNCHANGED <<queueVal, load, sess>>
  BY <1>1 DEF Replace
<1>3. /\ conn' \in [Conns -> {"live", "shut"}] /\ conn'[r.new] = "shut"
      /\ \A c \in Conns : c # r.new => conn'[c] = conn[c]
  BY <1>1, <1>2 DEF Closed, QueueInv, QueueTypeOK
<1>4. QueueTypeOK'
  BY <1>2, <1>3 DEF QueueInv, QueueTypeOK
<1>5. PoolIntact' /\ (\A c : Pooled(c)' <=> Pooled(c)) /\ (\A n, c : InPool(n, c)' <=> InPool(n, c))
  BY <1>1, <1>2, <1>3, SamePools
<1>6. SessionsOK'
  BY <1>2, <1>5 DEF QueueInv, SessionsOK
<1>7. Apart'
  BY <1>2, <1>5 DEF QueueInv, Apart
<1>8. ConnsOwned'
  BY <1>2, <1>3 DEF QueueInv, ConnsOwned, Live
<1> QED
  BY <1>2, <1>4, <1>5, <1>6, <1>7, <1>8 DEF QueueInv

LEMMA PoolingKeeps == QueueInv /\ Pooling => QueueInv' /\ UNCHANGED <<pool, queueVal>>
<1> SUFFICES ASSUME QueueInv, Pooling PROVE QueueInv' /\ UNCHANGED <<pool, queueVal>>
  OBVIOUS
<1>1. ASSUME NEW s \in Sessions, Session(s) PROVE QueueInv' /\ UNCHANGED <<pool, queueVal>>
  <2>1. QueueInv'
    BY <1>1, GetQueueKeeps, DialOutsideKeeps, GetConnKeeps, PickLeastLoadedKeeps, UseKeeps, DoneKeeps
       DEF Session
  <2> QED BY <1>1, <2>1 DEF Session, GetQueue, DialOutside, GetConn, PickLeastLoaded, Use, Done
<1>2. ASSUME NEW r \in replacers, ReplaceDials(r) PROVE QueueInv' /\ UNCHANGED <<pool, queueVal>>
  BY <1>2, ReplaceDialsKeeps DEF ReplaceDials
<1>3. ASSUME NEW r \in replacers, Replace(r) PROVE QueueInv' /\ UNCHANGED <<pool, queueVal>>
  BY <1>3, ReplaceKeeps DEF Replace
<1> QED
  BY <1>1, <1>2, <1>3 DEF Pooling

----------------------------------------------------------------------------
(* Launches *)

ConfigType ==
    [role : {"client", "server"}, fail : Rejecting \cup {"none"}, omit : SUBSET Optional,
     mux : Nat, badDial : BOOLEAN, wrong : {"none", "uuid", "auth", "server"}]

Gone(n) == pool[n] = NoPool \/ pool[n].shutdown

LaunchTypeOK ==
    /\ launch \in 0..MaxLaunches
    /\ proc \in {"idle", "apply", "init", "wait", "destroy", "close"}
    /\ cfg \in ConfigType
    /\ svc \in [AllServices -> {"off", "start", "select"}]

(* Only the last launch has a pool that is not gone, and where it is with   *)
(* that pool.                                                                *)
PoolOfLaunch ==
    /\ launch = 0 => proc = "idle"
    /\ \A n \in Launches : /\ n > launch => pool[n] = NoPool
                           /\ n < launch => Gone(n)
                           /\ n = launch /\ proc = "idle" => Gone(n)
    /\ proc \in {"apply", "init"} => pool[launch] = NoPool
    /\ queueVal # 0 => /\ queueVal = launch /\ proc \in {"wait", "destroy"}
                       /\ ~pool[launch].shutdown
    /\ proc \in {"wait", "destroy"} /\ queueVal = 0 => pool[launch] = NoPool
    /\ proc = "wait" /\ cfg.role = "server" => queueVal = 0

ServicesOn ==
    /\ \A s \in AllServices : svc[s] # "off" => proc = "wait"
    /\ \A s \in Services : svc[s] # "off" => queueVal = launch

LaunchInv == LaunchTypeOK /\ PoolOfLaunch /\ ServicesOn

LEMMA ConfigsTyped == Configs \subseteq ConfigType /\ Configs # {}
<1>1. Configs \subseteq ConfigType
  <2>1. Failures \subseteq Rejecting \cup {"none"} /\ Omissions \subseteq SUBSET Optional /\ Muxes \subseteq Nat
    BY ConfigAssumption, LauncherAssumption
  <2>2. ASSUME NEW c \in ClientConfigs PROVE c \in ConfigType
    BY <2>1 DEF ClientConfigs, ConfigType
  <2>3. ASSUME NEW c \in ServerConfigs PROVE c \in ConfigType
    <3>1. c = [role |-> c.role, fail |-> c.fail, omit |-> c.omit, mux |-> c.mux,
               badDial |-> c.badDial, wrong |-> c.wrong]
      BY <2>3 DEF ServerConfigs
    <3>2. c.role = "server" /\ c.fail \in Failures /\ c.omit \in Omissions /\ c.mux = 0
          /\ c.wrong \in {"none", "server"}
      BY <2>3 DEF ServerConfigs
    <3>3. c.badDial \in BOOLEAN
      BY <2>3 DEF ServerConfigs
    <3> QED BY <2>1, <3>1, <3>2, <3>3 DEF ConfigType
  <2> QED BY <2>2, <2>3 DEF Configs
<1>2. PICK f \in Failures, o \in Omissions : TRUE
  BY ConfigAssumption
<1>3. [role |-> "server", fail |-> f, omit |-> o, mux |-> 0, badDial |-> FALSE, wrong |-> "none"]
         \in ServerConfigs
  BY DEF ServerConfigs
<1> QED
  BY <1>1, <1>3 DEF Configs

LEMMA LaunchInit == LInit => LaunchInv
<1> SUFFICES ASSUME LInit PROVE LaunchInv
  OBVIOUS
<1>1. cfg \in ConfigType
  BY ConfigsTyped DEF LInit
<1>2. LaunchTypeOK
  BY <1>1, LauncherAssumption DEF LInit, LaunchTypeOK
<1>3. PoolOfLaunch
  BY DEF LInit, QueueInit, PoolOfLaunch, Gone, Launches
<1>4. ServicesOn
  BY DEF LInit, ServicesOn, AllServices
<1> QED
  BY <1>2, <1>3, <1>4 DEF LaunchInv

LEMMA LaunchNumber == LaunchInv /\ proc # "idle" => launch \in Launches
BY LauncherAssumption DEF LaunchInv, LaunchTypeOK, PoolOfLaunch, Launches

LEMMA LaunchingKeepsPool ==
    ASSUME QueueInv, LaunchInv, LNext
    PROVE  QueueInv'
<1>1. CASE launchClient
  <2>1. /\ launch \in Launches /\ cfg.mux \in Nat /\ cfg.badDial \in BOOLEAN
        /\ pool[launch] = NoPool /\ InitPool(launch, cfg.mux, cfg.badDial)
    BY <1>1, LaunchNumber DEF launchClient, LaunchInv, LaunchTypeOK, ConfigType, PoolOfLaunch
  <2> QED BY <2>1, InitPoolKeeps
<1>2. CASE Destroy
  <2>1. CASE proc = "close" /\ DestroyPool(launch)
    <3>1. launch \in Launches
      BY <2>1, LaunchNumber
    <3>2. ASSUME NEW n \in Launches, n # launch PROVE Gone(n)
      <4>1. n > launch \/ n < launch
        BY <3>1, <3>2, LauncherAssumption DEF Launches
      <4>2. launch \in Nat /\ n \in Nat
        BY <3>1, LauncherAssumption DEF Launches
      <4> QED BY <4>1, <4>2 DEF LaunchInv, PoolOfLaunch, Gone
    <3>3. NoPool.slots = <<>>
      BY DEF NoPool
    <3>4. \A n \in Launches : n # launch => pool[n].shutdown \/ pool[n].slots = <<>>
      BY <3>2, <3>3 DEF Gone
    <3> QED BY <2>1, <3>1, <3>4, DestroyPoolKeeps
  <2>2. CASE Unpublish \/ UNCHANGED queueVars
    BY <2>2, UnpublishKeeps
  <2> QED BY <1>2, <2>1, <2>2 DEF Destroy
<1>3. CASE Pooling
  BY <1>3, PoolingKeeps
<1>4. CASE UNCHANGED queueVars
  BY <1>4, UnpublishKeeps
<1> QED
  BY <1>1, <1>2, <1>3, <1>4
     DEF LNext, Launch, Stop, Launching, Apply, LaunchFails, launchServer, Waited, listenSignal,
         Serving, Listen, ListenLater, ServiceFails, ServiceStops, ServeFails

LEMMA LaunchKeeps ==
    ASSUME LaunchInv, NEW c \in Configs, Launch(c) PROVE LaunchInv'
<1>1. launch' = launch + 1 /\ launch' \in 0..MaxLaunches /\ proc' = "apply" /\ cfg' = c
      /\ UNCHANGED <<svc, pool, queueVal>> /\ launch \in Nat /\ proc = "idle"
  BY LauncherAssumption DEF Launch, LaunchInv, LaunchTypeOK
<1>2. c \in ConfigType
  BY ConfigsTyped
<1>3. LaunchTypeOK'
  BY <1>1, <1>2 DEF LaunchInv, LaunchTypeOK
<1>4. launch' \in Launches /\ \A n \in Launches : n \in Nat
  BY <1>1, LauncherAssumption DEF Launches
<1>5. pool'[launch'] = NoPool
  <2>1. launch' > launch
    BY <1>1
  <2>2. pool[launch'] = NoPool
    <3>1. PICK m \in Launches : m = launch'
      BY <1>4
    <3> QED BY <1>1, <1>4, <2>1, <3>1 DEF LaunchInv, PoolOfLaunch
  <2> QED BY <1>1, <2>2
<1>6. queueVal' = 0
  BY <1>1 DEF LaunchInv, PoolOfLaunch
<1>7. \A n \in Launches : (n > launch' => pool'[n] = NoPool) /\ (n < launch' => Gone(n)')
  <2> SUFFICES ASSUME NEW n \in Launches
               PROVE  (n > launch' => pool'[n] = NoPool) /\ (n < launch' => Gone(n)')
    OBVIOUS
  <2>1. (n > launch' => n > launch) /\ (n < launch' => n < launch \/ n = launch)
    BY <1>1, <1>4
  <2>2. (n > launch => pool[n] = NoPool) /\ (n < launch \/ n = launch => Gone(n))
    BY <1>1, <1>4 DEF LaunchInv, PoolOfLaunch
  <2> QED BY <1>1, <2>1, <2>2 DEF Gone
<1>8. PoolOfLaunch'
  BY <1>1, <1>4, <1>5, <1>6, <1>7 DEF PoolOfLaunch
<1>9. ServicesOn'
  BY <1>1, LauncherAssumption DEF LaunchInv, ServicesOn, AllServices
<1> QED
  BY <1>3, <1>8, <1>9 DEF LaunchInv

(* Steps of the services and of the wait for a signal: no service is started. *)
LEMMA ServingKeeps ==
    ASSUME LaunchInv, UNCHANGED <<pool, queueVal, launch, proc, cfg>>,
           svc' \in [AllServices -> {"off", "start", "select"}],
           \A s \in AllServices : svc[s] = "off" => svc'[s] = "off"
    PROVE  LaunchInv'
<1>1. LaunchTypeOK'
  BY DEF LaunchInv, LaunchTypeOK
<1>2. PoolOfLaunch'
  BY DEF LaunchInv, PoolOfLaunch, Gone
<1>3. ServicesOn'
  BY DEF LaunchInv, ServicesOn, AllServices
<1> QED
  BY <1>1, <1>2, <1>3 DEF LaunchInv

LEMMA ApplyKeeps == LaunchInv /\ Apply => LaunchInv'
<1> SUFFICES ASSUME LaunchInv, Apply PROVE LaunchInv'
  OBVIOUS
<1>1. UNCHANGED <<pool, queueVal, launch, svc>> /\ proc = "apply" /\ proc' \in {"apply", "init", "idle"}
  BY DEF Apply
<1>2. cfg' \in ConfigType /\ cfg'.role = cfg.role
  BY DEF Apply, LaunchInv, LaunchTypeOK, ConfigType
<1>3. LaunchTypeOK'
  BY <1>1, <1>2 DEF LaunchInv, LaunchTypeOK
<1>4. PoolOfLaunch'
  BY <1>1 DEF LaunchInv, PoolOfLaunch, Gone
<1>5. ServicesOn'
  BY <1>1 DEF LaunchInv, ServicesOn, AllServices
<1> QED
  BY <1>3, <1>4, <1>5 DEF LaunchInv

LEMMA LaunchServerKeeps == LaunchInv /\ (launchServer \/ LaunchFails) => LaunchInv'
<1> SUFFICES ASSUME LaunchInv, launchServer \/ LaunchFails PROVE LaunchInv'
  OBVIOUS
<1>1. UNCHANGED <<pool, queueVal, launch, cfg>> /\ proc = "init" /\ proc' \in {"wait", "idle"} /\ queueVal = 0
  BY DEF launchServer, LaunchFails, LaunchInv, PoolOfLaunch
<1>2. "rpc" \notin Services
  BY LauncherAssumption
<1>3. svc' \in [AllServices -> {"off", "start", "select"}]
  BY DEF launchServer, LaunchFails, Started, LaunchInv, LaunchTypeOK
<1>4. \A s \in Services : svc'[s] = svc[s] /\ svc[s] = "off"
  BY <1>1, <1>2 DEF launchServer, LaunchFails, Started, LaunchInv, ServicesOn, AllServices, LaunchTypeOK
<1>5. proc' = "idle" => svc' = svc
  BY DEF launchServer, LaunchFails
<1>6. LaunchTypeOK'
  BY <1>1, <1>3 DEF LaunchInv, LaunchTypeOK
<1>7. PoolOfLaunch'
  BY <1>1 DEF LaunchInv, PoolOfLaunch, Gone
<1>8. ServicesOn'
  BY <1>1, <1>4, <1>5 DEF LaunchInv, ServicesOn, AllServices
<1> QED
  BY <1>6, <1>7, <1>8 DEF LaunchInv

LEMMA LaunchClientKeeps == QueueInv /\ LaunchInv /\ launchClient => LaunchInv'
<1> SUFFICES ASSUME QueueInv, LaunchInv, launchClient PROVE LaunchInv'
  OBVIOUS
<1>1. UNCHANGED <<launch, cfg>> /\ proc = "init" /\ proc' \in {"wait", "destroy"} /\ queueVal = 0
      /\ cfg.role = "client" /\ launch \in Launches /\ pool[launch] = NoPool
  BY LaunchNumber DEF launchClient, LaunchInv, PoolOfLaunch
<1>2. svc' \in [AllServices -> {"off", "start", "select"}]
  BY DEF launchClient, Started, LaunchInv, LaunchTypeOK
<1>3. LaunchTypeOK'
  BY <1>1, <1>2 DEF LaunchInv, LaunchTypeOK
<1>4. proc' = "destroy" => svc' = svc
  BY <1>1 DEF launchClient
<1>5. \A s \in AllServices : svc[s] = "off"
  BY <1>1 DEF LaunchInv, ServicesOn
<1>6. CASE cfg.badDial /\ cfg.mux > 0
  <2>1. UNCHANGED <<pool, queueVal>> /\ proc' = "destroy"
    BY <1>6 DEF launchClient, InitPool
  <2>2. PoolOfLaunch'
    BY <1>1, <2>1 DEF LaunchInv, PoolOfLaunch, Gone
  <2>3. ServicesOn'
    BY <1>4, <1>5, <2>1 DEF ServicesOn, AllServices
  <2> QED BY <1>3, <2>2, <2>3 DEF LaunchInv
<1>7. CASE ~(cfg.badDial /\ cfg.mux > 0)
  <2>1. queueVal' = launch /\ \E x : x.shutdown = FALSE /\ pool' = [pool EXCEPT ![launch] = x]
    BY <1>7 DEF launchClient, InitPool
  <2>2. ~pool'[launch].shutdown /\ \A n \in Launches : n # launch => pool'[n] = pool[n]
    BY <1>1, <2>1 DEF QueueInv, QueueTypeOK
  <2>3. launch # 0 /\ \A n \in Launches : (n > launch \/ n < launch) => n # launch
    BY <1>1, LauncherAssumption DEF Launches
  <2>4. PoolOfLaunch'
    BY <1>1, <2>1, <2>2, <2>3 DEF LaunchInv, PoolOfLaunch, Gone
  <2>5. ServicesOn'
    BY <1>1, <1>4, <1>5, <2>1 DEF ServicesOn, AllServices
  <2> QED BY <1>3, <2>4, <2>5 DEF LaunchInv
<1> QED
  BY <1>6, <1>7

LEMMA WaitedKeeps == LaunchInv /\ Waited => LaunchInv'
<1> SUFFICES ASSUME LaunchInv, Waited PROVE LaunchInv'
  OBVIOUS
<1>1. UNCHANGED <<pool, queueVal, launch, cfg, svc>> /\ proc = "wait"
      /\ proc' = (IF cfg.role = "client" THEN "destroy" ELSE "idle")
      /\ \A s \in AllServices : svc[s] = "off"
  BY DEF Waited
<1>2. LaunchTypeOK'
  BY <1>1 DEF LaunchInv, LaunchTypeOK
<1>3. cfg.role \in {"client", "server"}
  BY DEF LaunchInv, LaunchTypeOK, ConfigType
<1>4. PoolOfLaunch'
  BY <1>1, <1>3 DEF LaunchInv, PoolOfLaunch, Gone
<1>5. ServicesOn'
  BY <1>1 DEF ServicesOn, AllServices
<1> QED
  BY <1>2, <1>4, <1>5 DEF LaunchInv

LEMMA DestroyKeeps == QueueInv /\ LaunchInv /\ Destroy => LaunchInv'
<1> SUFFICES ASSUME QueueInv, LaunchInv, Destroy PROVE LaunchInv'
  OBVIOUS
<1>1. UNCHANGED <<launch, cfg, svc>> /\ proc \in {"destroy", "close"} /\ proc' \in {"close", "idle"}
  BY DEF Destroy
<1>2. \A s \in AllServices : svc[s] = "off"
  BY <1>1 DEF LaunchInv, ServicesOn
<1>3. ServicesOn'
  BY <1>1, <1>2 DEF ServicesOn, AllServices
<1>4. LaunchTypeOK'
  BY <1>1 DEF LaunchInv, LaunchTypeOK
<1>5. launch \in Launches /\ launch # 0
  BY <1>1, LaunchNumber DEF LaunchInv, PoolOfLaunch
<1>6. CASE proc = "close"
  <2>1. pool' = [pool EXCEPT ![launch].shutdown = TRUE] /\ queueVal' = queueVal /\ proc' = "idle"
    BY <1>6 DEF Destroy, DestroyPool
  <2>2. pool'[launch].shutdown /\ \A n \in Launches : n # launch => pool'[n] = pool[n]
    BY <1>5, <2>1 DEF QueueInv, QueueTypeOK, PoolType
  <2>3. queueVal' = 0
    BY <1>6, <2>1 DEF LaunchInv, PoolOfLaunch
  <2>4. \A n \in Launches : (n > launch \/ n < launch) => n # launch
    BY <1>5, LauncherAssumption DEF Launches
  <2>5. PoolOfLaunch'
    BY <1>1, <1>5, <2>1, <2>2, <2>3, <2>4 DEF LaunchInv, PoolOfLaunch, Gone
  <2> QED BY <1>3, <1>4, <2>5 DEF LaunchInv
<1>7. CASE proc = "destroy" /\ queueVal # 0
  <2>1. UNCHANGED pool /\ queueVal' = 0 /\ proc' = "close"
    BY <1>7 DEF Destroy, Unpublish
  <2>2. PoolOfLaunch'
    BY <1>1, <1>5, <2>1 DEF LaunchInv, PoolOfLaunch, Gone
  <2> QED BY <1>3, <1>4, <2>2 DEF LaunchInv
<1>8. CASE proc = "destroy" /\ queueVal = 0
  <2>1. UNCHANGED <<pool, queueVal>> /\ proc' = "idle"
    BY <1>8 DEF Destroy
  <2>2. PoolOfLaunch'
    BY <1>1, <1>5, <1>8, <2>1 DEF LaunchInv, PoolOfLaunch, Gone
  <2> QED BY <1>3, <1>4, <2>2 DEF LaunchInv
<1> QED
  BY <1>1, <1>6, <1>7, <1>8

LEMMA LaunchStep == QueueInv /\ LaunchInv /\ [LNext]_lvars => QueueInv' /\ LaunchInv'
<1> SUFFICES ASSUME QueueInv, LaunchInv, [LNext]_lvars PROVE QueueInv' /\ LaunchInv'
  OBVIOUS
<1>1. CASE UNCHANGED lvars
  <2>1. LaunchInv'
    BY <1>1, ServingKeeps DEF LaunchInv, LaunchTypeOK
  <2> QED BY <1>1, <2>1, UnpublishKeeps
<1>2. CASE LNext
  <2>1. QueueInv'
    BY <1>2, LaunchingKeepsPool
  <2>2. CASE \E c \in Configs : Launch(c)
    BY <2>1, <2>2, LaunchKeeps
  <2>3. CASE Launching
    BY <2>1, <2>3, ApplyKeeps, LaunchServerKeeps, LaunchClientKeeps, WaitedKeeps, DestroyKeeps DEF Launching
  <2>4. CASE Stop \/ listenSignal
    <3>1. LaunchInv'
      BY <2>4, ServingKeeps DEF Stop, listenSignal, LaunchInv, LaunchTypeOK
    <3> QED BY <2>1, <3>1
  <2>5. CASE Pooling
    <3>1. UNCHANGED <<pool, queueVal>> /\ UNCHANGED launchVars
      BY <2>5, PoolingKeeps DEF Pooling
    <3>2. LaunchInv'
      BY <3>1, ServingKeeps DEF LaunchInv, LaunchTypeOK
    <3> QED BY <2>1, <3>2
  <2>6. ASSUME NEW s \in AllServices, Serving(s) \/ ServeFails(s) PROVE LaunchInv'
    <3>1. UNCHANGED <<pool, queueVal, launch, proc, cfg>>
      BY <2>6 DEF Serving, Listen, ListenLater, ServiceFails, ServiceStops, ServeFails
    <3>2. svc' = svc \/ (svc[s] # "off" /\ \E x \in {"off", "select"} : svc' = [svc EXCEPT ![s] = x])
      BY <2>6 DEF Serving, Listen, ListenLater, ServiceFails, ServiceStops, ServeFails
    <3>3. svc \in [AllServices -> {"off", "start", "select"}]
      BY DEF LaunchInv, LaunchTypeOK
    <3>4. svc' \in [AllServices -> {"off", "start", "select"}]
          /\ \A t \in AllServices : svc[t] = "off" => svc'[t] = "off"
      BY <3>2, <3>3
    <3> QED BY <3>1, <3>4, ServingKeeps
  <2> QED BY <1>2, <2>1, <2>2, <2>3, <2>4, <2>5, <2>6 DEF LNext
<1> QED
  BY <1>1, <1>2

LEMMA LaunchStart == LInit => QueueInv /\ LaunchInv
BY QueueStart, LaunchInit DEF LInit

(* While a service may hand over sessions its pool is published and whole,   *)
(* for any number of launches, services, sessions and connections            *)
(* (api/launcher.go, rpc/client/queue.go).                                     *)
THEOREM PoolOutlivesServices == LSpec => []ServicesHavePool
<1>1. QueueInv /\ LaunchInv => ServicesHavePool
  <2> SUFFICES ASSUME QueueInv, LaunchInv PROVE ServicesHavePool
    OBVIOUS
  <2>1. ASSUME NEW s \in Services, svc[s] # "off" PROVE queueVal = launch /\ ~pool[launch].shutdown
    <3>1. proc = "wait" /\ queueVal = launch
      BY <2>1 DEF LaunchInv, ServicesOn, AllServices
    <3>2. launch # 0
      BY <3>1 DEF LaunchInv, PoolOfLaunch
    <3> QED BY <3>1, <3>2 DEF LaunchInv, PoolOfLaunch
  <2> QED BY <2>1 DEF QueueInv, ServicesHavePool
<1> QED
  BY <1>1, LaunchStart, LaunchStep, PTL DEF LSpec

(* Every open connection has somebody who will close it, whatever sessions,  *)
(* replaceConn and Destroy do at the same time (queue.go:67, 144).             *)
THEOREM NoConnIsLost == LSpec => []ConnsOwned
<1>1. QueueInv /\ LaunchInv => ConnsOwned
  BY DEF QueueInv
<1> QED
  BY <1>1, LaunchStart, LaunchStep, PTL DEF LSpec

----------------------------------------------------------------------------
(* Settings *)

LateSettings == {"routes", "ipv6", "idle"}

(* How far the settings have come with the stage. *)
ModeInv ==
    /\ ConfigTypeOK /\ \A s \in Settings : setting[s] <= launch
    /\ IF proc = "apply"
       THEN /\ stage < 11 /\ ~rejected
            /\ stage <= 8 => /\ \A s \in LateSettings : setting[s] < launch
                             /\ setting["routes"] = setting["ipv6"]
            /\ stage >= 9 => setting["routes"] = launch
            /\ stage >= 10 => setting["ipv6"] = launch
       ELSE stage = 11 /\ ModesConsistent

LEMMA StageNames ==
    /\ Len(Stages) = 11 /\ Stages[9] = "routes" /\ Stages[10] = "ipv6" /\ Stages[11] = "idle"
    /\ \A k \in 1..8 : Stages[k] \notin LateSettings
BY DEF Stages, LateSettings

LEMMA ModeInit == LInit => ModeInv
<1> SUFFICES ASSUME LInit PROVE ModeInv
  OBVIOUS
<1>1. ConfigTypeOK
  <2>1. setting \in [Settings -> Nat] /\ stage \in 0..Len(Stages)
    BY StageNames DEF LInit, ConfigInit
  <2>2. rejected \in BOOLEAN
    BY DEF LInit, ConfigInit
  <2> QED BY <2>1, <2>2 DEF ConfigTypeOK
<1>2. setting["routes"] = 0 /\ setting["ipv6"] = 0 /\ rejected = FALSE
  BY DEF LInit, ConfigInit, Settings
<1>3. ModesConsistent
  BY <1>2 DEF ModesConsistent, ModeMatchesRoutes
<1> QED
  BY <1>1, <1>3, StageNames DEF LInit, ConfigInit, ModeInv

LEMMA ApplyMode == LaunchInv /\ ModeInv /\ Apply => ModeInv'
<1> SUFFICES ASSUME LaunchInv, ModeInv, Apply PROVE ModeInv'
  OBVIOUS
<1>1. /\ proc = "apply" /\ launch' = launch /\ launch \in Nat /\ Stage(launch, cfg)
      /\ stage \in Nat /\ stage < 11 /\ ~rejected /\ setting \in [Settings -> Nat]
  BY StageNames, LauncherAssumption DEF Apply, ModeInv, ConfigTypeOK, LaunchInv, LaunchTypeOK
<1>2. cfg.fail \in Rejecting \cup {"none"} /\ cfg.omit \in SUBSET Optional
  BY DEF LaunchInv, LaunchTypeOK, ConfigType
<1>3. PICK s : s = Stages[stage + 1]
  OBVIOUS
<1>4. /\ stage <= 7 => s \notin LateSettings
      /\ stage = 8 => s = "routes"
      /\ stage = 9 => s = "ipv6"
      /\ stage = 10 => s = "idle"
  BY <1>1, <1>3, StageNames
<1>5. CASE cfg.fail = s /\ (s = "uuid" => cfg.role = "client")
  <2>1. stage' = 11 /\ rejected' = TRUE /\ setting' = setting /\ proc' = "idle"
    BY <1>3, <1>5, StageNames DEF Apply, Stage
  <2>2. stage <= 8
    BY <1>1, <1>2, <1>4, <1>5 DEF Rejecting
  <2>3. setting["routes"] = setting["ipv6"] /\ \A t \in LateSettings : setting[t] < launch
    BY <1>1, <2>2 DEF ModeInv
  <2>4. \A t \in LateSettings : setting[t] # launch
    BY <1>1, <2>3 DEF LateSettings, Settings
  <2>5. ModesConsistent'
    BY <1>1, <2>1, <2>3, <2>4 DEF ModesConsistent, ModeMatchesRoutes, LateSettings
  <2>6. ConfigTypeOK'
    BY <2>1, StageNames DEF ModeInv, ConfigTypeOK
  <2> QED BY <1>1, <2>1, <2>5, <2>6 DEF ModeInv
<1>6. CASE ~(cfg.fail = s /\ (s = "uuid" => cfg.role = "client"))
  <2>1. /\ stage' = stage + 1 /\ rejected' = rejected
        /\ setting' = IF Has(cfg, s) THEN [setting EXCEPT ![s] = launch] ELSE setting
    BY <1>1, <1>3, <1>6 DEF Stage
  <2>2. proc' = IF stage + 1 < 11 THEN "apply" ELSE "init"
    BY <1>1, <2>1, StageNames DEF Apply
  <2>3. s \in {"routes", "ipv6"} => Has(cfg, s)
    BY <1>2 DEF Has, Settings, Optional
  <2>4. Has(cfg, s) => s \in Settings
    BY DEF Has
  <2>5. setting' \in [Settings -> Nat] /\ \A t \in Settings : t # s => setting'[t] = setting[t]
    BY <1>1, <2>1, <2>4
  <2>6. \A t \in Settings : setting'[t] <= launch
    BY <1>1, <2>1, <2>4, <2>5 DEF ModeInv
  <2>7. LateSettings \subseteq Settings /\ "routes" \in Settings /\ "ipv6" \in Settings
    BY DEF LateSettings, Settings
  <2>8. ConfigTypeOK'
    BY <1>1, <2>1, <2>5, StageNames DEF ModeInv, ConfigTypeOK
  <2>9. stage <= 7 => /\ \A t \in LateSettings : setting'[t] < launch
                      /\ setting'["routes"] = setting'["ipv6"]
    BY <1>1, <1>4, <2>5, <2>7 DEF ModeInv, LateSettings
  <2>10. stage >= 8 => setting'["routes"] = launch
    <3>1. CASE stage = 8
      BY <1>1, <1>4, <2>1, <2>3, <2>7, <3>1
    <3>2. CASE stage >= 9
      BY <1>1, <1>4, <2>5, <2>7, <3>2 DEF ModeInv
    <3> QED BY <1>1, <3>1, <3>2
  <2>11. stage >= 9 => setting'["ipv6"] = launch
    <3>1. CASE stage = 9
      BY <1>1, <1>4, <2>1, <2>3, <2>7, <3>1
    <3>2. CASE stage >= 10
      BY <1>1, <1>4, <2>5, <2>7, <3>2 DEF ModeInv
    <3> QED BY <1>1, <3>1, <3>2
  <2>12. CASE stage + 1 < 11
    BY <1>1, <2>1, <2>2, <2>6, <2>8, <2>9, <2>10, <2>11, <2>12 DEF ModeInv
  <2>13. CASE stage = 10
    <3>1. ModesConsistent'
      BY <1>1, <2>1, <2>10, <2>11, <2>13 DEF ModesConsistent, ModeMatchesRoutes
    <3> QED BY <1>1, <2>1, <2>2, <2>6, <2>8, <2>13, <3>1 DEF ModeInv
  <2> QED BY <1>1, <2>12, <2>13
<1> QED
  BY <1>5, <1>6

LEMMA LaunchMode ==
    ASSUME LaunchInv, ModeInv, NEW c \in Configs, Launch(c) PROVE ModeInv'
<1>1. /\ launch' = launch + 1 /\ launch \in Nat /\ proc = "idle" /\ proc' = "apply"
      /\ stage' = 0 /\ rejected' = FALSE /\ setting' = setting /\ setting \in [Settings -> Nat]
  BY LauncherAssumption DEF Launch, ModeInv, ConfigTypeOK, LaunchInv, LaunchTypeOK
<1>2. setting["routes"] = setting["ipv6"]
  BY <1>1, StageNames DEF ModeInv, ModesConsistent, ModeMatchesRoutes
<1>3. \A s \in Settings : setting[s] < launch' /\ setting[s] <= launch'
  BY <1>1 DEF ModeInv
<1>4. LateSettings \subseteq Settings
  BY DEF LateSettings, Settings
<1>5. ConfigTypeOK'
  <2>1. setting' \in [Settings -> Nat] /\ stage' \in 0..Len(Stages)
    BY <1>1, StageNames
  <2>2. rejected' \in BOOLEAN
    BY <1>1
  <2> QED BY <2>1, <2>2 DEF ConfigTypeOK
<1> QED
  BY <1>1, <1>2, <1>3, <1>4, <1>5 DEF ModeInv

LEMMA ModeStep == LaunchInv /\ ModeInv /\ [LNext]_lvars => ModeInv'
<1> SUFFICES ASSUME LaunchInv, ModeInv, [LNext]_lvars PROVE ModeInv'
  OBVIOUS
<1>1. CASE \E c \in Configs : Launch(c)
  BY <1>1, LaunchMode
<1>2. CASE Apply
  BY <1>2, ApplyMode
<1>3. CASE UNCHANGED <<configVars, launch>> /\ (proc' = "apply" <=> proc = "apply")
  <2>1. ConfigTypeOK'
    BY <1>3 DEF ModeInv, ConfigTypeOK
  <2>2. ModesConsistent' <=> ModesConsistent
    BY <1>3 DEF ModesConsistent, ModeMatchesRoutes
  <2> QED BY <1>3, <2>1, <2>2 DEF ModeInv
<1>4. CASE LaunchFails \/ launchServer \/ launchClient \/ Waited \/ Destroy
  <2>1. UNCHANGED <<configVars, launch>> /\ proc' # "apply" /\ proc # "apply"
    BY <1>4 DEF LaunchFails, launchServer, launchClient, Waited, Destroy
  <2> QED BY <1>3, <2>1
<1>5. CASE Stop \/ listenSignal \/ Pooling \/ (\E s \in AllServices : Serving(s) \/ ServeFails(s))
  <2>1. UNCHANGED <<configVars, launch, proc>>
    BY <1>5 DEF Stop, listenSignal, Pooling, Serving, Listen, ListenLater, ServiceFails,
       ServiceStops, ServeFails
  <2> QED BY <1>3, <2>1
<1> QED
  BY <1>1, <1>2, <1>3, <1>4, <1>5 DEF LNext, Launching

(* The routes that block IPv6 and the mode that does not dial it come from   *)
(* the same configuration, which was not rejected, for any sequence of       *)
(* configurations (pkg/config/config.go:182).                                  *)
THEOREM ModesFollowRoutes == LSpec => []ModesConsistent
<1>1. LaunchInv /\ ModeInv => ModesConsistent
  BY StageNames DEF ModeInv, ModesConsistent, ModeMatchesRoutes, ConfigTypeOK
<1>2. LInit => QueueInv /\ LaunchInv /\ ModeInv
  BY LaunchStart, ModeInit
<1>3. QueueInv /\ LaunchInv /\ ModeInv /\ [LNext]_lvars => QueueInv' /\ LaunchInv' /\ ModeInv'
  BY LaunchStep, ModeStep
<1> QED
  BY <1>1, <1>2, <1>3, PTL DEF LSpec

----------------------------------------------------------------------------
(* Loads *)

LEMMA UsersBound ==
    ASSUME NEW c
    PROVE  /\ IsFiniteSet(Users(c)) /\ Cardinality(Users(c)) \in Nat
           /\ Cardinality(Users(c)) <= Cardinality(Sessions) /\ Cardinality(Sessions) \in Nat
<1>1. Users(c) \subseteq Sessions
  BY DEF Users
<1> QED
  BY <1>1, QueueAssumption, FS_Subset, FS_CardinalityType

LEMMA CountUp ==
    ASSUME NEW m \in Nat, NEW a \in Nat, a + 1 < m PROVE (a + 1) % m = a + 1
OBVIOUS

LEMMA CountDown ==
    ASSUME NEW m \in Nat, NEW a \in Nat, 0 < a, a < m PROVE (a + m - 1) % m = a - 1
OBVIOUS

(* A connection whose users stay the same, or a new one that has none. *)
LEMMA SameUsers ==
    ASSUME LoadIsUsers,
           \A c \in Conns : \/ load'[c] = load[c] /\ Users(c)' = Users(c)
                            \/ load'[c] = 0 /\ Users(c)' = {}
    PROVE  LoadIsUsers'
BY FS_EmptySet DEF LoadIsUsers

LEMMA FreshUnused ==
    ASSUME QueueInv, NEW c \in Fresh PROVE Users(c) = {}
BY FreshFacts DEF QueueInv, Users

LEMMA UseLoad ==
    ASSUME QueueInv, LoadIsUsers, NEW s \in Sessions, Use(s) PROVE LoadIsUsers'
<1>1. sess[s] \in SessionType /\ sess[s].pc = "picked" /\ sess[s].c \in Conns
      /\ sess \in [Sessions -> SessionType] /\ load \in [Conns -> Nat]
  BY DEF Use, QueueInv, QueueTypeOK, SessionsOK, SessionType
<1>2. CASE Live(sess[s].c)
  <2>1. PICK a \in Conns : a = sess[s].c
    BY <1>1
  <2>2. /\ load' = [load EXCEPT ![a] = (load[a] + 1) % LoadMod]
        /\ sess' = [sess EXCEPT ![s].pc = "using"]
    BY <1>2, <2>1 DEF Use
  <2>3. /\ sess'[s].pc = "using" /\ sess'[s].c = a
        /\ \A t \in Sessions : t # s => sess'[t] = sess[t]
    BY <1>1, <2>1, <2>2 DEF SessionType
  <2>4. s \notin Users(a) /\ Users(a)' = Users(a) \cup {s}
    BY <1>1, <2>1, <2>3 DEF Users
  <2>5. \A c \in Conns : c # a => Users(c)' = Users(c)
    BY <1>1, <2>1, <2>3 DEF Users
  <2>6. Cardinality(Users(a)') = Cardinality(Users(a)) + 1
    BY <2>4, UsersBound, FS_AddElement
  <2>7. Cardinality(Users(a)') <= Cardinality(Sessions)
    <3>1. Users(a)' \subseteq Sessions
      BY DEF Users
    <3> QED BY <3>1, QueueAssumption, FS_Subset
  <2>8. load[a] = Cardinality(Users(a)) /\ load[a] \in Nat
    BY <1>1 DEF LoadIsUsers
  <2>9. load[a] + 1 < LoadMod /\ LoadMod \in Nat
    BY <2>6, <2>7, <2>8, UsersBound, QueueAssumption
  <2>10. load'[a] = Cardinality(Users(a)')
    BY <1>1, <2>2, <2>6, <2>8, <2>9, CountUp
  <2>11. \A c \in Conns : c # a => load'[c] = Cardinality(Users(c)')
    BY <1>1, <2>2, <2>5 DEF LoadIsUsers
  <2> QED BY <2>10, <2>11 DEF LoadIsUsers
<1>3. CASE ~Live(sess[s].c)
  <2>1. load' = load /\ sess' = [sess EXCEPT ![s] = Idle]
    BY <1>3 DEF Use
  <2>2. \A c \in Conns : Users(c)' = Users(c)
    BY <1>1, <2>1, IdleSession DEF Users
  <2> QED BY <2>1, <2>2, SameUsers
<1> QED
  BY <1>2, <1>3

LEMMA DoneLoad ==
    ASSUME QueueInv, LoadIsUsers, NEW s \in Sessions, Done(s) PROVE LoadIsUsers'
<1>1. /\ sess' = [sess EXCEPT ![s] = Idle]
      /\ sess \in [Sessions -> SessionType] /\ load \in [Conns -> Nat]
  BY DEF Done, QueueInv, QueueTypeOK
<1>2. sess'[s] = Idle /\ \A t \in Sessions : t # s => sess'[t] = sess[t]
  BY <1>1
<1>3. CASE sess[s].pc = "using"
  <2>1. PICK a : a = sess[s].c
    OBVIOUS
  <2>2. load' = [load EXCEPT ![a] = (load[a] + LoadMod - 1) % LoadMod]
    BY <1>3, <2>1 DEF Done
  <2>3. s \in Users(a) /\ Users(a)' = Users(a) \ {s}
    BY <1>2, <1>3, <2>1, IdleSession DEF Users
  <2>4. \A c \in Conns : c # a => Users(c)' = Users(c)
    BY <1>2, <1>3, <2>1, IdleSession DEF Users
  <2>5. /\ Cardinality(Users(a)') = Cardinality(Users(a)) - 1
        /\ Cardinality(Users(a)) # 0
    BY <2>3, UsersBound, FS_RemoveElement, FS_EmptySet
  <2>6. ASSUME a \in Conns PROVE load'[a] = Cardinality(Users(a)')
    <3>1. load[a] = Cardinality(Users(a)) /\ load[a] \in Nat
      BY <1>1, <2>6 DEF LoadIsUsers
    <3>2. 0 < load[a] /\ load[a] < LoadMod /\ LoadMod \in Nat
      BY <2>5, <3>1, UsersBound, QueueAssumption
    <3> QED BY <1>1, <2>2, <2>5, <2>6, <3>1, <3>2, CountDown
  <2>7. \A c \in Conns : c # a => load'[c] = Cardinality(Users(c)')
    BY <1>1, <2>2, <2>4 DEF LoadIsUsers
  <2> QED BY <2>6, <2>7 DEF LoadIsUsers
<1>4. CASE sess[s].pc = "owner"
  <2>1. load' = load
    BY <1>4 DEF Done
  <2>2. \A c \in Conns : Users(c)' = Users(c)
    BY <1>2, <1>4, IdleSession DEF Users
  <2> QED BY <2>1, <2>2, SameUsers
<1> QED
  BY <1>3, <1>4 DEF Done

LEMMA LookingLoad ==
    ASSUME QueueInv, LoadIsUsers, NEW s \in Sessions,
           GetQueue(s) \/ GetConn(s) \/ PickLeastLoaded(s)
    PROVE  LoadIsUsers'
<1>1. load' = load /\ sess \in [Sessions -> SessionType] /\ sess[s].pc # "using"
      /\ \A t \in Sessions : t # s => sess'[t] = sess[t]
  BY DEF GetQueue, GetConn, PickLeastLoaded, QueueInv, QueueTypeOK
<1>2. sess'[s].pc # "using"
  <2>1. CASE GetQueue(s)
    <3>1. sess'[s] = [Idle EXCEPT !.pc = "new", !.q = queueVal]
      BY <1>1, <2>1 DEF GetQueue
    <3> QED BY <3>1 DEF Idle
  <2>2. CASE GetConn(s)
    <3>1. sess'[s] = Idle \/ sess'[s] = [sess[s] EXCEPT !.pc = "scan", !.i = 1]
      BY <1>1, <2>2 DEF GetConn
    <3>2. [sess[s] EXCEPT !.pc = "scan", !.i = 1].pc = "scan"
      BY <1>1 DEF SessionType
    <3> QED BY <3>1, <3>2, IdleSession
  <2>3. CASE PickLeastLoaded(s)
    <3> DEFINE c    == pool[sess[s].q].slots[sess[s].i]
               best == IF Live(c) /\ (sess[s].c = NoConn \/ load[c] < sess[s].min)
                       THEN [sess[s] EXCEPT !.c = c, !.min = load[c]] ELSE sess[s]
    <3>1. PICK b : b = best
      OBVIOUS
    <3>2. sess'[s] = IF b.i < Len(pool[sess[s].q].slots) THEN [b EXCEPT !.i = b.i + 1]
                     ELSE IF b.c = NoConn THEN Idle
                     ELSE [b EXCEPT !.pc = "picked", !.i = 0, !.min = 0]
      BY <1>1, <2>3, <3>1 DEF PickLeastLoaded
    <3>3. /\ [b EXCEPT !.i = b.i + 1].pc = "scan"
          /\ [b EXCEPT !.pc = "picked", !.i = 0, !.min = 0].pc = "picked"
      BY <1>1, <2>3, <3>1 DEF SessionType, PickLeastLoaded
    <3> QED BY <3>2, <3>3, IdleSession
  <2> QED BY <2>1, <2>2, <2>3
<1>3. \A c \in Conns : Users(c)' = Users(c)
  BY <1>1, <1>2 DEF Users
<1> QED
  BY <1>1, <1>3, SameUsers

LEMMA DialOutsideLoad ==
    ASSUME QueueInv, LoadIsUsers, NEW s \in Sessions, DialOutside(s) PROVE LoadIsUsers'
<1>1. sess[s].pc = "new" /\ sess \in [Sessions -> SessionType] /\ load \in [Conns -> Nat]
  BY DEF DialOutside, QueueInv, QueueTypeOK
<1>2. CASE pool[sess[s].q].bad
  <2>1. load' = load /\ sess' = [sess EXCEPT ![s] = Idle]
    BY <1>2 DEF DialOutside
  <2>2. \A c \in Conns : Users(c)' = Users(c)
    BY <1>1, <2>1, IdleSession DEF Users
  <2> QED BY <2>1, <2>2, SameUsers
<1>3. CASE ~pool[sess[s].q].bad
  <2>1. PICK a \in Fresh : a = New
    BY <1>3, FreshOne DEF DialOutside
  <2>2. load' = [load EXCEPT ![a] = 0] /\ sess' = [sess EXCEPT ![s] = [sess[s] EXCEPT !.pc = "owner", !.c = a]]
    BY <1>3, <2>1 DEF DialOutside
  <2>3. sess'[s].pc = "owner" /\ \A t \in Sessions : t # s => sess'[t] = sess[t]
    BY <1>1, <2>2 DEF SessionType
  <2>4. \A c \in Conns : Users(c)' = Users(c)
    BY <1>1, <2>3 DEF Users
  <2>5. Users(a) = {} /\ a \in Conns
    BY FreshUnused, FreshFacts DEF QueueInv
  <2> QED BY <1>1, <2>2, <2>4, <2>5, SameUsers
<1> QED
  BY <1>2, <1>3

LEMMA LoadStep ==
    QueueInv /\ LaunchInv /\ LoadIsUsers /\ [LNext]_lvars => LoadIsUsers'
<1> SUFFICES ASSUME QueueInv, LaunchInv, LoadIsUsers, [LNext]_lvars PROVE LoadIsUsers'
  OBVIOUS
<1>1. CASE UNCHANGED <<load, sess>>
  BY <1>1, SameUsers DEF Users
<1>2. ASSUME NEW s \in Sessions, Session(s) PROVE LoadIsUsers'
  BY <1>2, UseLoad, DoneLoad, LookingLoad, DialOutsideLoad DEF Session
<1>3. ASSUME NEW r \in replacers, ReplaceDials(r) \/ Replace(r) PROVE LoadIsUsers'
  <2>1. CASE Replace(r)
    BY <1>1, <2>1 DEF Replace
  <2>2. CASE ReplaceDials(r)
    <3>1. PICK a \in Fresh : a = New
      BY <2>2, FreshOne DEF ReplaceDials
    <3>2. load' = [load EXCEPT ![a] = 0] /\ sess' = sess /\ load \in [Conns -> Nat]
      BY <2>2, <3>1 DEF ReplaceDials, QueueInv, QueueTypeOK
    <3>3. \A c \in Conns : Users(c)' = Users(c)
      BY <3>2 DEF Users
    <3>4. Users(a) = {}
      BY FreshUnused
    <3> QED BY <3>2, <3>3, <3>4, SameUsers
  <2> QED BY <1>3, <2>1, <2>2
<1>4. CASE launchClient
  <2>1. cfg.mux \in Nat /\ InitPool(launch, cfg.mux, cfg.badDial)
    BY <1>4 DEF launchClient, LaunchInv, LaunchTypeOK, ConfigType
  <2>2. PICK f : f = CHOOSE g \in [1..cfg.mux -> Fresh] : \A i, j \in 1..cfg.mux : g[i] = g[j] => i = j
    OBVIOUS
  <2>3. f \in [1..cfg.mux -> Fresh]
    <3>1. \E g \in [1..cfg.mux -> Fresh] : \A i, j \in 1..cfg.mux : g[i] = g[j] => i = j
      BY <2>1, FreshSlots DEF InitPool, QueueInv
    <3> QED BY <2>2, <3>1
  <2>4. CASE ~UNCHANGED queueVars
    <3>1. ~(cfg.badDial /\ cfg.mux > 0)
      BY <2>1, <2>4, Zenon DEF InitPool
    <3>2. LET g == CHOOSE g \in [1..cfg.mux -> Fresh] : \A i, j \in 1..cfg.mux : g[i] = g[j] => i = j
          IN  /\ load' = [c \in Conns |-> IF c \in {g[i] : i \in 1..cfg.mux} THEN 0 ELSE load[c]]
              /\ UNCHANGED sess
      BY <2>1, <3>1, Zenon DEF InitPool
    <3>3. /\ load' = [c \in Conns |-> IF c \in {f[i] : i \in 1..cfg.mux} THEN 0 ELSE load[c]]
          /\ UNCHANGED sess
      BY <2>2, <3>2, Zenon
    <3>4. \A c \in Conns : Users(c)' = Users(c)
      BY <3>3 DEF Users
    <3>5. \A c \in {f[i] : i \in 1..cfg.mux} : Users(c) = {}
      BY <2>3, FreshUnused
    <3> QED BY <3>3, <3>4, <3>5, SameUsers
  <2> QED BY <1>1, <2>4
<1> QED
  BY <1>1, <1>2, <1>3, <1>4
     DEF LNext, Launch, Stop, Launching, Apply, LaunchFails, launchServer, Waited, Destroy,
         Unpublish, DestroyPool, listenSignal, Pooling, Serving, Listen, ListenLater, ServiceFails,
         ServiceStops, ServeFails

(* The load of a connection is the number of its users as long as there are  *)
(* fewer sessions than the counter can count: no Done is missed, and none    *)
(* wraps it (wrapper.go:45).                                                   *)
THEOREM LoadsCount == LSpec => []LoadIsUsers
<1>1. LInit => QueueInv /\ LaunchInv /\ LoadIsUsers
  <2> SUFFICES ASSUME LInit PROVE LoadIsUsers
    BY LaunchStart
  <2>1. \A c \in Conns : load[c] = 0 /\ Users(c) = {}
    BY DEF LInit, QueueInit, Users, Idle
  <2> QED BY <2>1, FS_EmptySet DEF LoadIsUsers
<1>2. QueueInv /\ LaunchInv /\ LoadIsUsers /\ [LNext]_lvars => QueueInv' /\ LaunchInv' /\ LoadIsUsers'
  BY LaunchStep, LoadStep
<1> QED
  BY <1>1, <1>2, PTL DEF LSpec

----------------------------------------------------------------------------
(* Types, and what an idle launcher leaves behind *)

ServingTypeOK ==
    /\ stopped \in BOOLEAN /\ done \in BOOLEAN /\ sig \in BOOLEAN
    /\ gor \in [AllServices -> {"off", "start", "run", "err"}]
    /\ bound \subseteq AllServices

LTypeOK == ConfigTypeOK /\ QueueTypeOK /\ LaunchTypeOK /\ ServingTypeOK

LEMMA ServingTyped ==
    ASSUME ServingTypeOK, NEW s \in AllServices, Serving(s) \/ ServeFails(s)
    PROVE  ServingTypeOK'
<1> USE DEF ServingTypeOK
<1>1. CASE Listen(s)
  BY <1>1 DEF Listen
<1>2. CASE ListenLater(s)
  <2>1. PICK g \in {"run", "off", "err"} : gor' = [gor EXCEPT ![s] = g]
    BY <1>2 DEF ListenLater
  <2> QED BY <1>2, <2>1 DEF ListenLater
<1>3. CASE ServiceFails(s) \/ ServeFails(s)
  BY <1>3 DEF ServiceFails, ServeFails
<1>4. CASE ServiceStops(s)
  <2>1. PICK g \in {"start", "off"} : gor' = [gor EXCEPT ![s] = g]
    BY <1>4 DEF ServiceStops
  <2> QED BY <1>4, <2>1 DEF ServiceStops
<1> QED
  BY <1>1, <1>2, <1>3, <1>4 DEF Serving

LEMMA StartedTyped ==
    ASSUME ServingTypeOK, NEW services, Started(services), UNCHANGED <<stopped, done, bound>>
    PROVE  ServingTypeOK'
<1>1. ASSUME NEW s \in AllServices
      PROVE  (IF s \in services \cap {"http", "dns"} THEN "start" ELSE gor[s])
                \in {"off", "start", "run", "err"}
  BY DEF ServingTypeOK
<1>2. gor' = [s \in AllServices |-> IF s \in services \cap {"http", "dns"} THEN "start" ELSE gor[s]]
  BY DEF Started
<1>3. gor' \in [AllServices -> {"off", "start", "run", "err"}]
  BY <1>1, <1>2
<1> QED
  BY <1>3 DEF Started, ServingTypeOK

LEMMA ServingTypeStep == ServingTypeOK /\ [LNext]_lvars => ServingTypeOK'
<1> SUFFICES ASSUME ServingTypeOK, [LNext]_lvars PROVE ServingTypeOK'
  OBVIOUS
<1>1. CASE UNCHANGED <<stopped, done, sig, gor, bound>>
  BY <1>1 DEF ServingTypeOK
<1>2. CASE \E c \in Configs : Launch(c)
  BY <1>2 DEF Launch, ServingTypeOK
<1>3. CASE Stop \/ listenSignal
  BY <1>3 DEF Stop, listenSignal, ServingTypeOK
<1>4. CASE launchServer
  BY <1>4, StartedTyped DEF launchServer
<1>5. CASE launchClient
  <2>1. UNCHANGED <<sig, svc, gor>> \/ Started(Services)
    BY <1>5 DEF launchClient
  <2>2. UNCHANGED <<stopped, done, bound>>
    BY <1>5 DEF launchClient
  <2> QED BY <1>1, <2>1, <2>2, StartedTyped
<1>6. CASE Pooling \/ Apply \/ LaunchFails \/ Waited \/ Destroy
  BY <1>1, <1>6 DEF Pooling, Apply, LaunchFails, Waited, Destroy
<1> QED
  BY <1>1, <1>2, <1>3, <1>4, <1>5, <1>6, ServingTyped DEF LNext, Launching

(* Every variable of the launcher keeps its type (api/launcher.go).          *)
THEOREM LauncherTypeCorrect == LSpec => []LTypeOK
<1>1. LInit => QueueInv /\ LaunchInv /\ ModeInv /\ ServingTypeOK
  <2>1. LInit => ServingTypeOK
    BY DEF LInit, ServingTypeOK
  <2> QED BY <2>1, LaunchStart, ModeInit
<1>2. QueueInv /\ LaunchInv /\ ModeInv /\ ServingTypeOK /\ [LNext]_lvars
        => QueueInv' /\ LaunchInv' /\ ModeInv' /\ ServingTypeOK'
  BY LaunchStep, ModeStep, ServingTypeStep
<1>3. QueueInv /\ LaunchInv /\ ModeInv /\ ServingTypeOK => LTypeOK
  BY DEF QueueInv, LaunchInv, ModeInv, LTypeOK
<1> QED
  BY <1>1, <1>2, <1>3, PTL DEF LSpec

(* Between launches only sessions and replacements hold connections open,   *)
(* and no service still runs that could hand over another session.          *)
IdleHoldsNothing ==
    proc = "idle" =>
        /\ \A s \in AllServices : svc[s] = "off"
        /\ \A c \in Conns : Live(c) => \/ \E s \in Sessions : sess[s].pc = "owner" /\ sess[s].c = c
                                       \/ \E r \in replacers : r.new = c

(* A launch that has returned has closed every connection of its pool,      *)
(* however it ended: what LaunchEnds needs of the sessions that are left is  *)
(* that they end (api/launcher.go, queue.go:144).                             *)
THEOREM IdleLauncherHoldsNothing == LSpec => []IdleHoldsNothing
<1>1. QueueInv /\ LaunchInv => IdleHoldsNothing
  <2> SUFFICES ASSUME QueueInv, LaunchInv, proc = "idle"
               PROVE  /\ \A s \in AllServices : svc[s] = "off"
                      /\ \A c \in Conns : Live(c) =>
                             \/ \E s \in Sessions : sess[s].pc = "owner" /\ sess[s].c = c
                             \/ \E r \in replacers : r.new = c
    BY DEF IdleHoldsNothing
  <2>1. \A s \in AllServices : svc[s] = "off"
    BY DEF LaunchInv, ServicesOn
  <2>2. \A n \in Launches : Gone(n)
    BY DEF LaunchInv, LaunchTypeOK, PoolOfLaunch, Gone, Launches
  <2>3. ASSUME NEW n \in DOMAIN pool, ~pool[n].shutdown PROVE DOMAIN pool[n].slots = {}
    <3>1. pool[n] = NoPool
      BY <2>2, <2>3 DEF Gone, QueueInv, QueueTypeOK
    <3> QED BY <3>1 DEF NoPool
  <2> QED BY <2>1, <2>3 DEF QueueInv, ConnsOwned
<1> QED
  BY <1>1, LaunchStart, LaunchStep, PTL DEF LSpec
=============================================================================
