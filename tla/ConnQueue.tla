----------------------------- MODULE ConnQueue ------------------------------
(***************************************************************************)
(* The pool of gRPC connections: ConnQueue, ConnWrapper and the functions  *)
(* of rpc/client that publish, use and destroy a pool.  A pool is known by *)
(* the launch that made it.  A connection is known by a name, which may be  *)
(* used again once the connection is closed and nobody refers to it.       *)
(* A pooled connection is shut down by nothing but its Close, and whether  *)
(* dialling fails depends on the parameters of the pool alone.             *)
(***************************************************************************)
EXTENDS Naturals, Sequences, FiniteSets

CONSTANTS
    Sessions,   \* goroutines that ask for a connection
    Conns,      \* the names of connections
    NoConn,
    LoadMod     \* the width of the load counter, 2^32 in the code

ASSUME QueueAssumption ==
    /\ IsFiniteSet(Conns) /\ NoConn \notin Conns
    /\ IsFiniteSet(Sessions) /\ LoadMod \in Nat /\ Cardinality(Sessions) < LoadMod

VARIABLES
    pool,      \* launch -> its pool: the connections, shutdown flag, parameters
    queueVal,  \* the published pool, 0 for none
    conn,      \* each connection: "live" or "shut"
    load,      \* ConnWrapper.InUse of each
    sess,      \* what each session is doing
    replacers  \* replaceConn goroutines: who started it, pool, old and new connection

queueVars == <<pool, queueVal, conn, load, sess, replacers>>

Idle == [pc |-> "idle", q |-> 0, i |-> 0, c |-> NoConn, min |-> 0]

NoPool == [size |-> 0, slots |-> <<>>, shutdown |-> FALSE, bad |-> FALSE]

QueueInit(launches) ==
    /\ pool = [n \in launches |-> NoPool] /\ queueVal = 0
    /\ conn = [c \in Conns |-> "shut"] /\ load = [c \in Conns |-> 0]
    /\ sess = [s \in Sessions |-> Idle]
    /\ replacers = {}

Live(c) == conn[c] = "live"

(* NewConnWrapper and Close, for all of cs. *)
Opened(cs) == [c \in Conns |-> IF c \in cs THEN "live" ELSE conn[c]]
Closed(cs) == [c \in Conns |-> IF c \in cs THEN "shut" ELSE conn[c]]

(* The names that may be given to a new connection. *)
Fresh ==
    {c \in Conns : /\ conn[c] = "shut"
                   /\ \A s \in Sessions : sess[s].c # c
                   /\ \A r \in replacers : c \notin {r.old, r.new}
                   /\ \A n \in DOMAIN pool : pool[n].shutdown \/ \A i \in DOMAIN pool[n].slots : pool[n].slots[i] # c}
New == CHOOSE c \in Fresh : TRUE

(* Scans hold the read lock of their pool. *)
WriteLock(q) == \A s \in Sessions : ~(sess[s].pc = "scan" /\ sess[s].q = q)

----------------------------------------------------------------------------
(* Init of launch n, with mux connections: nothing else knows the pool yet. *)
InitPool(n, mux, bad) ==
    /\ Cardinality(Fresh) >= mux
    /\ IF bad /\ mux > 0
       THEN UNCHANGED queueVars
       ELSE LET slots == CHOOSE f \in [1..mux -> Fresh] : \A i, j \in 1..mux : f[i] = f[j] => i = j
                cs    == {slots[i] : i \in 1..mux}
            IN  /\ pool' = [pool EXCEPT ![n] =
                               [size |-> mux, slots |-> slots, shutdown |-> FALSE, bad |-> bad]]
                /\ conn' = Opened(cs)
                /\ load' = [c \in Conns |-> IF c \in cs THEN 0 ELSE load[c]]
                /\ queueVal' = n
                /\ UNCHANGED <<sess, replacers>>

(* Destroy takes the pool out of sight, ... *)
Unpublish ==
    /\ queueVal' = 0
    /\ UNCHANGED <<pool, conn, load, sess, replacers>>

(* ... and closes what it holds. *)
DestroyPool(q) ==
    /\ WriteLock(q)
    /\ pool' = [pool EXCEPT ![q].shutdown = TRUE]
    /\ conn' = Closed({pool[q].slots[i] : i \in 1..pool[q].size})
    /\ UNCHANGED <<queueVal, load, sess, replacers>>

----------------------------------------------------------------------------
(* A session: New, the RPCs made with the client, and its Close *)

GetQueue(s) ==
    /\ sess[s].pc = "idle" /\ queueVal # 0
    /\ sess' = [sess EXCEPT ![s] = [Idle EXCEPT !.pc = "new", !.q = queueVal]]
    /\ UNCHANGED <<pool, queueVal, conn, load, replacers>>

(* GetConnOutSide: a pool of size 0 dials, shut down or not. *)
DialOutside(s) ==
    /\ sess[s].pc = "new" /\ pool[sess[s].q].size = 0
    /\ IF pool[sess[s].q].bad
       THEN sess' = [sess EXCEPT ![s] = Idle] /\ UNCHANGED <<conn, load>>
       ELSE /\ Fresh # {}
            /\ conn' = Opened({New}) /\ load' = [load EXCEPT ![New] = 0]
            /\ sess' = [sess EXCEPT ![s] = [@ EXCEPT !.pc = "owner", !.c = New]]
    /\ UNCHANGED <<pool, queueVal, replacers>>

GetConn(s) ==
    /\ sess[s].pc = "new" /\ pool[sess[s].q].size > 0
    /\ sess' = [sess EXCEPT ![s] = IF pool[sess[s].q].shutdown THEN Idle
                                   ELSE [@ EXCEPT !.pc = "scan", !.i = 1]]
    /\ UNCHANGED <<pool, queueVal, conn, load, replacers>>

(* One turn of PickLeastLoaded.  The loads are read one by one, while other *)
(* sessions use the connections and leave them.                              *)
PickLeastLoaded(s) ==
    /\ sess[s].pc = "scan"
    /\ LET slots == pool[sess[s].q].slots
           c     == slots[sess[s].i]
           best  == IF Live(c) /\ (sess[s].c = NoConn \/ load[c] < sess[s].min)
                    THEN [sess[s] EXCEPT !.c = c, !.min = load[c]] ELSE sess[s]
       IN  sess' = [sess EXCEPT ![s] =
                       IF best.i < Len(slots) THEN [best EXCEPT !.i = @ + 1]
                       ELSE IF best.c = NoConn THEN Idle
                       ELSE [best EXCEPT !.pc = "picked", !.i = 0, !.min = 0]]
    /\ UNCHANGED <<pool, queueVal, conn, load, replacers>>

(* The pool may have been destroyed since. *)
Use(s) ==
    /\ sess[s].pc = "picked"
    /\ IF Live(sess[s].c)
       THEN /\ load' = [load EXCEPT ![sess[s].c] = (@ + 1) % LoadMod]
            /\ sess' = [sess EXCEPT ![s].pc = "using"]
            /\ UNCHANGED replacers
       ELSE /\ replacers' = replacers \cup {[by |-> s, q |-> sess[s].q, old |-> sess[s].c, new |-> NoConn]}
            /\ sess' = [sess EXCEPT ![s] = Idle]
            /\ UNCHANGED load
    /\ UNCHANGED <<pool, queueVal, conn>>

(* Mutant: the client is closed twice. *)
DoneTwice(s) ==
    /\ sess[s].pc \in {"using", "owner"}
    /\ load' = [load EXCEPT ![sess[s].c] = (@ + LoadMod - 2) % LoadMod]
    /\ sess' = [sess EXCEPT ![s] = Idle]
    /\ UNCHANGED <<pool, queueVal, conn, replacers>>

(* Client.Close is Done, or the Close of a connection of one's own. *)
Done(s) ==
    /\ \/ /\ sess[s].pc = "using"
          /\ load' = [load EXCEPT ![sess[s].c] = (@ + LoadMod - 1) % LoadMod]
          /\ UNCHANGED conn
       \/ /\ sess[s].pc = "owner"
          /\ conn' = Closed({sess[s].c})
          /\ UNCHANGED load
    /\ sess' = [sess EXCEPT ![s] = Idle]
    /\ UNCHANGED <<pool, queueVal, replacers>>

----------------------------------------------------------------------------
(* replaceConn *)

ReplaceDials(r) ==
    /\ r \in replacers /\ r.new = NoConn /\ Fresh # {}
    /\ conn' = Opened({New}) /\ load' = [load EXCEPT ![New] = 0]
    /\ replacers' = (replacers \ {r}) \cup {[r EXCEPT !.new = New]}
    /\ UNCHANGED <<pool, queueVal, sess>>

(* Mutant: a pool that is gone is not noticed, and the new one is forgotten. *)
ReplaceForgets(r) ==
    /\ r \in replacers /\ r.new # NoConn /\ WriteLock(r.q)
    /\ replacers' = replacers \ {r}
    /\ UNCHANGED <<pool, queueVal, conn, load, sess>>

(* The new connection takes the place of the old one, or is closed: the     *)
(* pool is gone, or somebody else has replaced it.                           *)
Replace(r) ==
    /\ r \in replacers /\ r.new # NoConn /\ WriteLock(r.q)
    /\ LET slots == pool[r.q].slots
           at    == {i \in DOMAIN slots : slots[i] = r.old}
       IN  IF pool[r.q].shutdown \/ at = {}
           THEN conn' = Closed({r.new}) /\ UNCHANGED pool
           ELSE /\ pool' = [pool EXCEPT ![r.q].slots[CHOOSE i \in at : TRUE] = r.new]
                /\ conn' = Closed({r.old})
    /\ replacers' = replacers \ {r}
    /\ UNCHANGED <<queueVal, load, sess>>

----------------------------------------------------------------------------
(* The sessions that hold a share of connection c. *)
Users(c) == {s \in Sessions : sess[s].pc = "using" /\ sess[s].c = c}

(* The load of a connection is the number of sessions that use it: no Done  *)
(* is missed and none is one too many, which would wrap the counter.        *)
LoadIsUsers == \A c \in Conns : load[c] = Cardinality(Users(c))

(* Somebody will close every open connection: a pool that has not been      *)
(* destroyed, the session that dialled it, or the goroutine that wanted to  *)
(* put it in the place of another.                                           *)
ConnsOwned ==
    \A c \in Conns : Live(c) =>
        \/ \E n \in DOMAIN pool : ~pool[n].shutdown /\ \E i \in DOMAIN pool[n].slots : pool[n].slots[i] = c
        \/ \E s \in Sessions : sess[s].pc = "owner" /\ sess[s].c = c
        \/ \E r \in replacers : r.new = c

(* A pool that has not been destroyed holds as many connections as Destroy  *)
(* will index, all of them alive, so no session meets a dead one in it.     *)
PoolIntact ==
    \A n \in DOMAIN pool :
        /\ Len(pool[n].slots) = pool[n].size
        /\ ~pool[n].shutdown => \A i \in DOMAIN pool[n].slots : Live(pool[n].slots[i])
=============================================================================
