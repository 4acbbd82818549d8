----------------------------- MODULE MCUDPRelay -----------------------------
(* Small instances of UDPRelay for TLC.                                       *)
EXTENDS UDPRelay, TLC

\* Everything but the sentinels is interchangeable.
Symmetry ==
    Permutations(Clients) \cup Permutations(Relays) \cup Permutations(Workers)
        \cup Permutations(Keys) \cup Permutations(Entries)

\* For the runs about interleavings: no time passes.
Timeless ==
    \A e \in Entries : age[e] = 0 /\ (rev[e] = "read" => left[e] = IdleTimeout)

\* Two states are the same when they differ only in what nothing reads again: the
\* fields of an entry that is closed and has no reverse relay, a deadline outside
\* the read, and the key of a worker without a datagram.
View ==
    <<handlerVars, poolVars, wpc, went, victim, flight, table, state, rev, assoc, nat,
      [r \in Relays |-> [w \in Workers |->
          IF wpc[r][w] \in {"exited", "idle"} THEN NoWorker ELSE wkey[r][w]]],
      [e \in Entries |-> IF state[e] = "closed" /\ rev[e] = "none"
                         THEN <<>> ELSE <<owner[e], key[e], payer[e], age[e]>>],
      [e \in Entries |-> IF rev[e] = "read" THEN left[e] ELSE 0]>>

\* For two associations: at most one datagram is queued in all.
OneQueued == \A r, s \in Relays : jobs[r] # <<>> /\ jobs[s] # <<>> => r = s
=============================================================================
