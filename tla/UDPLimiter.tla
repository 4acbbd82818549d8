----------------------------- MODULE UDPLimiter -----------------------------
(* The udpResourceLimiter of internal/socks/udp.go as a value: a process-wide
   count and a count per client, both moved under one mutex, so each operator
   below is one atomic step of whoever applies it.  The Go map deletes a client
   whose count falls to 0; here such a client is simply mapped to 0.           *)
EXTENDS Integers

CONSTANT Clients      \* the client keys (udpClientKey) that can hold a resource

NewLimiter == [total |-> 0, byClient |-> [c \in Clients |-> 0]]

Limiters == [total : Int, byClient : [Clients -> Int]]

\* Mutant of MayAcquire: the caps are compared one too late.
MayAcquireOneMore(l, c, maxTotal, maxPerClient) ==
    /\ l.total <= maxTotal
    /\ l.byClient[c] <= maxPerClient

\* The two tests of acquire, both caps being positive (orDefault).
MayAcquire(l, c, maxTotal, maxPerClient) ==
    /\ l.total < maxTotal
    /\ l.byClient[c] < maxPerClient

Acquired(l, c) ==
    [total |-> l.total + 1, byClient |-> [l.byClient EXCEPT ![c] = @ + 1]]

\* release ignores a client that holds nothing.
Released(l, c) ==
    IF l.byClient[c] <= 0 \/ l.total <= 0
    THEN l
    ELSE [total |-> l.total - 1, byClient |-> [l.byClient EXCEPT ![c] = @ - 1]]
=============================================================================
