---------------------------- MODULE MCPacketConn ----------------------------
(* Instances of PacketConn for TLC. *)
EXTENDS PacketConn, TLC

CONSTANT Effort  \* bound: deadlines, datagrams sent and written, an end of the
                 \* stream that is not the client's, all together

Budget ==
    nsets + nsent + nwrites
        + (IF srv = "end" \/ stream = "broken" THEN 1 ELSE 0) <= Effort

(* The peer stays and the transport holds: what ends a call is the client's *)
(* own doing.                                                                *)
QuietPeer == srv # "end" /\ stream # "broken"

Symmetry == Permutations(Readers) \cup Permutations(Writers)
=============================================================================
