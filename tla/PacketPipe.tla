----------------------------- MODULE PacketPipe -----------------------------
(***************************************************************************)
(* What a packet connection over a stream promises its reader: datagrams   *)
(* come out in the order they went in, none twice, and none is missing     *)
(* between two that come out.  Only once the connection is shut may the    *)
(* ones that are still under way be lost, the last ones first.             *)
(***************************************************************************)
EXTENDS Naturals, Sequences

VARIABLES
    way,   \* the datagrams under way, oldest first
    got,   \* what readers have been given so far
    open   \* neither side has shut the connection

pipeVars == <<way, got, open>>

PipeInit == way = <<>> /\ got = <<>> /\ open = TRUE

(* Datagrams are numbered in the order they are sent. *)
Arrive ==
    /\ way' = Append(way, Len(got) + Len(way) + 1)
    /\ UNCHANGED <<got, open>>

Deliver ==
    /\ way # <<>>
    /\ got' = Append(got, Head(way))
    /\ way' = Tail(way)
    /\ UNCHANGED open

Shut ==
    /\ open' = FALSE
    /\ \E k \in 0..Len(way) : way' = SubSeq(way, 1, k)
    /\ UNCHANGED got

PipeNext == Arrive \/ Deliver \/ Shut

PipeSpec == PipeInit /\ [][PipeNext]_pipeVars
=============================================================================
