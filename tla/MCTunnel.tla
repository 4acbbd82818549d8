------------------------------ MODULE MCTunnel ------------------------------
(***************************************************************************)
(* TLC instances of Tunnel.                                                *)
(***************************************************************************)
EXTENDS Tunnel

If(alive, v) == IF alive THEN <<v>> ELSE <<>>

(* Whether the goroutines that outlive their session still matter. *)
ReaderMatters == cup # "done" \/ stream = "open"
ReceiverMatters == sup \notin {"ret", "done"} \/ conn = "open"

(* One question per front end: a session with a fault and one chunk each     *)
(* way, or one without a fault and two chunks one way, one the other.       *)
FaultsOrData ==
    IF front = "http" THEN lsent <= 1 /\ tsent <= 1 ELSE faults = 0 /\ lsent + tsent <= 3

(* Drops values that no later step reads and no property mentions.          *)
View == <<
    stream,
    If(ReceiverMatters \/ stream = "open", c2s),
    If(crecv # "ended" \/ stream = "open", s2c),
    front, If(fend = "wait", <<ferr, reply, lend, proxy>>),
    If(proxy = "returned", proxyerr),
    crecv, crecverr, If(crecv = "write", cchunk), cdown,
    If(ReaderMatters, <<cread, lq, creaderr>>), lsent,
    If(cread = "send", uchunk),
    cup, cack, If(cack = "select", caddr), If(proxy = "wait", cerr),
    SessionDone, out,
    handler, sup, If(sup = "ret", superr),
    If(ReceiverMatters, <<srecv, srecverr>>), If(srecv = "write", schunk),
    sdown, If(sdown = "ret", sdownerr), If(sdown \in {"send", "sendlast"}, dchunk),
    If(conn = "open", watch), If(sdown = "await", <<ack, ackclosed>>),
    serr, If(serr = "none" \/ stream \in {"none", "open"}, sctx), conn, tq, tsent, tend, tgot, faults>>
=============================================================================
