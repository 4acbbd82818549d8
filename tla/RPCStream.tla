----------------------------- MODULE RPCStream -----------------------------
(***************************************************************************)
(* The bidirectional gRPC stream of one proxied session, as the forwarders *)
(* of both sides use it: ordered and reliable while it is open, with flow  *)
(* control.  A cancelled context and a broken transport lose any suffix of *)
(* what has not been received.  gRPC itself is not part of the repository. *)
(***************************************************************************)
EXTENDS Naturals, Sequences, FiniteSets

CONSTANT Window  \* how many messages flow control lets be under way

ASSUME WindowAssumption == Window \in Nat \ {0}

VARIABLES
    stream,  \* "none", "open", "finished" (the handler returned), "refused"
             \* (by the auth interceptor), "cancelled" or "broken"
    c2s,     \* messages on their way to the server
    s2c      \* messages on their way to the client

streamVars == <<stream, c2s, s2c>>

Message == [kind : {"header", "payload", "accepted", "eof", "error"}, n : Nat]

(* A message without a payload. *)
Signal(kind) == [kind |-> kind, n |-> 0]

(* A payload is one chunk, known by its number. *)
Payload(n) == [kind |-> "payload", n |-> n]

(* How many of the first i messages of s are chunks. *)
Chunks(s, i) == Cardinality({j \in 1..i : s[j].kind = "payload"})

StreamTypeOK ==
    /\ stream \in {"none", "open", "finished", "refused", "cancelled", "broken"}
    /\ c2s \in Seq(Message)
    /\ s2c \in Seq(Message)

StreamInit == stream = "none" /\ c2s = <<>> /\ s2c = <<>>

Beginnings(s) == {SubSeq(s, 1, k) : k \in 0..Len(s)}

ClientSend(m) ==
    /\ stream = "open" /\ Len(c2s) < Window
    /\ c2s' = Append(c2s, m)
    /\ UNCHANGED <<stream, s2c>>

(* A stream that has ended refuses a Send; the reason is told by Recv only, *)
(* so the error is io.EOF unless the Send was waiting for flow control.     *)
ClientSendError ==
    CASE stream \in {"finished", "refused", "broken"} -> {"eof"}
      [] stream = "cancelled" -> {"eof", "fail"}
      [] OTHER -> {}

ClientRecv ==
    /\ s2c # <<>>
    /\ s2c' = Tail(s2c)
    /\ UNCHANGED <<stream, c2s>>

(* What RecvMsg returns once nothing is left to receive; Unavailable is     *)
(* told from other errors by its receiver.                                  *)
ClientRecvError ==
    IF s2c # <<>> THEN {}
    ELSE CASE stream = "finished" -> {"eof"}
           [] stream = "broken" -> {"unavailable"}
           [] stream \in {"refused", "cancelled"} -> {"fail"}
           [] OTHER -> {}

ServerSend(m) ==
    /\ stream = "open" /\ Len(s2c) < Window
    /\ s2c' = Append(s2c, m)
    /\ UNCHANGED <<stream, c2s>>

ServerSendError ==
    CASE stream = "cancelled" -> {"fail", "rpccanceled"}
      [] stream \in {"finished", "broken"} -> {"fail"}
      [] OTHER -> {}

ServerRecv ==
    /\ c2s # <<>>
    /\ c2s' = Tail(c2s)
    /\ UNCHANGED <<stream, s2c>>

ServerRecvError ==
    IF c2s # <<>> THEN {}
    ELSE CASE stream = "cancelled" -> {"rpccanceled"}
           [] stream \in {"broken", "finished"} -> {"fail"}
           [] OTHER -> {}

(* The context of the stream is cancelled: the server learns of it by a    *)
(* reset that overtakes what is still queued.                               *)
Cancel ==
    /\ stream \in {"open", "finished"}
    /\ stream' = "cancelled"
    /\ c2s' \in Beginnings(c2s)
    /\ s2c' \in Beginnings(s2c)

(* The transport below the stream fails, or the server is stopped by force. *)
Break ==
    /\ stream = "open"
    /\ stream' = "broken"
    /\ c2s' \in Beginnings(c2s)
    /\ s2c' \in Beginnings(s2c)
=============================================================================
