------------------------------- MODULE Session -------------------------------
(***************************************************************************)
(* What a tunnelled session promises its two ends: each is given the next  *)
(* chunk the other has sent, the local client is told of success once and  *)
(* only while there is a target, which is dialled once, and nothing is     *)
(* written to either after its connection was closed.                      *)
(***************************************************************************)
EXTENDS Naturals, Sequences, FiniteSets

VARIABLES
    conn,   \* the target's connection: "none", "open", "closed"
    lsent,  \* chunks the local client has sent
    tgot,   \* those the target was given
    tsent,  \* chunks the target has sent
    out,    \* those the local client was given, and the answers to its CONNECT
    over    \* the local client's connection was closed

sessionVars == <<conn, lsent, tgot, tsent, out, over>>

SessionInit ==
    /\ conn = "none" /\ lsent = 0 /\ tgot = <<>>
    /\ tsent = 0 /\ out = <<>> /\ over = FALSE

ConnMoves ==
    /\ \/ conn = "none" /\ conn' = "open"
       \/ conn = "open" /\ conn' = "closed"
    /\ UNCHANGED <<lsent, tgot, tsent, out, over>>

Sends ==
    /\ \/ ~over /\ lsent' = lsent + 1 /\ UNCHANGED tsent
       \/ conn = "open" /\ tsent' = tsent + 1 /\ UNCHANGED lsent
    /\ UNCHANGED <<conn, tgot, out, over>>

ToTarget ==
    /\ conn = "open" /\ Len(tgot) < lsent
    /\ tgot' = Append(tgot, Len(tgot) + 1)
    /\ UNCHANGED <<conn, lsent, tsent, out, over>>

Given == Cardinality({i \in 1..Len(out) : out[i].kind = "payload"})

ToLocal ==
    /\ ~over /\ Given < tsent
    /\ out' = Append(out, [kind |-> "payload", n |-> Given + 1])
    /\ UNCHANGED <<conn, lsent, tgot, tsent, over>>

(* The one answer, before or after the first data. *)
Answers ==
    /\ ~over /\ \A i \in 1..Len(out) : out[i].kind = "payload"
    /\ \/ out' = Append(out, [kind |-> "refused", n |-> 0])
       \/ conn # "none" /\ out' = Append(out, [kind |-> "ok", n |-> 0])
    /\ UNCHANGED <<conn, lsent, tgot, tsent, over>>

(* An HTTP client may be told of a failure last. *)
Ends ==
    /\ ~over /\ over' = TRUE
    /\ out' \in {out, Append(out, [kind |-> "unavailable", n |-> 0])}
    /\ UNCHANGED <<conn, lsent, tgot, tsent>>

SessionNext ==
    ConnMoves \/ Sends \/ ToTarget \/ ToLocal \/ Answers \/ Ends

SessionSpec == SessionInit /\ [][SessionNext]_sessionVars
=============================================================================
