----------------------------- MODULE LocalProxy -----------------------------
(***************************************************************************)
(* Proxy of the transports that need no tunnel, with CopyWithContext, which *)
(* both copy directions share.  "direct" is forward as well: its Proxy is  *)
(* the same but for the dialer, and that one, a SOCKS5 client, returns the *)
(* TCP connection to the upstream proxy, which is closed by halves like     *)
(* one to the target.  The client and the target are environments; what is *)
(* sent counts in units of one Read.                                        *)
(***************************************************************************)
EXTENDS Naturals, Sequences, FiniteSets

CONSTANTS
    Kinds,     \* the transports, of {"direct", "blackhole"}
    MaxUp,     \* bound: units the client sends
    MaxDown    \* bound: units the target sends

ASSUME ProxyAssumption ==
    Kinds \subseteq {"direct", "blackhole"} /\ MaxUp \in Nat /\ MaxDown \in Nat

Directions == {"up", "down"}

VARIABLES
    kind,      \* the transport of this session
    px,        \* Proxy: "off", "dial", "addr", "run", "ret", "gone"
    pres,      \* what it returns: "nil", "err", "canceled"
    ctx,       \* the context it was given is done
    cancelled, \* sessionCtx was cancelled by Proxy itself
    waiter,    \* CopyWithContext: "off", "select", "wait", "after", "done"
    copier,    \* its goroutine: "off", "read", "write", "sent"
    result,    \* what io.CopyBuffer or, later, CopyWithContext returned
    first,     \* the first error of the copies
    responseDone,
    piped,     \* the client's bytes come through a pipe, not from its connection
    pipe,      \* that pipe: full, write end "open", "eof" or "err", read end closed
    cin, csent, cfin, cgone, cstall,  \* client: unread and sent units, half closed, reset, not reading
    cclosed, cexp,                    \* its connection: closed by us, deadline passed
    out,       \* what the client was given: "ok", "err" or "data"
    tst,       \* the connection to the target: "none", "open", "half" (no more to write), "closed"
    tin, tsent, teof, treset          \* target: unread and sent units, half closed, reset

copyVars   == <<waiter, copier, result>>
proxyVars  == <<kind, px, pres, ctx, cancelled, first, responseDone, piped>>
clientVars == <<cin, csent, cfin, cgone, cstall, cclosed, cexp, out>>
targetVars == <<tst, tin, tsent, teof, treset>>
pvars      == <<copyVars, proxyVars, pipe, clientVars, targetVars>>

NewPipe == [full |-> FALSE, w |-> "open", r |-> FALSE]

ProxyInit ==
    /\ kind = "direct" /\ px = "off" /\ pres = "nil" /\ ctx = FALSE /\ cancelled = FALSE
    /\ waiter = [d \in Directions |-> "off"] /\ copier = [d \in Directions |-> "off"]
    /\ result = [d \in Directions |-> "nil"]
    /\ first = "nil" /\ responseDone = FALSE /\ piped = FALSE
    /\ pipe = NewPipe
    /\ cin = 0 /\ csent = 0 /\ cfin = FALSE /\ cgone = FALSE /\ cstall = FALSE
    /\ cclosed = FALSE /\ cexp = FALSE /\ out = <<>>
    /\ tst = "none" /\ tin = 0 /\ tsent = 0 /\ teof = FALSE /\ treset = FALSE

(* The client's connection fails reads and writes. *)
ClientDown == cclosed \/ cgone \/ cexp
SessionDone == ctx \/ cancelled
(* What the target sends still arrives. *)
Connected == tst \in {"open", "half"}

(* closeSession: src, dst and conn, once.  A SOCKS reader cannot be closed,  *)
(* and the connection under it is dst.                                        *)
CloseAll ==
    /\ cclosed' = TRUE /\ tst' = "closed"
    /\ pipe' = IF piped THEN [pipe EXCEPT !.r = TRUE] ELSE pipe

(* Mutant: the connection is closed as one that has no halves. *)
CloseWhole == tst' = "closed"

(* What the dialers return has a CloseWrite, so the Close that stands in for *)
(* it is not reached.                                                         *)
CloseWriteOrClose == tst' = IF tst = "open" THEN "half" ELSE tst

----------------------------------------------------------------------------
(* Proxy *)

Dial ==
    /\ px = "dial"
    /\ \/ kind = "blackhole" /\ px' = "addr" /\ UNCHANGED <<tst, pres>>
       \/ kind # "blackhole" /\ tst' = "open" /\ px' = "addr" /\ UNCHANGED pres
       \/ kind # "blackhole" /\ px' = "ret" /\ pres' = "err" /\ UNCHANGED tst
    /\ UNCHANGED <<copyVars, kind, ctx, cancelled, first, responseDone, piped, pipe, clientVars,
                   tin, tsent, teof, treset>>

(* The address has been taken: the copies start. *)
CopiesStart ==
    /\ px = "addr" /\ px' = "run"
    /\ copier' = [d \in Directions |-> IF kind = "blackhole" /\ d = "down" THEN "off" ELSE "read"]
    /\ waiter' = [d \in Directions |-> IF kind = "blackhole" THEN "off" ELSE "select"]

ProxyWaited ==
    /\ px = "run" /\ kind # "blackhole" /\ \A d \in Directions : waiter[d] = "done"
    /\ px' = "ret" /\ tst' = "closed"
    /\ pres' = IF responseDone THEN "nil" ELSE first
    /\ UNCHANGED <<copyVars, kind, ctx, cancelled, first, responseDone, piped, pipe, clientVars,
                   tin, tsent, teof, treset>>

(* A black hole does not wait for its reader. *)
BlackholeReturns ==
    /\ px = "run" /\ kind = "blackhole" /\ px' = "ret"
    /\ \/ ctx /\ pres' = "canceled" /\ UNCHANGED copier
       \/ copier["up"] = "sent" /\ pres' = result["up"] /\ copier' = [copier EXCEPT !["up"] = "off"]
    /\ UNCHANGED <<waiter, result, kind, ctx, cancelled, first, responseDone, piped, pipe,
                   clientVars, targetVars>>

----------------------------------------------------------------------------
(* io.CopyBuffer, and the drain of the black hole *)

Sent(d, r) ==
    /\ copier' = [copier EXCEPT ![d] = "sent"]
    /\ result' = [result EXCEPT ![d] = r]

UpRead ==
    /\ copier["up"] = "read"
    /\ LET failed == IF piped THEN pipe.r \/ pipe.w = "err" ELSE ClientDown
           ended  == IF piped THEN pipe.w = "eof" ELSE cfin
           data   == IF piped THEN pipe.full ELSE cin > 0
       IN  \/ failed /\ Sent("up", "err") /\ UNCHANGED <<pipe, cin>>
           \/ ~failed /\ ended /\ ~data /\ Sent("up", "nil") /\ UNCHANGED <<pipe, cin>>
           \/ /\ ~failed /\ data
              /\ copier' = [copier EXCEPT !["up"] = IF kind = "blackhole" THEN "read" ELSE "write"]
              /\ UNCHANGED result
              /\ IF piped THEN pipe' = [pipe EXCEPT !.full = FALSE] /\ UNCHANGED cin
                          ELSE cin' = cin - 1 /\ UNCHANGED pipe
    /\ UNCHANGED <<waiter, proxyVars, csent, cfin, cgone, cstall, cclosed, cexp, out, targetVars>>

UpWrite ==
    /\ copier["up"] = "write"
    /\ IF tst # "open" \/ treset THEN Sent("up", "err")
       ELSE copier' = [copier EXCEPT !["up"] = "read"] /\ UNCHANGED result
    /\ UNCHANGED <<waiter, proxyVars, pipe, clientVars, targetVars>>

DownRead ==
    /\ copier["down"] = "read"
    /\ \/ (tst = "closed" \/ treset) /\ Sent("down", "err") /\ UNCHANGED tin
       \/ Connected /\ ~treset /\ tin = 0 /\ teof /\ Sent("down", "nil") /\ UNCHANGED tin
       \/ /\ Connected /\ ~treset /\ tin > 0
          /\ tin' = tin - 1 /\ copier' = [copier EXCEPT !["down"] = "write"] /\ UNCHANGED result
    /\ UNCHANGED <<waiter, proxyVars, pipe, clientVars, tst, tsent, teof, treset>>

DownWrite ==
    /\ copier["down"] = "write"
    /\ \/ ClientDown /\ Sent("down", "err") /\ UNCHANGED out
       \/ /\ ~ClientDown /\ ~cstall
          /\ out' = Append(out, "data")
          /\ copier' = [copier EXCEPT !["down"] = "read"] /\ UNCHANGED result
    /\ UNCHANGED <<waiter, proxyVars, pipe, cin, csent, cfin, cgone, cstall, cclosed, cexp, targetVars>>

----------------------------------------------------------------------------
(* CopyWithContext *)

CopyDone(d) ==
    /\ waiter[d] = "select" /\ copier[d] = "sent"
    /\ waiter' = [waiter EXCEPT ![d] = "after"] /\ copier' = [copier EXCEPT ![d] = "off"]
    /\ UNCHANGED <<result, proxyVars, pipe, clientVars, targetVars>>

(* Mutant: the goroutine is waited for without unblocking it. *)
CopyCancelledWaits(d) ==
    /\ waiter[d] = "select" /\ SessionDone
    /\ waiter' = [waiter EXCEPT ![d] = "wait"]
    /\ UNCHANGED <<copier, result, proxyVars, pipe, clientVars, targetVars>>

CopyCancelled(d) ==
    /\ waiter[d] = "select" /\ SessionDone
    /\ waiter' = [waiter EXCEPT ![d] = "wait"]
    /\ CloseAll
    /\ UNCHANGED <<copier, result, proxyVars, cin, csent, cfin, cgone, cstall, cexp, out,
                   tin, tsent, teof, treset>>

CopyDrained(d) ==
    /\ waiter[d] = "wait" /\ copier[d] = "sent"
    /\ waiter' = [waiter EXCEPT ![d] = "after"] /\ copier' = [copier EXCEPT ![d] = "off"]
    /\ result' = [result EXCEPT ![d] = "canceled"]
    /\ UNCHANGED <<proxyVars, pipe, clientVars, targetVars>>

Recorded(e) == first' = IF first = "nil" THEN e ELSE first

(* The upload side: an end of the client's data is passed on, and the        *)
(* download goes on; an error ends the session.                               *)
UpReturns ==
    /\ waiter["up"] = "after" /\ waiter' = [waiter EXCEPT !["up"] = "done"]
    /\ Recorded(result["up"])
    /\ IF result["up"] # "nil"
       THEN cancelled' = TRUE /\ CloseAll
       ELSE /\ CloseWriteOrClose
            /\ UNCHANGED <<cancelled, cclosed, pipe>>
    /\ UNCHANGED <<copier, result, kind, px, pres, ctx, responseDone, piped,
                   cin, csent, cfin, cgone, cstall, cexp, out, tin, tsent, teof, treset>>

(* Mutant: the client's connection is left to the caller. *)
DownReturnsClientOpen ==
    /\ waiter["down"] = "after" /\ waiter' = [waiter EXCEPT !["down"] = "done"]
    /\ Recorded(result["down"])
    /\ responseDone' = (result["down"] = "nil")
    /\ cancelled' = TRUE /\ tst' = "closed"
    /\ UNCHANGED <<copier, result, kind, px, pres, ctx, piped, pipe, cclosed,
                   cin, csent, cfin, cgone, cstall, cexp, out, tin, tsent, teof, treset>>

(* The download side: its end, whatever it is, ends the session. *)
DownReturns ==
    /\ waiter["down"] = "after" /\ waiter' = [waiter EXCEPT !["down"] = "done"]
    /\ Recorded(result["down"])
    /\ responseDone' = (result["down"] = "nil")
    /\ cancelled' = TRUE /\ CloseAll
    /\ UNCHANGED <<copier, result, kind, px, pres, ctx, piped,
                   cin, csent, cfin, cgone, cstall, cexp, out, tin, tsent, teof, treset>>

----------------------------------------------------------------------------
(* Client and target *)

ClientSends ==
    /\ csent < MaxUp /\ ~cfin /\ ~cgone /\ ~cclosed
    /\ csent' = csent + 1 /\ cin' = cin + 1
    /\ UNCHANGED <<copyVars, proxyVars, pipe, cfin, cgone, cstall, cclosed, cexp, out, targetVars>>

ClientCloses ==
    /\ ~cclosed /\ ~cgone
    /\ \/ ~cfin /\ cfin' = TRUE /\ UNCHANGED cgone
       \/ cgone' = TRUE /\ UNCHANGED cfin
    /\ UNCHANGED <<copyVars, proxyVars, pipe, cin, csent, cstall, cclosed, cexp, out, targetVars>>

(* Its window is full: it has been given data and reads no more. *)
ClientStalls ==
    /\ ~cstall /\ ~ClientDown /\ \E i \in DOMAIN out : out[i] = "data"
    /\ cstall' = TRUE
    /\ UNCHANGED <<copyVars, proxyVars, pipe, cin, csent, cfin, cgone, cclosed, cexp, out, targetVars>>

TargetSends ==
    /\ Connected /\ ~teof /\ ~treset /\ tsent < MaxDown
    /\ tsent' = tsent + 1 /\ tin' = tin + 1
    /\ UNCHANGED <<copyVars, proxyVars, pipe, clientVars, tst, teof, treset>>

TargetCloses ==
    /\ Connected /\ ~treset
    /\ \/ ~teof /\ teof' = TRUE /\ UNCHANGED treset
       \/ treset' = TRUE /\ UNCHANGED teof
    /\ UNCHANGED <<copyVars, proxyVars, pipe, clientVars, tst, tin, tsent>>

----------------------------------------------------------------------------
Copying ==
    \/ Dial \/ ProxyWaited \/ BlackholeReturns
    \/ UpRead \/ UpWrite \/ DownRead \/ DownWrite
    \/ \E d \in Directions : CopyDone(d) \/ CopyCancelled(d) \/ CopyDrained(d)
    \/ UpReturns \/ DownReturns

Environment == ClientSends \/ ClientCloses \/ ClientStalls \/ TargetSends \/ TargetCloses

Delivered == Cardinality({i \in DOMAIN out : out[i] = "data"})

(* Proxy reports success only for a response the client was given as a       *)
(* whole, up to the target's own end of it, whatever the upload, the client  *)
(* and a cancellation did meanwhile.                                          *)
SuccessIsWhole ==
    px \in {"ret", "gone"} /\ kind # "blackhole" /\ pres = "nil" =>
        teof /\ Delivered = tsent
=============================================================================
