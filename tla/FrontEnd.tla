------------------------------ MODULE FrontEnd ------------------------------
(***************************************************************************)
(* One connection of a client to the SOCKS or the HTTP front end, from its *)
(* first byte to the return of the handler: negotiation, authentication,   *)
(* routing, and the errgroup that runs Proxy of a local transport, the     *)
(* wait for its address and, for a plain HTTP request, the goroutine that  *)
(* writes it.  UDP ASSOCIATE is the matter of UDPRelay, and the tunnel that *)
(* of TunnelClient.                                                          *)
(***************************************************************************)
EXTENDS LocalProxy

CONSTANT Fronts  \* of {"socks", "http"}

ASSUME FrontAssumption == Fronts \subseteq {"socks", "http"}

VARIABLES
    front,    \* "socks", "http" before its method is known, "connect" or "request"
    auth,     \* the server has credentials
    cred,     \* the client has shown valid ones
    stopped,  \* the context of the server is done
    hs,       \* the handler: "version", "methods", "userpass", "request", "serve", "done"
    hk,       \* the goroutine that waits for the address: "off", "wait", "reply", "done"
    wr,       \* the one that writes the request: "off", "give", "body", "wait", "done"
    given,    \* units it has put into the pipe, the header first
    gerr      \* the first error of the group: "nil", "err", "canceled"

frontVars == <<front, auth, cred, stopped, hs, hk, wr, given, gerr>>
fvars == <<pvars, frontVars>>

FInit ==
    /\ ProxyInit
    /\ front \in Fronts /\ auth \in BOOLEAN /\ cred = FALSE /\ stopped = FALSE
    /\ hs = IF front = "socks" THEN "version" ELSE "request"
    /\ hk = "off" /\ wr = "off" /\ given = 0 /\ gerr = "nil"

(* The strings each control variable takes. *)
FTypeOK ==
    /\ px \in {"off", "dial", "addr", "run", "ret", "gone"}
    /\ {pres, first} \subseteq {"nil", "err", "canceled"} /\ gerr \in {"nil", "err", "canceled"}
    /\ waiter \in [Directions -> {"off", "select", "wait", "after", "done"}]
    /\ copier \in [Directions -> {"off", "read", "write", "sent"}]
    /\ result \in [Directions -> {"nil", "err", "canceled"}]
    /\ out \in Seq({"ok", "err", "data"})
    /\ front \in {"socks", "http", "connect", "request"}
    /\ hs \in {"version", "methods", "userpass", "request", "serve", "done"}
    /\ hk \in {"off", "wait", "reply", "done"}
    /\ wr \in {"off", "give", "body", "wait", "done"}

----------------------------------------------------------------------------
(* What the handler does before it has a transport *)

(* It returns, having answered with a failure or with nothing at all. *)
Leave(answer) ==
    /\ hs' = "done" /\ cclosed' = TRUE
    /\ out' = out \o answer
    /\ UNCHANGED <<copyVars, proxyVars, pipe, cin, csent, cfin, cgone, cstall, cexp, targetVars,
                   front, auth, cred, stopped, hk, wr, given, gerr>>

Proceed(to, valid) ==
    /\ hs' = to /\ cred' = (cred \/ valid)
    /\ UNCHANGED <<pvars, front, auth, stopped, hk, wr, given, gerr>>

ReadFails ==
    /\ hs \in {"version", "methods", "userpass", "request"} /\ (ClientDown \/ cfin)
    /\ Leave(<<>>)

ReadVersion ==
    /\ hs = "version" /\ ~ClientDown
    /\ Proceed("methods", FALSE) \/ Leave(<<>>)

(* Mutant: a client that offers no password is let in without one. *)
authenticateLeniently ==
    /\ hs = "methods" /\ ~ClientDown
    /\ \/ Proceed("request", FALSE)
       \/ auth /\ Proceed("userpass", FALSE)

authenticate ==
    /\ hs = "methods" /\ ~ClientDown
    /\ \/ ~auth /\ Proceed("request", FALSE)
       \/ auth /\ Proceed("userpass", FALSE)
       \/ auth /\ Leave(<<>>)

UserPass ==
    /\ hs = "userpass" /\ ~ClientDown
    /\ Proceed("request", TRUE) \/ Leave(<<>>)

(* GetRoute has found a transport of kind k: the group starts. *)
Serve(k, f, valid) ==
    /\ hs' = "serve" /\ kind' = k /\ front' = f /\ cred' = (cred \/ valid)
    /\ px' = "dial" /\ hk' = "wait" /\ ctx' = stopped
    /\ piped' = (f = "request") /\ wr' = IF f = "request" THEN "give" ELSE "off"
    /\ UNCHANGED <<copyVars, pres, cancelled, first, responseDone, pipe, clientVars, targetVars,
                   auth, stopped, given, gerr>>

(* NewRequest and handleRequest.  A request that cannot be read is not       *)
(* answered; one for something else, or without a route, is refused.         *)
SocksRequest ==
    /\ front = "socks" /\ hs = "request" /\ ~ClientDown
    /\ \/ Leave(<<>>) \/ Leave(<<"err">>)
       \/ \E k \in Kinds : Serve(k, "socks", FALSE)

(* proxyAuth and Handle, up to the end of the Hijack. *)
HTTPRequest ==
    /\ front = "http" /\ hs = "request" /\ ~ClientDown
    /\ \/ Leave(<<"err">>)
       \/ \E k \in Kinds, f \in {"connect", "request"}, valid \in BOOLEAN :
              (auth => valid) /\ Serve(k, f, valid)

----------------------------------------------------------------------------
(* The group *)

GroupError(e) ==
    /\ gerr' = IF gerr = "nil" THEN e ELSE gerr
    /\ ctx' = (ctx \/ e # "nil")

(* The address is handed over, and Proxy goes on. *)
AddrTaken ==
    /\ hk = "wait" /\ CopiesStart
    /\ hk' = IF front = "request" THEN "done" ELSE "reply"
    /\ UNCHANGED <<result, kind, pres, ctx, cancelled, first, responseDone, piped, pipe,
                   clientVars, targetVars, front, auth, cred, stopped, hs, wr, given, gerr>>

(* Nothing orders this answer before what the target says first. *)
Reply ==
    /\ hk = "reply" /\ hk' = "done"
    /\ \/ ~ClientDown /\ ~cstall /\ out' = Append(out, "ok") /\ GroupError("nil")
       \/ ClientDown /\ UNCHANGED out /\ GroupError("err")
    /\ UNCHANGED <<copyVars, kind, px, pres, cancelled, first, responseDone, piped, pipe,
                   cin, csent, cfin, cgone, cstall, cclosed, cexp, targetVars,
                   front, auth, cred, stopped, hs, wr, given>>

(* The channel was closed: the dial failed. *)
NoAddr ==
    /\ hk = "wait" /\ px \in {"ret", "gone"} /\ hk' = "done"
    /\ GroupError("err")
    /\ out' = IF front = "socks" /\ ~ClientDown THEN Append(out, "err") ELSE out
    /\ UNCHANGED <<copyVars, kind, px, pres, cancelled, first, responseDone, piped, pipe,
                   cin, csent, cfin, cgone, cstall, cclosed, cexp, targetVars,
                   front, auth, cred, stopped, hs, wr, given>>

(* The goroutine of Proxy ends.  For a plain request it first unblocks the   *)
(* one that writes it, wherever that is.                                      *)
ProxyReturned ==
    /\ px = "ret" /\ px' = "gone"
    /\ GroupError(pres)
    /\ pipe' = IF piped THEN [pipe EXCEPT !.r = TRUE] ELSE pipe
    /\ cexp' = (cexp \/ piped)
    /\ UNCHANGED <<copyVars, kind, pres, cancelled, first, responseDone, piped,
                   cin, csent, cfin, cgone, cstall, cclosed, out, targetVars,
                   front, auth, cred, stopped, hs, hk, wr, given>>

----------------------------------------------------------------------------
(* writeForwardRequest and what follows it *)

WriterKeeps == UNCHANGED <<copyVars, kind, px, pres, cancelled, first, responseDone, piped, csent,
                           cfin, cgone, cstall, cclosed, cexp, out, targetVars,
                           front, auth, cred, stopped, hs, hk>>

WriterFails ==
    /\ \/ wr \in {"give", "body"} /\ pipe.r
       \/ wr = "body" /\ given <= MaxUp /\ (ClientDown \/ (cfin /\ cin = 0))
    /\ wr' = "done" /\ pipe' = [pipe EXCEPT !.w = "err"]
    /\ GroupError("err")
    /\ UNCHANGED <<cin, given>> /\ WriterKeeps

(* A unit goes into the pipe; Write returns when it has been read. *)
WriterGives ==
    /\ wr = "give" /\ ~pipe.r
    /\ pipe' = [pipe EXCEPT !.full = TRUE]
    /\ wr' = "body" /\ given' = given + 1
    /\ UNCHANGED <<cin, ctx, gerr>> /\ WriterKeeps

WriterReadsBody ==
    /\ wr = "body" /\ ~pipe.full /\ ~pipe.r /\ ~ClientDown
    /\ \/ given <= MaxUp /\ cin > 0 /\ cin' = cin - 1 /\ wr' = "give"
       \/ given > MaxUp /\ wr' = "wait" /\ UNCHANGED cin
    /\ UNCHANGED <<given, pipe, ctx, gerr>> /\ WriterKeeps

WriterEnds ==
    /\ wr = "wait" /\ (px = "gone" \/ ctx)
    /\ wr' = "done" /\ pipe' = [pipe EXCEPT !.w = "eof"]
    /\ UNCHANGED <<cin, given, ctx, gerr>> /\ WriterKeeps

----------------------------------------------------------------------------
(* All of the group has ended.  HTTP reports what is not the end of a        *)
(* session, if the connection still takes it, and closes.                     *)
HandlerEnds ==
    /\ hs = "serve" /\ px = "gone" /\ hk = "done" /\ wr \in {"off", "done"}
    /\ hs' = "done" /\ cclosed' = TRUE
    /\ pipe' = IF piped /\ pipe.w = "open" THEN [pipe EXCEPT !.w = "eof"] ELSE pipe
    /\ IF front # "socks" /\ gerr = "err" /\ ~ClientDown
       THEN ~cstall /\ out' = Append(out, "err") ELSE UNCHANGED out
    /\ UNCHANGED <<copyVars, proxyVars, cin, csent, cfin, cgone, cstall, cexp, targetVars,
                   front, auth, cred, stopped, hk, wr, given, gerr>>

ServerStops ==
    /\ ~stopped /\ hs # "done" /\ stopped' = TRUE /\ ctx' = TRUE
    /\ UNCHANGED <<copyVars, kind, px, pres, cancelled, first, responseDone, piped, pipe,
                   clientVars, targetVars, front, auth, cred, hs, hk, wr, given, gerr>>

----------------------------------------------------------------------------
Negotiation == ReadVersion \/ authenticate \/ UserPass \/ SocksRequest \/ HTTPRequest

Writing == WriterFails \/ WriterGives \/ WriterReadsBody \/ WriterEnds

Group == AddrTaken \/ Reply \/ NoAddr \/ ProxyReturned \/ HandlerEnds

FNext ==
    \/ ReadFails \/ Negotiation \/ Group \/ Writing \/ ServerStops
    \/ (Copying \/ (hs # "done" /\ Environment)) /\ UNCHANGED frontVars

FSpec == FInit /\ [][FNext]_fvars

UpSide == UpRead \/ UpWrite \/ CopyDone("up") \/ CopyCancelled("up") \/ CopyDrained("up") \/ UpReturns
DownSide == DownRead \/ DownWrite \/ CopyDone("down") \/ CopyCancelled("down") \/ CopyDrained("down") \/ DownReturns
ProxySide == Dial \/ ProxyWaited \/ BlackholeReturns

(* Goroutines that can run do; the target takes what it is sent.  Nobody     *)
(* makes a client speak, send or read, and nobody makes a target answer.     *)
FairFSpec ==
    /\ FSpec /\ WF_fvars(ReadFails) /\ WF_fvars(Group) /\ WF_fvars(Writing)
    /\ WF_fvars(UpSide /\ UNCHANGED frontVars) /\ WF_fvars(DownSide /\ UNCHANGED frontVars)
    /\ WF_fvars(ProxySide /\ UNCHANGED frontVars)

----------------------------------------------------------------------------
(* Nobody is dialled for a client that has not shown valid credentials to a *)
(* server that wants them, whichever front end it came through.             *)
AuthBeforeDial == auth /\ px # "off" => cred

(* A client is given one answer: a failure is all it is given, never a      *)
(* trailer of a response or of a tunnel, and success is told once.          *)
OneAnswer ==
    /\ (\E i \in DOMAIN out : out[i] = "err") => Len(out) = 1
    /\ \A i, j \in DOMAIN out : out[i] = "ok" /\ out[j] = "ok" => i = j

(* Nobody has broken the session off. *)
Undisturbed ==
    ~stopped /\ ~cgone /\ ~treset /\ (front = "request" => given > MaxUp)

(* Proxy reports success only for a whole response, and every session nobody *)
(* breaks off gives its client one, over any transport that dials: the end   *)
(* of the upload, whenever it comes, closes half of the connection, and      *)
(* neither of the two copies ends the other before the response is over      *)
(* (copy.go, direct.go, forward.go).                                          *)
ResponseWhole ==
    /\ SuccessIsWhole
    /\ hs = "done" /\ tst # "none" /\ Undisturbed => teof /\ Delivered = tsent

Over ==
    /\ hs = "done" /\ cclosed /\ ~Connected /\ \A d \in Directions : copier[d] \in {"off", "sent"}

(* A handler whose server is stopped, whose target has ended or whose client *)
(* has gone returns, with both connections closed and no goroutine left.     *)
(* A client that does not read can hold up the end of its response, and one *)
(* that has ended its upload, or sent a plain request, is not listened to.   *)
SessionOver ==
    /\ stopped /\ hs = "serve" ~> Over
    /\ (teof \/ treset) /\ hs = "serve" ~> Over \/ cstall
    /\ cgone /\ ~cfin /\ front # "request" ~> Over
=============================================================================
