--------------------------- MODULE FrontEndProofs ---------------------------
(***************************************************************************)
(* Proofs about FrontEnd: no dial without credentials, one answer per      *)
(* connection, and whole responses, for all bounds and all transports.     *)
(***************************************************************************)
EXTENDS FrontEnd, FiniteSetTheorems, TLAPS

USE DEF copyVars, proxyVars, clientVars, targetVars, pvars, frontVars, fvars, Directions

Negotiating == hs \in {"version", "methods", "userpass", "request"}

(* What precedes the group, and what the credentials have to do with it.    *)
AuthInv ==
    /\ front \in {"socks", "http", "connect", "request"}
    /\ hs \in {"version", "methods", "userpass", "request", "serve", "done"}
    /\ Negotiating => px = "off" /\ front \in {"socks", "http"}
    /\ front = "socks" /\ auth /\ hs \in {"request", "serve"} => cred
    /\ AuthBeforeDial

LEMMA AuthInit == FInit => AuthInv
BY FrontAssumption DEF FInit, ProxyInit, AuthInv, AuthBeforeDial, Negotiating

LEMMA AuthStep == AuthInv /\ [FNext]_fvars => AuthInv'
<1> SUFFICES ASSUME AuthInv, [FNext]_fvars PROVE AuthInv'
  OBVIOUS
<1> USE DEF AuthInv, AuthBeforeDial, Negotiating
<1>1. CASE ReadFails
  BY <1>1 DEF ReadFails, Leave
<1>2. CASE ReadVersion
  BY <1>2 DEF ReadVersion, Leave, Proceed
<1>3. CASE authenticate
  BY <1>3 DEF authenticate, Leave, Proceed
<1>4. CASE UserPass
  BY <1>4 DEF UserPass, Leave, Proceed
<1>5. CASE SocksRequest
  <2>1. CASE Leave(<<>>) \/ Leave(<<"err">>)
    BY <2>1 DEF Leave
  <2>2. ASSUME NEW k \in Kinds, Serve(k, "socks", FALSE) PROVE AuthInv'
    <3>1. hs' = "serve" /\ front' = "socks" /\ (auth' <=> auth) /\ (cred' <=> cred)
      BY <2>2, Zenon DEF Serve
    <3> QED BY <1>5, <2>2, <3>1 DEF SocksRequest
  <2> QED BY <1>5, <2>1, <2>2 DEF SocksRequest
<1>6. CASE HTTPRequest
  BY <1>6 DEF HTTPRequest, Leave, Serve
<1>7. CASE Group
  BY <1>7 DEF Group, AddrTaken, CopiesStart, Reply, NoAddr, ProxyReturned, HandlerEnds
<1>8. CASE Writing
  BY <1>8 DEF Writing, WriterFails, WriterGives, WriterReadsBody, WriterEnds, WriterKeeps
<1>9. CASE ServerStops
  BY <1>9 DEF ServerStops
<1>10. CASE (Copying \/ (hs # "done" /\ Environment)) /\ UNCHANGED frontVars
  <2>1. px # "off" => px' # "off"
    BY <1>10 DEF Copying, Environment, Dial, ProxyWaited, BlackholeReturns, UpRead, UpWrite,
         DownRead, DownWrite, CopyDone, CopyCancelled, CopyDrained, UpReturns, DownReturns,
         ClientSends, ClientCloses, ClientStalls, TargetSends, TargetCloses
  <2>2. px = "off" => px' = "off"
    BY <1>10 DEF Copying, Environment, Dial, ProxyWaited, BlackholeReturns, UpRead, UpWrite,
         DownRead, DownWrite, CopyDone, CopyCancelled, CopyDrained, UpReturns, DownReturns,
         ClientSends, ClientCloses, ClientStalls, TargetSends, TargetCloses
  <2> QED BY <1>10, <2>1, <2>2
<1>11. CASE UNCHANGED fvars
  BY <1>11
<1> QED
  BY <1>1, <1>2, <1>3, <1>4, <1>5, <1>6, <1>7, <1>8, <1>9, <1>10, <1>11 DEF FNext, Negotiation

(* Whichever front end it came through, nobody is dialled for a client that *)
(* has not shown the credentials the server wants (socks/auth.go,           *)
(* http/http.go:94).                                                          *)
THEOREM NoDialWithoutCredentials == FSpec => []AuthBeforeDial
<1>1. AuthInv => AuthBeforeDial
  BY DEF AuthInv
<1> QED
  BY <1>1, AuthInit, AuthStep, PTL DEF FSpec

----------------------------------------------------------------------------
(* One answer *)

NoErr(o) == \A i \in DOMAIN o : o[i] # "err"
NoOk(o) == \A i \in DOMAIN o : o[i] # "ok"

Returned == px \in {"ret", "gone"}

(* The dial failed, so that there never was a copy. *)
DialFailed == Returned /\ kind # "blackhole" /\ waiter["down"] = "off"

(* Before the group, and what its goroutines know of each other. *)
Waiting ==
    /\ Negotiating => /\ px = "off" /\ hk = "off" /\ wr = "off" /\ out = <<>>
                      /\ pres = "nil" /\ gerr = "nil" /\ result["up"] = "nil"
                      /\ front \in {"socks", "http"} /\ ~piped
    /\ (hs = "done" => cclosed) /\ (hs = "serve" => front # "http")
    /\ hk = "wait" => out = <<>> /\ (px \in {"dial", "addr"} \/ DialFailed)
    /\ hk = "reply" => NoErr(out) /\ NoOk(out) /\ px \in {"run", "ret", "gone"} /\ ~DialFailed
    /\ px \in {"dial", "addr"} => hk = "wait"
    /\ wr # "off" => front = "request"
    /\ (front = "request") <=> piped
    /\ px = "gone" /\ piped => cexp

(* The copies, and who has closed the client's connection. *)
Copies ==
    /\ px \in {"off", "dial", "addr"} => waiter["down"] = "off" /\ copier["up"] = "off"
    /\ waiter["down"] = "off" => copier["down"] = "off"
    /\ waiter["down"] = "done" => cclosed
    /\ kind = "blackhole" => waiter["down"] = "off" /\ copier["up"] # "write"
    /\ Returned /\ kind # "blackhole" => waiter["down"] \in {"off", "done"}
    /\ kind = "blackhole" /\ ~piped /\ (result["up"] = "err" \/ pres = "err") => ClientDown

(* What an error says of the answers. *)
Answers ==
    /\ DialFailed /\ hs = "serve" /\ front # "socks" => out = <<>>
    /\ front = "connect" /\ gerr = "err" => ClientDown \/ DialFailed
    /\ ~NoErr(out) => cclosed \/ (hk = "done" /\ DialFailed)

AnswerInv == FTypeOK /\ Waiting /\ Copies /\ Answers /\ OneAnswer

LEMMA AnswerInit == FInit => AnswerInv
<1> SUFFICES ASSUME FInit PROVE AnswerInv
  OBVIOUS
<1> USE FrontAssumption DEF FInit, ProxyInit
<1>1. out \in Seq({"ok", "err", "data"})
  OBVIOUS
<1>2. FTypeOK
  BY <1>1 DEF FTypeOK
<1>3. Waiting
  BY DEF Waiting, Negotiating, DialFailed, Returned
<1>4. Copies
  BY DEF Copies, Returned
<1>5. NoErr(out)
  BY DEF NoErr
<1>6. Answers
  BY <1>5 DEF Answers, DialFailed, Returned
<1> QED
  BY <1>2, <1>3, <1>4, <1>6 DEF AnswerInv, OneAnswer

LEMMA ServerStopsAnswers == AnswerInv /\ ServerStops => AnswerInv'
<1> SUFFICES ASSUME AnswerInv, ServerStops PROVE AnswerInv'
  OBVIOUS
<1> USE DEF ServerStops
<1>1. FTypeOK'
  BY DEF AnswerInv, FTypeOK
<1>2. out' = out
  OBVIOUS
<1>3. Waiting'
  BY <1>2 DEF AnswerInv, FTypeOK, Waiting, Copies, Negotiating, DialFailed, Returned, NoErr, NoOk
<1>4. Copies'
  BY DEF AnswerInv, FTypeOK, Waiting, Copies, Returned, ClientDown
<1>5. Answers'
  BY <1>2 DEF AnswerInv, FTypeOK, Answers, Waiting, Copies, DialFailed, Returned, ClientDown, NoErr
<1> QED
  BY <1>1, <1>2, <1>3, <1>4, <1>5 DEF AnswerInv, OneAnswer

LEMMA ProxyReturnedAnswers == AnswerInv /\ ProxyReturned => AnswerInv'
<1> SUFFICES ASSUME AnswerInv, ProxyReturned PROVE AnswerInv'
  OBVIOUS
<1> USE DEF ProxyReturned, GroupError
<1>1. FTypeOK'
  BY DEF AnswerInv, FTypeOK
<1>2. out' = out
  OBVIOUS
<1>3. Waiting'
  BY <1>2 DEF AnswerInv, FTypeOK, Waiting, Copies, Negotiating, DialFailed, Returned, NoErr, NoOk
<1>4. Copies'
  BY DEF AnswerInv, FTypeOK, Waiting, Copies, Returned, ClientDown
<1>5. Answers'
  BY <1>2 DEF AnswerInv, FTypeOK, Answers, Waiting, Copies, DialFailed, Returned, ClientDown, NoErr
<1> QED
  BY <1>1, <1>2, <1>3, <1>4, <1>5 DEF AnswerInv, OneAnswer

LEMMA AddrTakenAnswers == AnswerInv /\ AddrTaken => AnswerInv'
<1> SUFFICES ASSUME AnswerInv, AddrTaken PROVE AnswerInv'
  OBVIOUS
<1> USE DEF AddrTaken, CopiesStart
<1>1. FTypeOK'
  BY DEF AnswerInv, FTypeOK
<1>2. out' = out
  OBVIOUS
<1>3. Waiting'
  BY <1>2 DEF AnswerInv, FTypeOK, Waiting, Copies, Negotiating, DialFailed, Returned, NoErr, NoOk
<1>4. Copies'
  BY DEF AnswerInv, FTypeOK, Waiting, Copies, Returned, ClientDown
<1>5. Answers'
  BY <1>2 DEF AnswerInv, FTypeOK, Answers, Waiting, Copies, DialFailed, Returned, ClientDown, NoErr
<1> QED
  BY <1>1, <1>2, <1>3, <1>4, <1>5 DEF AnswerInv, OneAnswer

LEMMA WritingAnswers == AnswerInv /\ Writing => AnswerInv'
<1> SUFFICES ASSUME AnswerInv, Writing PROVE AnswerInv'
  OBVIOUS
<1> USE DEF Writing, WriterFails, WriterGives, WriterReadsBody, WriterEnds, WriterKeeps, GroupError
<1>1. FTypeOK'
  BY DEF AnswerInv, FTypeOK
<1>2. out' = out
  OBVIOUS
<1>3. Waiting'
  BY <1>2 DEF AnswerInv, FTypeOK, Waiting, Copies, Negotiating, DialFailed, Returned, NoErr, NoOk
<1>4. Copies'
  BY DEF AnswerInv, FTypeOK, Waiting, Copies, Returned, ClientDown
<1>5. Answers'
  BY <1>2 DEF AnswerInv, FTypeOK, Answers, Waiting, Copies, DialFailed, Returned, ClientDown, NoErr
<1> QED
  BY <1>1, <1>2, <1>3, <1>4, <1>5 DEF AnswerInv, OneAnswer

LEMMA EnvironmentAnswers == AnswerInv /\ Environment /\ UNCHANGED frontVars => AnswerInv'
<1> SUFFICES ASSUME AnswerInv, Environment /\ UNCHANGED frontVars PROVE AnswerInv'
  OBVIOUS
<1> USE DEF Environment, ClientSends, ClientCloses, ClientStalls, TargetSends, TargetCloses
<1>1. FTypeOK'
  BY DEF AnswerInv, FTypeOK
<1>2. out' = out
  OBVIOUS
<1>3. Waiting'
  BY <1>2 DEF AnswerInv, FTypeOK, Waiting, Copies, Negotiating, DialFailed, Returned, NoErr, NoOk
<1>4. Copies'
  BY DEF AnswerInv, FTypeOK, Waiting, Copies, Returned, ClientDown
<1>5. Answers'
  BY <1>2 DEF AnswerInv, FTypeOK, Answers, Waiting, Copies, DialFailed, Returned, ClientDown, NoErr
<1> QED
  BY <1>1, <1>2, <1>3, <1>4, <1>5 DEF AnswerInv, OneAnswer

LEMMA DialAnswers == AnswerInv /\ Dial /\ UNCHANGED frontVars => AnswerInv'
<1> SUFFICES ASSUME AnswerInv, Dial /\ UNCHANGED frontVars PROVE AnswerInv'
  OBVIOUS
<1> USE DEF Dial
<1>1. FTypeOK'
  BY DEF AnswerInv, FTypeOK
<1>2. out' = out
  OBVIOUS
<1>3. Waiting'
  BY <1>2 DEF AnswerInv, FTypeOK, Waiting, Copies, Negotiating, DialFailed, Returned, NoErr, NoOk
<1>4. Copies'
  BY DEF AnswerInv, FTypeOK, Waiting, Copies, Returned, ClientDown
<1>5. Answers'
  BY <1>2 DEF AnswerInv, FTypeOK, Answers, Waiting, Copies, DialFailed, Returned, ClientDown, NoErr
<1> QED
  BY <1>1, <1>2, <1>3, <1>4, <1>5 DEF AnswerInv, OneAnswer

LEMMA ProxyWaitedAnswers == AnswerInv /\ ProxyWaited /\ UNCHANGED frontVars => AnswerInv'
<1> SUFFICES ASSUME AnswerInv, ProxyWaited /\ UNCHANGED frontVars PROVE AnswerInv'
  OBVIOUS
<1> USE DEF ProxyWaited
<1>1. FTypeOK'
  BY DEF AnswerInv, FTypeOK
<1>2. out' = out
  OBVIOUS
<1>3. Waiting'
  BY <1>2 DEF AnswerInv, FTypeOK, Waiting, Copies, Negotiating, DialFailed, Returned, NoErr, NoOk
<1>4. Copies'
  BY DEF AnswerInv, FTypeOK, Waiting, Copies, Returned, ClientDown
<1>5. Answers'
  BY <1>2 DEF AnswerInv, FTypeOK, Answers, Waiting, Copies, DialFailed, Returned, ClientDown, NoErr
<1> QED
  BY <1>1, <1>2, <1>3, <1>4, <1>5 DEF AnswerInv, OneAnswer

LEMMA BlackholeReturnsAnswers == AnswerInv /\ BlackholeReturns /\ UNCHANGED frontVars => AnswerInv'
<1> SUFFICES ASSUME AnswerInv, BlackholeReturns /\ UNCHANGED frontVars PROVE AnswerInv'
  OBVIOUS
<1> USE DEF BlackholeReturns
<1>1. FTypeOK'
  BY DEF AnswerInv, FTypeOK
<1>2. out' = out
  OBVIOUS
<1>3. Waiting'
  BY <1>2 DEF AnswerInv, FTypeOK, Waiting, Copies, Negotiating, DialFailed, Returned, NoErr, NoOk
<1>4. Copies'
  BY DEF AnswerInv, FTypeOK, Waiting, Copies, Returned, ClientDown
<1>5. Answers'
  BY <1>2 DEF AnswerInv, FTypeOK, Answers, Waiting, Copies, DialFailed, Returned, ClientDown, NoErr
<1> QED
  BY <1>1, <1>2, <1>3, <1>4, <1>5 DEF AnswerInv, OneAnswer

LEMMA UpReadAnswers == AnswerInv /\ UpRead /\ UNCHANGED frontVars => AnswerInv'
<1> SUFFICES ASSUME AnswerInv, UpRead /\ UNCHANGED frontVars PROVE AnswerInv'
  OBVIOUS
<1> USE DEF UpRead, Sent
<1>1. FTypeOK'
  BY DEF AnswerInv, FTypeOK
<1>2. out' = out
  OBVIOUS
<1>3. Waiting'
  BY <1>2 DEF AnswerInv, FTypeOK, Waiting, Copies, Negotiating, DialFailed, Returned, NoErr, NoOk
<1>4. Copies'
  BY DEF AnswerInv, FTypeOK, Waiting, Copies, Returned, ClientDown
<1>5. Answers'
  BY <1>2 DEF AnswerInv, FTypeOK, Answers, Waiting, Copies, DialFailed, Returned, ClientDown, NoErr
<1> QED
  BY <1>1, <1>2, <1>3, <1>4, <1>5 DEF AnswerInv, OneAnswer

LEMMA UpWriteAnswers == AnswerInv /\ UpWrite /\ UNCHANGED frontVars => AnswerInv'
<1> SUFFICES ASSUME AnswerInv, UpWrite /\ UNCHANGED frontVars PROVE AnswerInv'
  OBVIOUS
<1> USE DEF UpWrite, Sent
<1>1. FTypeOK'
  BY DEF AnswerInv, FTypeOK
<1>2. out' = out
  OBVIOUS
<1>3. Waiting'
  BY <1>2 DEF AnswerInv, FTypeOK, Waiting, Copies, Negotiating, DialFailed, Returned, NoErr, NoOk
<1>4. Copies'
  BY DEF AnswerInv, FTypeOK, Waiting, Copies, Returned, ClientDown
<1>5. Answers'
  BY <1>2 DEF AnswerInv, FTypeOK, Answers, Waiting, Copies, DialFailed, Returned, ClientDown, NoErr
<1> QED
  BY <1>1, <1>2, <1>3, <1>4, <1>5 DEF AnswerInv, OneAnswer

LEMMA DownReadAnswers == AnswerInv /\ DownRead /\ UNCHANGED frontVars => AnswerInv'
<1> SUFFICES ASSUME AnswerInv, DownRead /\ UNCHANGED frontVars PROVE AnswerInv'
  OBVIOUS
<1> USE DEF DownRead, Sent
<1>1. FTypeOK'
  BY DEF AnswerInv, FTypeOK
<1>2. out' = out
  OBVIOUS
<1>3. Waiting'
  BY <1>2 DEF AnswerInv, FTypeOK, Waiting, Copies, Negotiating, DialFailed, Returned, NoErr, NoOk
<1>4. Copies'
  BY DEF AnswerInv, FTypeOK, Waiting, Copies, Returned, ClientDown
<1>5. Answers'
  BY <1>2 DEF AnswerInv, FTypeOK, Answers, Waiting, Copies, DialFailed, Returned, ClientDown, NoErr
<1> QED
  BY <1>1, <1>2, <1>3, <1>4, <1>5 DEF AnswerInv, OneAnswer

LEMMA UpReturnsAnswers == AnswerInv /\ UpReturns /\ UNCHANGED frontVars => AnswerInv'
<1> SUFFICES ASSUME AnswerInv, UpReturns /\ UNCHANGED frontVars PROVE AnswerInv'
  OBVIOUS
<1> USE DEF UpReturns, CloseAll, CloseWriteOrClose, Recorded
<1>1. FTypeOK'
  BY DEF AnswerInv, FTypeOK
<1>2. out' = out
  OBVIOUS
<1>3. Waiting'
  BY <1>2 DEF AnswerInv, FTypeOK, Waiting, Copies, Negotiating, DialFailed, Returned, NoErr, NoOk
<1>4. Copies'
  BY DEF AnswerInv, FTypeOK, Waiting, Copies, Returned, ClientDown
<1>5. Answers'
  BY <1>2 DEF AnswerInv, FTypeOK, Answers, Waiting, Copies, DialFailed, Returned, ClientDown, NoErr
<1> QED
  BY <1>1, <1>2, <1>3, <1>4, <1>5 DEF AnswerInv, OneAnswer

LEMMA DownReturnsAnswers == AnswerInv /\ DownReturns /\ UNCHANGED frontVars => AnswerInv'
<1> SUFFICES ASSUME AnswerInv, DownReturns /\ UNCHANGED frontVars PROVE AnswerInv'
  OBVIOUS
<1> USE DEF DownReturns, CloseAll, Recorded
<1>1. FTypeOK'
  BY DEF AnswerInv, FTypeOK
<1>2. out' = out
  OBVIOUS
<1>3. Waiting'
  BY <1>2 DEF AnswerInv, FTypeOK, Waiting, Copies, Negotiating, DialFailed, Returned, NoErr, NoOk
<1>4. Copies'
  BY DEF AnswerInv, FTypeOK, Waiting, Copies, Returned, ClientDown
<1>5. Answers'
  BY <1>2 DEF AnswerInv, FTypeOK, Answers, Waiting, Copies, DialFailed, Returned, ClientDown, NoErr
<1> QED
  BY <1>1, <1>2, <1>3, <1>4, <1>5 DEF AnswerInv, OneAnswer

LEMMA CopyDoneAnswers ==
    ASSUME NEW d \in Directions, AnswerInv, CopyDone(d), UNCHANGED frontVars PROVE AnswerInv'
<1> USE DEF CopyDone
<1>1. FTypeOK'
  BY DEF AnswerInv, FTypeOK
<1>2. out' = out
  OBVIOUS
<1>3. Waiting'
  BY <1>2 DEF AnswerInv, FTypeOK, Waiting, Copies, Negotiating, DialFailed, Returned, NoErr, NoOk
<1>4. Copies'
  BY DEF AnswerInv, FTypeOK, Waiting, Copies, Returned, ClientDown
<1>5. Answers'
  BY <1>2 DEF AnswerInv, FTypeOK, Answers, Waiting, Copies, DialFailed, Returned, ClientDown, NoErr
<1> QED
  BY <1>1, <1>2, <1>3, <1>4, <1>5 DEF AnswerInv, OneAnswer

LEMMA CopyCancelledAnswers ==
    ASSUME NEW d \in Directions, AnswerInv, CopyCancelled(d), UNCHANGED frontVars PROVE AnswerInv'
<1> USE DEF CopyCancelled, CloseAll
<1>1. FTypeOK'
  BY DEF AnswerInv, FTypeOK
<1>2. out' = out
  OBVIOUS
<1>3. Waiting'
  BY <1>2 DEF AnswerInv, FTypeOK, Waiting, Copies, Negotiating, DialFailed, Returned, NoErr, NoOk
<1>4. Copies'
  BY DEF AnswerInv, FTypeOK, Waiting, Copies, Returned, ClientDown
<1>5. Answers'
  BY <1>2 DEF AnswerInv, FTypeOK, Answers, Waiting, Copies, DialFailed, Returned, ClientDown, NoErr
<1> QED
  BY <1>1, <1>2, <1>3, <1>4, <1>5 DEF AnswerInv, OneAnswer

LEMMA CopyDrainedAnswers ==
    ASSUME NEW d \in Directions, AnswerInv, CopyDrained(d), UNCHANGED frontVars PROVE AnswerInv'
<1> USE DEF CopyDrained
<1>1. FTypeOK'
  BY DEF AnswerInv, FTypeOK
<1>2. out' = out
  OBVIOUS
<1>3. Waiting'
  BY <1>2 DEF AnswerInv, FTypeOK, Waiting, Copies, Negotiating, DialFailed, Returned, NoErr, NoOk
<1>4. Copies'
  BY DEF AnswerInv, FTypeOK, Waiting, Copies, Returned, ClientDown
<1>5. Answers'
  BY <1>2 DEF AnswerInv, FTypeOK, Answers, Waiting, Copies, DialFailed, Returned, ClientDown, NoErr
<1> QED
  BY <1>1, <1>2, <1>3, <1>4, <1>5 DEF AnswerInv, OneAnswer

(* What is given to a client that has been given no failure.                *)
LEMMA AppendAnswer ==
    ASSUME NEW o \in Seq({"ok", "err", "data"}), NEW a \in {"ok", "err", "data"}
    PROVE  /\ Append(o, a) \in Seq({"ok", "err", "data"})
           /\ NoErr(o) /\ a # "err" => NoErr(Append(o, a))
           /\ NoOk(o) /\ a # "ok" => NoOk(Append(o, a))
<1>1. Append(o, a) \in Seq({"ok", "err", "data"})
  OBVIOUS
<1>2. DOMAIN Append(o, a) = 1 .. Len(o) + 1 /\ DOMAIN o = 1 .. Len(o)
  OBVIOUS
<1>3. \A i \in 1 .. Len(o) + 1 : Append(o, a)[i] = IF i <= Len(o) THEN o[i] ELSE a
  OBVIOUS
<1> QED
  BY <1>1, <1>2, <1>3 DEF NoErr, NoOk

(* The two conjuncts of OneAnswer, for a sequence of answers. *)
Once(o) == \A i, j \in DOMAIN o : o[i] = "ok" /\ o[j] = "ok" => i = j

LEMMA OneAnswerSays == OneAnswer <=> (~NoErr(out) => Len(out) = 1) /\ Once(out)
BY DEF OneAnswer, NoErr, Once

LEMMA OneAnswerSaysNext == OneAnswer' <=> (~NoErr(out') => Len(out') = 1) /\ Once(out')
BY DEF OneAnswer, NoErr, Once

LEMMA AppendOnce ==
    ASSUME NEW o \in Seq({"ok", "err", "data"}), NEW a \in {"ok", "err", "data"},
           Once(o), a = "ok" => NoOk(o)
    PROVE  Once(Append(o, a))
<1>2. DOMAIN Append(o, a) = 1 .. Len(o) + 1 /\ DOMAIN o = 1 .. Len(o)
  OBVIOUS
<1>3. \A i \in 1 .. Len(o) + 1 : Append(o, a)[i] = IF i <= Len(o) THEN o[i] ELSE a
  OBVIOUS
<1> QED
  BY <1>2, <1>3 DEF NoOk, Once

LEMMA OnlyAnswer ==
    /\ <<"err">> = Append(<<>>, "err") /\ Len(<<"err">>) = 1 /\ Once(<<"err">>)
    /\ <<"err">> \in Seq({"ok", "err", "data"})
    /\ NoErr(<<>>) /\ NoOk(<<>>) /\ Once(<<>>) /\ <<>> \in Seq({"ok", "err", "data"})
BY DEF NoErr, NoOk, Once

LEMMA DownWriteAnswers == AnswerInv /\ DownWrite /\ UNCHANGED frontVars => AnswerInv'
<1> SUFFICES ASSUME AnswerInv, DownWrite, UNCHANGED frontVars PROVE AnswerInv'
  OBVIOUS
<1>1. CASE ~ClientDown
  <2> USE <1>1 DEF DownWrite
  <2>1. out' = Append(out, "data") /\ copier' = [copier EXCEPT !["down"] = "read"]
        /\ UNCHANGED result
    OBVIOUS
  <2>2. out \in Seq({"ok", "err", "data"})
    BY DEF AnswerInv, FTypeOK
  <2>3. out' \in Seq({"ok", "err", "data"})
    BY <2>1, <2>2, AppendAnswer
  <2>4. FTypeOK'
    BY <2>1, <2>3 DEF AnswerInv, FTypeOK
  <2>5. NoErr(out)
    BY DEF AnswerInv, Answers, ClientDown, Copies, DialFailed
  <2>6. NoErr(out')
    BY <2>1, <2>2, <2>5, AppendAnswer
  <2>7. waiter["down"] # "off" /\ hs = "serve" /\ hk # "wait" /\ ~DialFailed
    BY DEF AnswerInv, FTypeOK, Waiting, Copies, Negotiating, DialFailed, ClientDown
  <2>8. NoOk(out) => NoOk(out')
    BY <2>1, <2>2, AppendAnswer
  <2>9. Waiting'
    BY <2>1, <2>6, <2>7, <2>8 DEF AnswerInv, FTypeOK, Waiting, Copies, Negotiating, DialFailed, Returned
  <2>10. Copies'
    BY <2>1, <2>7 DEF AnswerInv, FTypeOK, Copies, Returned, ClientDown
  <2>11. Answers'
    BY <2>1, <2>6, <2>7 DEF AnswerInv, Answers, DialFailed, Returned, ClientDown
  <2>12. Once(out)
    BY OneAnswerSays DEF AnswerInv
  <2>13. Once(out')
    BY <2>1, <2>2, <2>12, AppendOnce
  <2> QED
    BY <2>4, <2>6, <2>9, <2>10, <2>11, <2>13, OneAnswerSaysNext DEF AnswerInv
<1>2. CASE ClientDown
  <2> USE <1>2 DEF DownWrite, Sent
  <2>1. out' = out /\ copier' = [copier EXCEPT !["down"] = "sent"]
        /\ result' = [result EXCEPT !["down"] = "err"]
    OBVIOUS
  <2>2. FTypeOK'
    BY <2>1 DEF AnswerInv, FTypeOK
  <2>3. Waiting'
    BY <2>1 DEF AnswerInv, FTypeOK, Waiting, Copies, Negotiating, DialFailed, Returned, NoErr, NoOk
  <2>4. Copies'
    BY <2>1 DEF AnswerInv, FTypeOK, Waiting, Copies, Returned, ClientDown
  <2>5. Answers'
    BY <2>1 DEF AnswerInv, FTypeOK, Answers, Waiting, Copies, DialFailed, Returned, ClientDown, NoErr
  <2> QED
    BY <2>1, <2>2, <2>3, <2>4, <2>5 DEF AnswerInv, OneAnswer
<1> QED
  BY <1>1, <1>2

LEMMA ReplyAnswers == AnswerInv /\ Reply => AnswerInv'
<1> SUFFICES ASSUME AnswerInv, Reply PROVE AnswerInv'
  OBVIOUS
<1> USE DEF Reply, GroupError
<1>1. CASE ~ClientDown
  <2> USE <1>1
  <2>1. out' = Append(out, "ok") /\ gerr' = gerr /\ hk' = "done"
    BY DEF AnswerInv, FTypeOK
  <2>2. out \in Seq({"ok", "err", "data"})
    BY DEF AnswerInv, FTypeOK
  <2>3. out' \in Seq({"ok", "err", "data"})
    BY <2>1, <2>2, AppendAnswer
  <2>4. FTypeOK'
    BY <2>1, <2>3 DEF AnswerInv, FTypeOK
  <2>5. NoErr(out) /\ NoOk(out) /\ ~DialFailed /\ ~Negotiating /\ px \notin {"off", "dial", "addr"}
    BY DEF AnswerInv, Waiting
  <2>6. NoErr(out')
    BY <2>1, <2>2, <2>5, AppendAnswer
  <2>9. Waiting'
    BY <2>1, <2>5, <2>6 DEF AnswerInv, Waiting, Negotiating, DialFailed, Returned
  <2>10. Copies'
    BY <2>1 DEF AnswerInv, Copies, Returned, ClientDown
  <2>11. Answers'
    BY <2>1, <2>5, <2>6 DEF AnswerInv, Answers, DialFailed, Returned, ClientDown
  <2>12. Once(out)
    BY OneAnswerSays DEF AnswerInv
  <2>13. Once(out')
    BY <2>1, <2>2, <2>5, <2>12, AppendOnce
  <2> QED
    BY <2>4, <2>6, <2>9, <2>10, <2>11, <2>13, OneAnswerSaysNext DEF AnswerInv
<1>2. CASE ClientDown
  <2> USE <1>2
  <2>1. out' = out /\ hk' = "done" /\ gerr' \in {gerr, "err"}
    OBVIOUS
  <2>2. FTypeOK'
    BY <2>1 DEF AnswerInv, FTypeOK
  <2>3. Waiting'
    BY <2>1 DEF AnswerInv, Waiting, Negotiating, DialFailed, Returned
  <2>4. Copies'
    BY <2>1 DEF AnswerInv, Copies, Returned, ClientDown
  <2>5. Answers'
    BY <2>1 DEF AnswerInv, Answers, Waiting, DialFailed, Returned, ClientDown, NoErr
  <2> QED
    BY <2>1, <2>2, <2>3, <2>4, <2>5 DEF AnswerInv, OneAnswer
<1> QED
  BY <1>1, <1>2

LEMMA NoAddrAnswers == AnswerInv /\ NoAddr => AnswerInv'
<1> SUFFICES ASSUME AnswerInv, NoAddr PROVE AnswerInv'
  OBVIOUS
<1>1. out = <<>> /\ DialFailed /\ hk' = "done" /\ gerr' \in {gerr, "err"} /\ ~Negotiating
  BY DEF AnswerInv, Waiting, NoAddr, GroupError, Returned
<1>2. (front = "socks" /\ out' = <<"err">>) \/ out' = <<>>
  BY <1>1, OnlyAnswer DEF NoAddr
<1>3. FTypeOK'
  BY <1>1, <1>2, OnlyAnswer DEF AnswerInv, FTypeOK, NoAddr
<1>4. DialFailed'
  BY <1>1 DEF NoAddr, DialFailed, Returned
<1>5. Waiting'
  BY <1>1, <1>4 DEF AnswerInv, Waiting, Negotiating, Returned, DialFailed, NoAddr
<1>6. Copies'
  BY <1>1 DEF AnswerInv, Copies, Returned, ClientDown, NoAddr
<1>7. Answers'
  BY <1>1, <1>2, <1>4 DEF Answers, NoAddr
<1>8. OneAnswer'
  BY <1>2, OnlyAnswer, OneAnswerSaysNext
<1> QED
  BY <1>3, <1>5, <1>6, <1>7, <1>8 DEF AnswerInv

LEMMA HandlerEndsAnswers == AnswerInv /\ HandlerEnds => AnswerInv'
<1> SUFFICES ASSUME AnswerInv, HandlerEnds PROVE AnswerInv'
  OBVIOUS
<1>1. hs' = "done" /\ cclosed'
  BY DEF HandlerEnds
<1>2. out' = out \/ (out = <<>> /\ out' = <<"err">>)
  <2> SUFFICES ASSUME front # "socks", gerr = "err", ~ClientDown, out' = Append(out, "err")
               PROVE  out = <<>>
    BY OnlyAnswer DEF HandlerEnds
  <2>1. hs = "serve" /\ px = "gone" /\ ~cexp
    BY DEF HandlerEnds, ClientDown
  <2>2. front # "request"
    BY <2>1 DEF AnswerInv, Waiting
  <2>3. CASE front = "connect"
    BY <2>1, <2>3 DEF AnswerInv, Answers
  <2>4. CASE front = "http"
    BY <2>1, <2>4 DEF AnswerInv, Answers, Waiting
  <2> QED
    BY <2>2, <2>3, <2>4 DEF AnswerInv, FTypeOK
<1>3. FTypeOK'
  <2>1. out' \in Seq({"ok", "err", "data"})
    BY <1>2, OnlyAnswer DEF AnswerInv, FTypeOK
  <2> QED BY <2>1 DEF AnswerInv, FTypeOK, HandlerEnds
<1>4. Waiting'
  BY <1>1 DEF AnswerInv, Waiting, Negotiating, Returned, DialFailed, HandlerEnds
<1>5. Copies'
  BY <1>1 DEF AnswerInv, Copies, Returned, ClientDown, HandlerEnds
<1>6. Answers'
  BY <1>1 DEF Answers, ClientDown
<1>7. OneAnswer'
  BY <1>2, OnlyAnswer, OneAnswerSays, OneAnswerSaysNext DEF AnswerInv
<1> QED
  BY <1>3, <1>4, <1>5, <1>6, <1>7 DEF AnswerInv

LEMMA LeaveAnswers ==
    ASSUME NEW a \in {<<>>, <<"err">>}, AnswerInv, Negotiating, Leave(a) PROVE AnswerInv'
<1>1. hs' = "done" /\ cclosed' /\ out' = a
  <2>1. out = <<>> /\ <<>> \o a = a
    BY OnlyAnswer DEF AnswerInv, Waiting
  <2> QED BY <2>1 DEF Leave
<1>2. FTypeOK'
  BY <1>1, OnlyAnswer DEF AnswerInv, FTypeOK, Leave
<1>3. Waiting'
  BY <1>1 DEF AnswerInv, Waiting, Negotiating, Returned, DialFailed, Leave
<1>4. Copies'
  BY <1>1 DEF AnswerInv, Copies, Returned, ClientDown, Leave
<1>5. Answers'
  BY <1>1 DEF Answers, ClientDown
<1>6. OneAnswer'
  BY <1>1, OnlyAnswer, OneAnswerSaysNext
<1> QED
  BY <1>2, <1>3, <1>4, <1>5, <1>6 DEF AnswerInv

LEMMA ProceedAnswers ==
    ASSUME NEW to \in {"methods", "userpass", "request"}, NEW v \in BOOLEAN,
           AnswerInv, Negotiating, Proceed(to, v)
    PROVE  AnswerInv'
<1>1. hs' = to /\ out' = out
  BY DEF Proceed
<1>2. FTypeOK'
  BY <1>1 DEF AnswerInv, FTypeOK, Proceed
<1>3. Waiting'
  BY <1>1 DEF AnswerInv, Waiting, Negotiating, Returned, DialFailed, Proceed, NoErr, NoOk
<1>4. Copies'
  BY DEF AnswerInv, Copies, Returned, ClientDown, Proceed
<1>5. Answers'
  BY <1>1 DEF AnswerInv, Answers, Waiting, Returned, ClientDown, DialFailed, Proceed, NoErr
<1> QED
  BY <1>1, <1>2, <1>3, <1>4, <1>5 DEF AnswerInv, OneAnswer

LEMMA ServeAnswers ==
    ASSUME NEW k \in Kinds, NEW f \in {"socks", "connect", "request"}, NEW v \in BOOLEAN,
           AnswerInv, Negotiating, Serve(k, f, v)
    PROVE  AnswerInv'
<1>1. out = <<>> /\ out' = <<>> /\ hs' = "serve" /\ px' = "dial" /\ hk' = "wait" /\ front' = f
  BY DEF AnswerInv, Waiting, Serve
<1>2. FTypeOK'
  BY <1>1 DEF AnswerInv, FTypeOK, Serve
<1>3. Waiting'
  <2>1. (front' = "request") <=> piped'
    BY Zenon DEF Serve
  <2>2. wr' # "off" => front' = "request"
    BY DEF Serve
  <2> QED BY <1>1, <2>1, <2>2 DEF Waiting, Negotiating
<1>4. Copies'
  BY <1>1 DEF AnswerInv, Waiting, Copies, Returned, ClientDown, Serve
<1>5. Answers'
  BY <1>1, OnlyAnswer DEF AnswerInv, Waiting, Answers, Serve
<1>6. OneAnswer'
  BY <1>1, OnlyAnswer, OneAnswerSaysNext
<1> QED
  BY <1>2, <1>3, <1>4, <1>5, <1>6 DEF AnswerInv

LEMMA AnswerStep == AnswerInv /\ [FNext]_fvars => AnswerInv'
<1> SUFFICES ASSUME AnswerInv, [FNext]_fvars PROVE AnswerInv'
  OBVIOUS
<1>1. CASE ReadFails
  BY <1>1, LeaveAnswers DEF ReadFails, Negotiating
<1>2. CASE ReadVersion
  BY <1>2, LeaveAnswers, ProceedAnswers DEF ReadVersion, Negotiating
<1>3. CASE authenticate
  BY <1>3, LeaveAnswers, ProceedAnswers DEF authenticate, Negotiating
<1>4. CASE UserPass
  BY <1>4, LeaveAnswers, ProceedAnswers DEF UserPass, Negotiating
<1>5. CASE SocksRequest
  BY <1>5, LeaveAnswers, ServeAnswers DEF SocksRequest, Negotiating
<1>6. CASE HTTPRequest
  BY <1>6, LeaveAnswers, ServeAnswers DEF HTTPRequest, Negotiating
<1>7. CASE Group
  BY <1>7, AddrTakenAnswers, ReplyAnswers, NoAddrAnswers, ProxyReturnedAnswers, HandlerEndsAnswers
     DEF Group
<1>8. CASE Writing \/ ServerStops
  BY <1>8, WritingAnswers, ServerStopsAnswers
<1>9. CASE Copying /\ UNCHANGED frontVars
  BY <1>9, DialAnswers, ProxyWaitedAnswers, BlackholeReturnsAnswers, UpReadAnswers, UpWriteAnswers,
     DownReadAnswers, DownWriteAnswers, CopyDoneAnswers, CopyCancelledAnswers, CopyDrainedAnswers,
     UpReturnsAnswers, DownReturnsAnswers DEF Copying
<1>10. CASE Environment /\ UNCHANGED frontVars
  BY <1>10, EnvironmentAnswers
<1>11. CASE UNCHANGED fvars
  BY <1>11 DEF AnswerInv, FTypeOK, Waiting, Copies, Answers, OneAnswer, Negotiating, DialFailed,
     Returned, NoErr, NoOk, ClientDown
<1> QED
  BY <1>1, <1>2, <1>3, <1>4, <1>5, <1>6, <1>7, <1>8, <1>9, <1>10, <1>11 DEF FNext, Negotiation

(* A client is given one answer whatever the transport, the front end, the   *)
(* client and the target do: a failure is never a trailer of a response or   *)
(* of a tunnel (socks/request.go, http/http.go).                               *)
THEOREM OneAnswerOnly == FSpec => []OneAnswer
<1>1. AnswerInv => OneAnswer
  BY DEF AnswerInv
<1> QED
  BY <1>1, AnswerInit, AnswerStep, PTL DEF FSpec

(* The control variables keep to their strings, which the arguments above    *)
(* split on.                                                                   *)
THEOREM FrontTypeCorrect == FSpec => []FTypeOK
<1>1. AnswerInv => FTypeOK
  BY DEF AnswerInv
<1> QED
  BY <1>1, AnswerInit, AnswerStep, PTL DEF FSpec
----------------------------------------------------------------------------
(* A whole response.  What the target has sent is with the client, with the  *)
(* copier or still to be read, for as long as nothing has gone wrong.        *)

InHand == IF copier["down"] = "write" THEN 1 ELSE 0

Counted ==
    /\ tin \in Nat /\ tsent \in Nat
    /\ result["down"] = "nil" => Delivered + tin + InHand = tsent

(* A copy that ended well has met the target's own end. *)
Ended ==
    /\ copier["down"] \in {"read", "write"} => result["down"] = "nil"
    /\ waiter["down"] \in {"after", "done"} => copier["down"] = "off"
    /\ waiter["up"] \in {"after", "done"} => copier["up"] = "off"
    /\ result["down"] = "nil" /\ (copier["down"] = "sent" \/ waiter["down"] \in {"after", "done"})
           => teof /\ tin = 0

(* What Proxy makes of the end of the download. *)
Verdict ==
    /\ responseDone => waiter["down"] = "done" /\ result["down"] = "nil"
    /\ waiter["down"] = "done" /\ result["down"] # "nil" => first # "nil"
    /\ Returned /\ kind # "blackhole" /\ pres = "nil" => waiter["down"] = "done" /\ result["down"] = "nil"

(* Who has a target, and what a handler starts from. *)
Targets ==
    /\ given \in Nat /\ pipe \in [full : BOOLEAN, w : {"open", "eof", "err"}, r : BOOLEAN]
    /\ waiter["down"] = "off" => waiter["up"] = "off"
    /\ px \in {"off", "dial"} \/ kind = "blackhole" \/ DialFailed => tst = "none"
    /\ hs = "done" => px \in {"off", "gone"}
    /\ px \in {"off", "dial", "addr"} => \A d \in Directions : copier[d] = "off" /\ result[d] = "nil"
    /\ Negotiating => ~cancelled /\ ~cclosed /\ ~cexp /\ ~pipe.r /\ pipe.w = "open"

(* Somebody has broken the session off: the server, the client, the target, *)
(* or a plain request that was cut short.                                     *)
Disturbed ==
    \/ stopped \/ cgone \/ treset
    \/ front = "request" /\ wr = "done" /\ given <= MaxUp

(* Nothing of the session has been cancelled, closed or has failed. *)
Calm ==
    /\ ~ctx /\ ~cancelled /\ ~cclosed /\ ~cexp /\ ~pipe.r /\ pipe.w = "open"
    /\ \A d \in Directions : result[d] = "nil" /\ waiter[d] # "wait"
    /\ px # "dial" => Connected
    /\ tst = "half" => waiter["up"] = "done"

(* Only a disturbance does that before the download has ended. *)
Quiet ==
    ~Disturbed /\ kind # "blackhole" =>
        /\ px \in {"dial", "addr", "run"} /\ waiter["down"] # "done" => Calm
        /\ waiter["down"] = "done" => result["down"] = "nil"

WholeInv == Counted /\ Ended /\ Verdict /\ Targets /\ Quiet

LEMMA WholeInit == FInit => WholeInv
<1> SUFFICES ASSUME FInit PROVE WholeInv
  OBVIOUS
<1> USE DEF FInit, ProxyInit, NewPipe
<1>1. Delivered = 0
  <2>1. {i \in DOMAIN out : out[i] = "data"} = {}
    OBVIOUS
  <2> QED BY <2>1, FS_EmptySet DEF Delivered
<1>2. Counted
  BY <1>1 DEF Counted, InHand
<1>3. Ended /\ Verdict
  BY DEF Ended, Verdict, Returned
<1>4. Targets
  BY FrontAssumption DEF Targets, DialFailed, Returned, Negotiating
<1>5. Quiet
  BY DEF Quiet
<1> QED
  BY <1>2, <1>3, <1>4, <1>5 DEF WholeInv

(* One more answer, or one unit more of the response. *)
LEMMA DeliveredCounts ==
    ASSUME NEW o \in Seq({"ok", "err", "data"}), NEW a \in {"ok", "err", "data"}
    PROVE  LET D(s) == Cardinality({i \in DOMAIN s : s[i] = "data"})
           IN  D(o) \in Nat /\ D(Append(o, a)) = IF a = "data" THEN D(o) + 1 ELSE D(o)
<1> DEFINE T == {i \in DOMAIN o : o[i] = "data"}
           U == {i \in DOMAIN Append(o, a) : Append(o, a)[i] = "data"}
<1>1. DOMAIN Append(o, a) = 1 .. Len(o) + 1 /\ DOMAIN o = 1 .. Len(o) /\ Len(o) \in Nat
  OBVIOUS
<1>2. \A i \in 1 .. Len(o) + 1 : Append(o, a)[i] = IF i <= Len(o) THEN o[i] ELSE a
  OBVIOUS
<1>3. IsFiniteSet(T) /\ Cardinality(T) \in Nat
  <2>1. IsFiniteSet(1 .. Len(o))
    BY <1>1, FS_Interval
  <2> QED BY <1>1, <2>1, FS_Subset, FS_CardinalityType
<1>4. U = IF a = "data" THEN T \cup {Len(o) + 1} ELSE T
  BY <1>1, <1>2
<1>5. Len(o) + 1 \notin T
  BY <1>1
<1>6. Cardinality(T \cup {Len(o) + 1}) = Cardinality(T) + 1
  BY <1>3, <1>5, FS_AddElement
<1> QED
  BY <1>3, <1>4, <1>6

LEMMA DeliveredNat == ASSUME AnswerInv PROVE Delivered \in Nat
BY DeliveredCounts DEF AnswerInv, FTypeOK, Delivered

LEMMA ServerStopsWhole == AnswerInv /\ WholeInv /\ ServerStops => WholeInv'
<1> SUFFICES ASSUME AnswerInv, WholeInv, ServerStops PROVE WholeInv'
  OBVIOUS
<1> USE DEF ServerStops, AnswerInv, FTypeOK, WholeInv
<1>1. Delivered' = Delivered /\ Delivered \in Nat
  BY DeliveredNat DEF Delivered
<1>2. Counted'
  BY <1>1 DEF Counted, InHand, Waiting, Copies, Ended
<1>3. Ended'
  BY DEF Counted, Ended, Copies, Targets
<1>4. Verdict'
  BY DEF Verdict, Returned, Copies, Ended
<1>5. Targets'
  BY DEF Targets, Waiting, Copies, DialFailed, Returned, Negotiating
<1>6. Quiet'
  BY ProxyAssumption DEF Quiet, Disturbed, Calm, Connected, ClientDown, Targets, Verdict, Waiting, Copies, Ended, Returned
<1> QED
  BY <1>2, <1>3, <1>4, <1>5, <1>6

LEMMA ProxyReturnedWhole == AnswerInv /\ WholeInv /\ ProxyReturned => WholeInv'
<1> SUFFICES ASSUME AnswerInv, WholeInv, ProxyReturned PROVE WholeInv'
  OBVIOUS
<1> USE DEF ProxyReturned, GroupError, AnswerInv, FTypeOK, WholeInv
<1>1. Delivered' = Delivered /\ Delivered \in Nat
  BY DeliveredNat DEF Delivered
<1>2. Counted'
  BY <1>1 DEF Counted, InHand, Waiting, Copies, Ended
<1>3. Ended'
  BY DEF Counted, Ended, Copies, Targets
<1>4. Verdict'
  BY DEF Verdict, Returned, Copies, Ended
<1>5. Targets'
  BY DEF Targets, Waiting, Copies, DialFailed, Returned, Negotiating
<1>6. Quiet'
  BY ProxyAssumption DEF Quiet, Disturbed, Calm, Connected, ClientDown, Targets, Verdict, Waiting, Copies, Ended, Returned
<1> QED
  BY <1>2, <1>3, <1>4, <1>5, <1>6

LEMMA AddrTakenWhole == AnswerInv /\ WholeInv /\ AddrTaken => WholeInv'
<1> SUFFICES ASSUME AnswerInv, WholeInv, AddrTaken PROVE WholeInv'
  OBVIOUS
<1> USE DEF AddrTaken, CopiesStart, AnswerInv, FTypeOK, WholeInv
<1>1. Delivered' = Delivered /\ Delivered \in Nat
  BY DeliveredNat DEF Delivered
<1>2. Counted'
  BY <1>1 DEF Counted, InHand, Waiting, Copies, Ended
<1>3. Ended'
  BY DEF Counted, Ended, Copies, Targets
<1>4. Verdict'
  BY DEF Verdict, Returned, Copies, Ended
<1>5. Targets'
  BY DEF Targets, Waiting, Copies, DialFailed, Returned, Negotiating
<1>6. Quiet'
  BY ProxyAssumption DEF Quiet, Disturbed, Calm, Connected, ClientDown, Targets, Verdict, Waiting, Copies, Ended, Returned
<1> QED
  BY <1>2, <1>3, <1>4, <1>5, <1>6

LEMMA WriterFailsWhole == AnswerInv /\ WholeInv /\ WriterFails => WholeInv'
<1> SUFFICES ASSUME AnswerInv, WholeInv, WriterFails PROVE WholeInv'
  OBVIOUS
<1> USE DEF WriterFails, WriterKeeps, GroupError, AnswerInv, FTypeOK, WholeInv
<1>1. Delivered' = Delivered /\ Delivered \in Nat
  BY DeliveredNat DEF Delivered
<1>2. Counted'
  BY <1>1 DEF Counted, InHand, Waiting, Copies, Ended
<1>3. Ended'
  BY DEF Counted, Ended, Copies, Targets
<1>4. Verdict'
  BY DEF Verdict, Returned, Copies, Ended
<1>5. Targets'
  BY DEF Targets, Waiting, Copies, DialFailed, Returned, Negotiating
<1>6. Quiet'
  BY ProxyAssumption DEF Quiet, Disturbed, Calm, Connected, ClientDown, Targets, Verdict, Waiting, Copies, Ended, Returned
<1> QED
  BY <1>2, <1>3, <1>4, <1>5, <1>6

LEMMA WriterGivesWhole == AnswerInv /\ WholeInv /\ WriterGives => WholeInv'
<1> SUFFICES ASSUME AnswerInv, WholeInv, WriterGives PROVE WholeInv'
  OBVIOUS
<1> USE DEF WriterGives, WriterKeeps, AnswerInv, FTypeOK, WholeInv
<1>1. Delivered' = Delivered /\ Delivered \in Nat
  BY DeliveredNat DEF Delivered
<1>2. Counted'
  BY <1>1 DEF Counted, InHand, Waiting, Copies, Ended
<1>3. Ended'
  BY DEF Counted, Ended, Copies, Targets
<1>4. Verdict'
  BY DEF Verdict, Returned, Copies, Ended
<1>5. Targets'
  <2>1. given' \in Nat
    BY DEF Targets
  <2>3. pipe' \in [full : BOOLEAN, w : {"open", "eof", "err"}, r : BOOLEAN]
    BY DEF Targets
  <2>4. ~Negotiating
    BY DEF Waiting
  <2>2. UNCHANGED <<px, hs, kind, tst, waiter, copier, result>>
    OBVIOUS
  <2> QED BY <2>1, <2>2, <2>3, <2>4 DEF Targets, DialFailed, Returned, Negotiating
<1>6. Quiet'
  BY ProxyAssumption DEF Quiet, Disturbed, Calm, Connected, ClientDown, Targets, Verdict, Waiting, Copies, Ended, Returned
<1> QED
  BY <1>2, <1>3, <1>4, <1>5, <1>6

LEMMA WriterReadsBodyWhole == AnswerInv /\ WholeInv /\ WriterReadsBody => WholeInv'
<1> SUFFICES ASSUME AnswerInv, WholeInv, WriterReadsBody PROVE WholeInv'
  OBVIOUS
<1> USE DEF WriterReadsBody, WriterKeeps, AnswerInv, FTypeOK, WholeInv
<1>1. Delivered' = Delivered /\ Delivered \in Nat
  BY DeliveredNat DEF Delivered
<1>2. Counted'
  BY <1>1 DEF Counted, InHand, Waiting, Copies, Ended
<1>3. Ended'
  BY DEF Counted, Ended, Copies, Targets
<1>4. Verdict'
  BY DEF Verdict, Returned, Copies, Ended
<1>5. Targets'
  BY DEF Targets, Waiting, Copies, DialFailed, Returned, Negotiating
<1>6. Quiet'
  BY ProxyAssumption DEF Quiet, Disturbed, Calm, Connected, ClientDown, Targets, Verdict, Waiting, Copies, Ended, Returned
<1> QED
  BY <1>2, <1>3, <1>4, <1>5, <1>6

LEMMA WriterEndsWhole == AnswerInv /\ WholeInv /\ WriterEnds => WholeInv'
<1> SUFFICES ASSUME AnswerInv, WholeInv, WriterEnds PROVE WholeInv'
  OBVIOUS
<1> USE DEF WriterEnds, WriterKeeps, AnswerInv, FTypeOK, WholeInv
<1>1. Delivered' = Delivered /\ Delivered \in Nat
  BY DeliveredNat DEF Delivered
<1>2. Counted'
  BY <1>1 DEF Counted, InHand, Waiting, Copies, Ended
<1>3. Ended'
  BY DEF Counted, Ended, Copies, Targets
<1>4. Verdict'
  BY DEF Verdict, Returned, Copies, Ended
<1>5. Targets'
  BY DEF Targets, Waiting, Copies, DialFailed, Returned, Negotiating
<1>6. Quiet'
  BY ProxyAssumption DEF Quiet, Disturbed, Calm, Connected, ClientDown, Targets, Verdict, Waiting, Copies, Ended, Returned
<1> QED
  BY <1>2, <1>3, <1>4, <1>5, <1>6

LEMMA ClientSendsWhole == AnswerInv /\ WholeInv /\ ClientSends /\ UNCHANGED frontVars => WholeInv'
<1> SUFFICES ASSUME AnswerInv, WholeInv, ClientSends, UNCHANGED frontVars PROVE WholeInv'
  OBVIOUS
<1> USE DEF ClientSends, AnswerInv, FTypeOK, WholeInv
<1>1. Delivered' = Delivered /\ Delivered \in Nat
  BY DeliveredNat DEF Delivered
<1>2. Counted'
  BY <1>1 DEF Counted, InHand, Waiting, Copies, Ended
<1>3. Ended'
  BY DEF Counted, Ended, Copies, Targets
<1>4. Verdict'
  BY DEF Verdict, Returned, Copies, Ended
<1>5. Targets'
  BY DEF Targets, Waiting, Copies, DialFailed, Returned, Negotiating
<1>6. Quiet'
  BY ProxyAssumption DEF Quiet, Disturbed, Calm, Connected, ClientDown, Targets, Verdict, Waiting, Copies, Ended, Returned
<1> QED
  BY <1>2, <1>3, <1>4, <1>5, <1>6

LEMMA ClientClosesWhole == AnswerInv /\ WholeInv /\ ClientCloses /\ UNCHANGED frontVars => WholeInv'
<1> SUFFICES ASSUME AnswerInv, WholeInv, ClientCloses, UNCHANGED frontVars PROVE WholeInv'
  OBVIOUS
<1> USE DEF ClientCloses, AnswerInv, FTypeOK, WholeInv
<1>1. Delivered' = Delivered /\ Delivered \in Nat
  BY DeliveredNat DEF Delivered
<1>2. Counted'
  BY <1>1 DEF Counted, InHand, Waiting, Copies, Ended
<1>3. Ended'
  BY DEF Counted, Ended, Copies, Targets
<1>4. Verdict'
  BY DEF Verdict, Returned, Copies, Ended
<1>5. Targets'
  BY DEF Targets, Waiting, Copies, DialFailed, Returned, Negotiating
<1>6. Quiet'
  BY ProxyAssumption DEF Quiet, Disturbed, Calm, Connected, ClientDown, Targets, Verdict, Waiting, Copies, Ended, Returned
<1> QED
  BY <1>2, <1>3, <1>4, <1>5, <1>6

LEMMA ClientStallsWhole == AnswerInv /\ WholeInv /\ ClientStalls /\ UNCHANGED frontVars => WholeInv'
<1> SUFFICES ASSUME AnswerInv, WholeInv, ClientStalls, UNCHANGED frontVars PROVE WholeInv'
  OBVIOUS
<1> USE DEF ClientStalls, AnswerInv, FTypeOK, WholeInv
<1>1. Delivered' = Delivered /\ Delivered \in Nat
  BY DeliveredNat DEF Delivered
<1>2. Counted'
  BY <1>1 DEF Counted, InHand, Waiting, Copies, Ended
<1>3. Ended'
  BY DEF Counted, Ended, Copies, Targets
<1>4. Verdict'
  BY DEF Verdict, Returned, Copies, Ended
<1>5. Targets'
  BY DEF Targets, Waiting, Copies, DialFailed, Returned, Negotiating
<1>6. Quiet'
  BY ProxyAssumption DEF Quiet, Disturbed, Calm, Connected, ClientDown, Targets, Verdict, Waiting, Copies, Ended, Returned
<1> QED
  BY <1>2, <1>3, <1>4, <1>5, <1>6

LEMMA TargetSendsWhole == AnswerInv /\ WholeInv /\ TargetSends /\ UNCHANGED frontVars => WholeInv'
<1> SUFFICES ASSUME AnswerInv, WholeInv, TargetSends, UNCHANGED frontVars PROVE WholeInv'
  OBVIOUS
<1> USE DEF TargetSends, AnswerInv, FTypeOK, WholeInv
<1>1. Delivered' = Delivered /\ Delivered \in Nat
  BY DeliveredNat DEF Delivered
<1>2. Counted'
  BY <1>1 DEF Counted, InHand, Waiting, Copies, Ended
<1>3. Ended'
  BY DEF Counted, Ended, Copies, Targets
<1>4. Verdict'
  BY DEF Verdict, Returned, Copies, Ended
<1>5. Targets'
  BY DEF Targets, Waiting, Copies, DialFailed, Returned, Negotiating
<1>6. Quiet'
  BY ProxyAssumption DEF Quiet, Disturbed, Calm, Connected, ClientDown, Targets, Verdict, Waiting, Copies, Ended, Returned
<1> QED
  BY <1>2, <1>3, <1>4, <1>5, <1>6

LEMMA TargetClosesWhole == AnswerInv /\ WholeInv /\ TargetCloses /\ UNCHANGED frontVars => WholeInv'
<1> SUFFICES ASSUME AnswerInv, WholeInv, TargetCloses, UNCHANGED frontVars PROVE WholeInv'
  OBVIOUS
<1> USE DEF TargetCloses, AnswerInv, FTypeOK, WholeInv
<1>1. Delivered' = Delivered /\ Delivered \in Nat
  BY DeliveredNat DEF Delivered
<1>2. Counted'
  BY <1>1 DEF Counted, InHand, Waiting, Copies, Ended
<1>3. Ended'
  BY DEF Counted, Ended, Copies, Targets
<1>4. Verdict'
  BY DEF Verdict, Returned, Copies, Ended
<1>5. Targets'
  BY DEF Targets, Waiting, Copies, DialFailed, Returned, Negotiating
<1>6. Quiet'
  BY ProxyAssumption DEF Quiet, Disturbed, Calm, Connected, ClientDown, Targets, Verdict, Waiting, Copies, Ended, Returned
<1> QED
  BY <1>2, <1>3, <1>4, <1>5, <1>6

LEMMA DialWhole == AnswerInv /\ WholeInv /\ Dial /\ UNCHANGED frontVars => WholeInv'
<1> SUFFICES ASSUME AnswerInv, WholeInv, Dial, UNCHANGED frontVars PROVE WholeInv'
  OBVIOUS
<1> USE DEF Dial, AnswerInv, FTypeOK, WholeInv
<1>1. Delivered' = Delivered /\ Delivered \in Nat
  BY DeliveredNat DEF Delivered
<1>2. Counted'
  BY <1>1 DEF Counted, InHand, Waiting, Copies, Ended
<1>3. Ended'
  BY DEF Counted, Ended, Copies, Targets
<1>4. Verdict'
  BY DEF Verdict, Returned, Copies, Ended
<1>5. Targets'
  BY DEF Targets, Waiting, Copies, DialFailed, Returned, Negotiating
<1>6. Quiet'
  BY ProxyAssumption DEF Quiet, Disturbed, Calm, Connected, ClientDown, Targets, Verdict, Waiting, Copies, Ended, Returned
<1> QED
  BY <1>2, <1>3, <1>4, <1>5, <1>6

LEMMA ProxyWaitedWhole == AnswerInv /\ WholeInv /\ ProxyWaited /\ UNCHANGED frontVars => WholeInv'
<1> SUFFICES ASSUME AnswerInv, WholeInv, ProxyWaited, UNCHANGED frontVars PROVE WholeInv'
  OBVIOUS
<1> USE DEF ProxyWaited, AnswerInv, FTypeOK, WholeInv
<1>1. Delivered' = Delivered /\ Delivered \in Nat
  BY DeliveredNat DEF Delivered
<1>2. Counted'
  BY <1>1 DEF Counted, InHand, Waiting, Copies, Ended
<1>3. Ended'
  BY DEF Counted, Ended, Copies, Targets
<1>4. Verdict'
  BY DEF Verdict, Returned, Copies, Ended
<1>5. Targets'
  BY DEF Targets, Waiting, Copies, DialFailed, Returned, Negotiating
<1>6. Quiet'
  BY ProxyAssumption DEF Quiet, Disturbed, Calm, Connected, ClientDown, Targets, Verdict, Waiting, Copies, Ended, Returned
<1> QED
  BY <1>2, <1>3, <1>4, <1>5, <1>6

LEMMA BlackholeReturnsWhole == AnswerInv /\ WholeInv /\ BlackholeReturns /\ UNCHANGED frontVars => WholeInv'
<1> SUFFICES ASSUME AnswerInv, WholeInv, BlackholeReturns, UNCHANGED frontVars PROVE WholeInv'
  OBVIOUS
<1> USE DEF BlackholeReturns, AnswerInv, FTypeOK, WholeInv
<1>1. Delivered' = Delivered /\ Delivered \in Nat
  BY DeliveredNat DEF Delivered
<1>2. Counted'
  BY <1>1 DEF Counted, InHand, Waiting, Copies, Ended
<1>3. Ended'
  BY DEF Counted, Ended, Copies, Targets
<1>4. Verdict'
  BY DEF Verdict, Returned, Copies, Ended
<1>5. Targets'
  BY DEF Targets, Waiting, Copies, DialFailed, Returned, Negotiating
<1>6. Quiet'
  BY ProxyAssumption DEF Quiet, Disturbed, Calm, Connected, ClientDown, Targets, Verdict, Waiting, Copies, Ended, Returned
<1> QED
  BY <1>2, <1>3, <1>4, <1>5, <1>6

LEMMA UpReadWhole == AnswerInv /\ WholeInv /\ UpRead /\ UNCHANGED frontVars => WholeInv'
<1> SUFFICES ASSUME AnswerInv, WholeInv, UpRead, UNCHANGED frontVars PROVE WholeInv'
  OBVIOUS
<1> USE DEF UpRead, Sent, ClientDown, AnswerInv, FTypeOK, WholeInv
<1>1. Delivered' = Delivered /\ Delivered \in Nat
  BY DeliveredNat DEF Delivered
<1>2. Counted'
  BY <1>1 DEF Counted, InHand, Waiting, Copies, Ended
<1>3. Ended'
  BY DEF Counted, Ended, Copies, Targets
<1>4. Verdict'
  BY DEF Verdict, Returned, Copies, Ended
<1>5. Targets'
  BY DEF Targets, Waiting, Copies, DialFailed, Returned, Negotiating
<1>6. Quiet'
  <2> SUFFICES ASSUME ~Disturbed', kind # "blackhole"
               PROVE  /\ px = "run" /\ waiter["down"] # "done" => Calm'
                      /\ waiter["down"] = "done" => result'["down"] = "nil"
    <3>1. px \notin {"dial", "addr"} /\ UNCHANGED <<px, waiter, kind>>
      BY DEF Copies
    <3> QED BY <3>1 DEF Quiet
  <2>1. ~Disturbed /\ (piped <=> front = "request") /\ copier["up"] = "read" /\ px \notin {"dial", "addr"}
    BY DEF Disturbed, Waiting, Copies
  <2>2. waiter["down"] = "done" => result'["down"] = "nil"
    BY <2>1 DEF Quiet
  <2>3. ASSUME px = "run", waiter["down"] # "done" PROVE Calm'
    <3>1. Calm
      BY <2>1, <2>3 DEF Quiet
    <3>2. ~(IF piped THEN pipe.r \/ pipe.w = "err" ELSE ClientDown)
      BY <2>1, <3>1 DEF Calm, Disturbed
    <3>3. CASE copier'["up"] # "sent" /\ UNCHANGED result
      <4>1. copier'["up"] \in {"read", "write"}
        BY <3>3
      <4>2. pipe' = pipe \/ pipe' = [pipe EXCEPT !.full = FALSE]
        BY <3>3
      <4>3. ~(pipe'.r) /\ pipe'.w = "open"
        BY <3>1, <4>2 DEF Calm, Connected, Targets
      <4> QED BY <3>1, <3>3, <4>1, <4>3 DEF Calm, Connected
    <3>4. CASE Sent("up", "nil") /\ UNCHANGED pipe
      BY <3>1, <3>4 DEF Calm, Connected
    <3> QED BY <3>2, <3>3, <3>4
  <2> QED BY <2>2, <2>3, <2>1
<1> QED
  BY <1>2, <1>3, <1>4, <1>5, <1>6

LEMMA UpWriteWhole == AnswerInv /\ WholeInv /\ UpWrite /\ UNCHANGED frontVars => WholeInv'
<1> SUFFICES ASSUME AnswerInv, WholeInv, UpWrite, UNCHANGED frontVars PROVE WholeInv'
  OBVIOUS
<1> USE DEF UpWrite, Sent, AnswerInv, FTypeOK, WholeInv
<1>1. Delivered' = Delivered /\ Delivered \in Nat
  BY DeliveredNat DEF Delivered
<1>2. Counted'
  BY <1>1 DEF Counted, InHand, Waiting, Copies, Ended
<1>3. Ended'
  BY DEF Counted, Ended, Copies, Targets
<1>4. Verdict'
  BY DEF Verdict, Returned, Copies, Ended
<1>5. Targets'
  BY DEF Targets, Waiting, Copies, DialFailed, Returned, Negotiating
<1>6. Quiet'
  <2>1. px \notin {"dial", "addr"} /\ waiter["up"] # "done"
    BY DEF Copies, Ended, Targets
  <2>2. kind # "blackhole" /\ ~Disturbed /\ px = "run" /\ waiter["down"] # "done" => Calm /\ tst = "open" /\ ~treset
    BY <2>1 DEF Quiet, Calm, Connected, Disturbed
  <2>3. kind # "blackhole" /\ ~Disturbed /\ px = "run" /\ waiter["down"] # "done" => Calm'
    BY <2>2 DEF Calm, Connected
  <2>4. result'["down"] = result["down"]
    OBVIOUS
  <2> QED
    BY <2>1, <2>3, <2>4 DEF Quiet, Disturbed
<1> QED
  BY <1>2, <1>3, <1>4, <1>5, <1>6

LEMMA DownReadWhole == AnswerInv /\ WholeInv /\ DownRead /\ UNCHANGED frontVars => WholeInv'
<1> SUFFICES ASSUME AnswerInv, WholeInv, DownRead, UNCHANGED frontVars PROVE WholeInv'
  OBVIOUS
<1> USE DEF DownRead, Sent, AnswerInv, FTypeOK, WholeInv
<1>1. Delivered' = Delivered /\ Delivered \in Nat
  BY DeliveredNat DEF Delivered
<1>2. Counted'
  <2>1. CASE result'["down"] = "err" /\ UNCHANGED tin
    BY <2>1 DEF Counted
  <2>2. CASE copier'["down"] = "sent" /\ UNCHANGED tin /\ result'["down"] = "nil" /\ tin = 0
    <3>1. result["down"] \in {"nil", "err", "canceled"}
      OBVIOUS
    <3>2. result["down"] = "nil"
      BY <3>1 DEF Ended
    <3> QED BY <1>1, <2>2, <3>2 DEF Counted, InHand
  <2>3. CASE /\ tin > 0 /\ tin' = tin - 1 /\ UNCHANGED result
             /\ copier' = [copier EXCEPT !["down"] = "write"]
    <3>1. tin - 1 \in Nat
      BY <2>3 DEF Counted
    <3> QED BY <1>1, <2>3, <3>1 DEF Counted, InHand
  <2> QED BY <2>1, <2>2, <2>3
<1>3. Ended'
  BY DEF Counted, Ended, Copies, Targets
<1>4. Verdict'
  BY DEF Verdict, Returned, Copies, Ended
<1>5. Targets'
  BY DEF Targets, Waiting, Copies, DialFailed, Returned, Negotiating
<1>6. Quiet'
  BY ProxyAssumption DEF Quiet, Disturbed, Calm, Connected, ClientDown, Targets, Verdict, Waiting, Copies, Ended, Returned
<1> QED
  BY <1>2, <1>3, <1>4, <1>5, <1>6

LEMMA UpReturnsWhole == AnswerInv /\ WholeInv /\ UpReturns /\ UNCHANGED frontVars => WholeInv'
<1> SUFFICES ASSUME AnswerInv, WholeInv, UpReturns, UNCHANGED frontVars PROVE WholeInv'
  OBVIOUS
<1> USE DEF UpReturns, CloseAll, CloseWriteOrClose, Recorded, AnswerInv, FTypeOK, WholeInv
<1>1. Delivered' = Delivered /\ Delivered \in Nat
  BY DeliveredNat DEF Delivered
<1>2. Counted'
  BY <1>1 DEF Counted, InHand, Waiting, Copies, Ended
<1>3. Ended'
  BY DEF Counted, Ended, Copies, Targets
<1>4. Verdict'
  BY DEF Verdict, Returned, Copies, Ended
<1>5. Targets'
  BY DEF Targets, Waiting, Copies, DialFailed, Returned, Negotiating
<1>6. Quiet'
  BY ProxyAssumption DEF Quiet, Disturbed, Calm, Connected, ClientDown, Targets, Verdict, Waiting, Copies, Ended, Returned
<1> QED
  BY <1>2, <1>3, <1>4, <1>5, <1>6

LEMMA DownReturnsWhole == AnswerInv /\ WholeInv /\ DownReturns /\ UNCHANGED frontVars => WholeInv'
<1> SUFFICES ASSUME AnswerInv, WholeInv, DownReturns, UNCHANGED frontVars PROVE WholeInv'
  OBVIOUS
<1> USE DEF DownReturns, CloseAll, Recorded, AnswerInv, FTypeOK, WholeInv
<1>1. Delivered' = Delivered /\ Delivered \in Nat
  BY DeliveredNat DEF Delivered
<1>2. Counted'
  BY <1>1 DEF Counted, InHand, Waiting, Copies, Ended
<1>3. Ended'
  BY DEF Counted, Ended, Copies, Targets
<1>4. Verdict'
  BY DEF Verdict, Returned, Copies, Ended
<1>5. Targets'
  BY DEF Targets, Waiting, Copies, DialFailed, Returned, Negotiating
<1>6. Quiet'
  BY ProxyAssumption DEF Quiet, Disturbed, Calm, Connected, ClientDown, Targets, Verdict, Waiting, Copies, Ended, Returned
<1> QED
  BY <1>2, <1>3, <1>4, <1>5, <1>6

LEMMA CopyDoneWhole ==
    ASSUME NEW d \in Directions, AnswerInv, WholeInv, CopyDone(d), UNCHANGED frontVars PROVE WholeInv'
<1> USE DEF CopyDone, AnswerInv, FTypeOK, WholeInv
<1>1. Delivered' = Delivered /\ Delivered \in Nat
  BY DeliveredNat DEF Delivered
<1>2. Counted'
  BY <1>1 DEF Counted, InHand, Waiting, Copies, Ended
<1>3. Ended'
  BY DEF Counted, Ended, Copies, Targets
<1>4. Verdict'
  BY DEF Verdict, Returned, Copies, Ended
<1>5. Targets'
  BY DEF Targets, Waiting, Copies, DialFailed, Returned, Negotiating
<1>6. Quiet'
  BY ProxyAssumption DEF Quiet, Disturbed, Calm, Connected, ClientDown, Targets, Verdict, Waiting, Copies, Ended, Returned
<1> QED
  BY <1>2, <1>3, <1>4, <1>5, <1>6

LEMMA CopyCancelledWhole ==
    ASSUME NEW d \in Directions, AnswerInv, WholeInv, CopyCancelled(d), UNCHANGED frontVars PROVE WholeInv'
<1> USE DEF CopyCancelled, CloseAll, SessionDone, AnswerInv, FTypeOK, WholeInv
<1>1. Delivered' = Delivered /\ Delivered \in Nat
  BY DeliveredNat DEF Delivered
<1>2. Counted'
  BY <1>1 DEF Counted, InHand, Waiting, Copies, Ended
<1>3. Ended'
  BY DEF Counted, Ended, Copies, Targets
<1>4. Verdict'
  BY DEF Verdict, Returned, Copies, Ended
<1>5. Targets'
  BY DEF Targets, Waiting, Copies, DialFailed, Returned, Negotiating
<1>6. Quiet'
  BY ProxyAssumption DEF Quiet, Disturbed, Calm, Connected, ClientDown, Targets, Verdict, Waiting, Copies, Ended, Returned
<1> QED
  BY <1>2, <1>3, <1>4, <1>5, <1>6

LEMMA CopyDrainedWhole ==
    ASSUME NEW d \in Directions, AnswerInv, WholeInv, CopyDrained(d), UNCHANGED frontVars PROVE WholeInv'
<1> USE DEF CopyDrained, AnswerInv, FTypeOK, WholeInv
<1>1. Delivered' = Delivered /\ Delivered \in Nat
  BY DeliveredNat DEF Delivered
<1>2. Counted'
  BY <1>1 DEF Counted, InHand, Waiting, Copies, Ended
<1>3. Ended'
  BY DEF Counted, Ended, Copies, Targets
<1>4. Verdict'
  BY DEF Verdict, Returned, Copies, Ended
<1>5. Targets'
  BY DEF Targets, Waiting, Copies, DialFailed, Returned, Negotiating
<1>6. Quiet'
  BY ProxyAssumption DEF Quiet, Disturbed, Calm, Connected, ClientDown, Targets, Verdict, Waiting, Copies, Ended, Returned
<1> QED
  BY <1>2, <1>3, <1>4, <1>5, <1>6

LEMMA DownWriteWhole == AnswerInv /\ WholeInv /\ DownWrite /\ UNCHANGED frontVars => WholeInv'
<1> SUFFICES ASSUME AnswerInv, WholeInv, DownWrite, UNCHANGED frontVars PROVE WholeInv'
  OBVIOUS
<1> USE DEF DownWrite, Sent, AnswerInv, FTypeOK, WholeInv
<1>2. Counted'
  <2>1. CASE result'["down"] = "err"
    BY <2>1 DEF Counted
  <2>2. CASE out' = Append(out, "data") /\ copier' = [copier EXCEPT !["down"] = "read"] /\ UNCHANGED result
    <3>1. Delivered \in Nat /\ Delivered' = Delivered + 1
      BY <2>2, DeliveredCounts DEF Delivered
    <3> QED BY <2>2, <3>1 DEF Counted, InHand
  <2> QED BY <2>1, <2>2
<1>3. Ended'
  BY DEF Counted, Ended, Copies, Targets
<1>4. Verdict'
  BY DEF Verdict, Returned, Copies, Ended
<1>5. Targets'
  BY DEF Targets, Waiting, Copies, DialFailed, Returned, Negotiating
<1>6. Quiet'
  BY ProxyAssumption DEF Quiet, Disturbed, Calm, Connected, ClientDown, Targets, Verdict, Waiting, Copies, Ended, Returned
<1> QED
  BY <1>2, <1>3, <1>4, <1>5, <1>6

LEMMA ReplyWhole == AnswerInv /\ WholeInv /\ Reply => WholeInv'
<1> SUFFICES ASSUME AnswerInv, WholeInv, Reply PROVE WholeInv'
  OBVIOUS
<1> USE DEF Reply, GroupError, AnswerInv, FTypeOK, WholeInv
<1>1. Delivered' = Delivered /\ Delivered \in Nat
  BY DeliveredCounts DEF Delivered
<1>2. Counted'
  BY <1>1 DEF Counted, InHand
<1>3. Ended'
  BY DEF Counted, Ended, Copies, Targets
<1>4. Verdict'
  BY DEF Verdict, Returned, Copies, Ended
<1>5. Targets'
  BY DEF Targets, Waiting, Copies, DialFailed, Returned, Negotiating
<1>6. Quiet'
  BY ProxyAssumption DEF Quiet, Disturbed, Calm, Connected, ClientDown, Targets, Verdict, Waiting, Copies, Ended, Returned
<1> QED
  BY <1>2, <1>3, <1>4, <1>5, <1>6

LEMMA NoAddrWhole == AnswerInv /\ WholeInv /\ NoAddr => WholeInv'
<1> SUFFICES ASSUME AnswerInv, WholeInv, NoAddr PROVE WholeInv'
  OBVIOUS
<1> USE DEF NoAddr, GroupError, AnswerInv, FTypeOK, WholeInv
<1>1. Delivered' = Delivered /\ Delivered \in Nat
  BY DeliveredCounts DEF Delivered
<1>2. Counted'
  BY <1>1 DEF Counted, InHand
<1>3. Ended'
  BY DEF Counted, Ended, Copies, Targets
<1>4. Verdict'
  BY DEF Verdict, Returned, Copies, Ended
<1>5. Targets'
  BY DEF Targets, Waiting, Copies, DialFailed, Returned, Negotiating
<1>6. Quiet'
  BY ProxyAssumption DEF Quiet, Disturbed, Calm, Connected, ClientDown, Targets, Verdict, Waiting, Copies, Ended, Returned
<1> QED
  BY <1>2, <1>3, <1>4, <1>5, <1>6

LEMMA HandlerEndsWhole == AnswerInv /\ WholeInv /\ HandlerEnds => WholeInv'
<1> SUFFICES ASSUME AnswerInv, WholeInv, HandlerEnds PROVE WholeInv'
  OBVIOUS
<1> USE DEF HandlerEnds, AnswerInv, FTypeOK, WholeInv
<1>1. Delivered' = Delivered /\ Delivered \in Nat
  BY DeliveredCounts DEF Delivered
<1>2. Counted'
  BY <1>1 DEF Counted, InHand
<1>3. Ended'
  BY DEF Counted, Ended, Copies, Targets
<1>4. Verdict'
  BY DEF Verdict, Returned, Copies, Ended
<1>5. Targets'
  BY DEF Targets, Waiting, Copies, DialFailed, Returned, Negotiating
<1>6. Quiet'
  BY ProxyAssumption DEF Quiet, Disturbed, Calm, Connected, ClientDown, Targets, Verdict, Waiting, Copies, Ended, Returned
<1> QED
  BY <1>2, <1>3, <1>4, <1>5, <1>6

LEMMA LeaveWhole ==
    ASSUME NEW a \in {<<>>, <<"err">>}, AnswerInv, WholeInv, Negotiating, Leave(a) PROVE WholeInv'
<1> USE DEF Leave, AnswerInv, FTypeOK, WholeInv
<1>1. Delivered' = Delivered /\ Delivered \in Nat
  <2>1. out = <<>> /\ (<<>> \o a = <<>> \/ <<>> \o a = Append(<<>>, "err"))
    BY OnlyAnswer DEF Waiting
  <2>2. out' = out \/ out' = Append(out, "err")
    BY <2>1
  <2> QED BY <2>2, DeliveredCounts DEF Delivered
<1>2. Counted'
  BY <1>1 DEF Counted, InHand
<1>3. Ended'
  BY DEF Counted, Ended, Copies, Targets
<1>4. Verdict'
  BY DEF Verdict, Returned, Copies, Ended
<1>5. Targets'
  BY DEF Targets, Waiting, Copies, DialFailed, Returned, Negotiating
<1>6. Quiet'
  BY ProxyAssumption DEF Quiet, Disturbed, Calm, Connected, ClientDown, Targets, Verdict, Waiting, Copies, Ended, Returned
<1> QED
  BY <1>2, <1>3, <1>4, <1>5, <1>6

LEMMA ProceedWhole ==
    ASSUME NEW to \in {"methods", "userpass", "request"}, NEW v \in BOOLEAN,
           AnswerInv, WholeInv, Negotiating, Proceed(to, v)
    PROVE  WholeInv'
<1> USE DEF Proceed, AnswerInv, FTypeOK, WholeInv
<1>1. Delivered' = Delivered /\ Delivered \in Nat
  BY DeliveredNat DEF Delivered
<1>2. Counted'
  BY <1>1 DEF Counted, InHand
<1>3. Ended'
  BY DEF Counted, Ended, Copies, Targets
<1>4. Verdict'
  BY DEF Verdict, Returned, Copies, Ended
<1>5. Targets'
  BY DEF Targets, Waiting, Copies, DialFailed, Returned, Negotiating
<1>6. Quiet'
  BY ProxyAssumption DEF Quiet, Disturbed, Calm, Connected, ClientDown, Targets, Verdict, Waiting, Copies, Ended, Returned
<1> QED
  BY <1>2, <1>3, <1>4, <1>5, <1>6

LEMMA ServeWhole ==
    ASSUME NEW k \in Kinds, NEW f \in {"socks", "connect", "request"}, NEW v \in BOOLEAN,
           AnswerInv, WholeInv, Negotiating, Serve(k, f, v)
    PROVE  WholeInv'
<1> USE DEF Serve, AnswerInv, FTypeOK, WholeInv
<1>1. Delivered' = Delivered /\ Delivered \in Nat
  BY DeliveredNat DEF Delivered
<1>2. Counted'
  BY <1>1 DEF Counted, InHand
<1>3. Ended'
  BY DEF Counted, Ended, Copies, Targets
<1>4. Verdict'
  BY DEF Verdict, Returned, Copies, Ended
<1>5. Targets'
  BY DEF Targets, Waiting, Copies, DialFailed, Returned, Negotiating
<1>6. Quiet'
  BY ProxyAssumption DEF Quiet, Disturbed, Calm, Connected, ClientDown, Targets, Verdict, Waiting, Copies, Ended, Returned
<1> QED
  BY <1>2, <1>3, <1>4, <1>5, <1>6

LEMMA WholeStep == AnswerInv /\ WholeInv /\ [FNext]_fvars => WholeInv'
<1> SUFFICES ASSUME AnswerInv, WholeInv, [FNext]_fvars PROVE WholeInv'
  OBVIOUS
<1>1. CASE ReadFails
  BY <1>1, LeaveWhole DEF ReadFails, Negotiating
<1>2. CASE ReadVersion
  BY <1>2, LeaveWhole, ProceedWhole DEF ReadVersion, Negotiating
<1>3. CASE authenticate
  BY <1>3, LeaveWhole, ProceedWhole DEF authenticate, Negotiating
<1>4. CASE UserPass
  BY <1>4, LeaveWhole, ProceedWhole DEF UserPass, Negotiating
<1>5. CASE SocksRequest
  BY <1>5, LeaveWhole, ServeWhole DEF SocksRequest, Negotiating
<1>6. CASE HTTPRequest
  BY <1>6, LeaveWhole, ServeWhole DEF HTTPRequest, Negotiating
<1>7. CASE Group
  BY <1>7, AddrTakenWhole, ReplyWhole, NoAddrWhole, ProxyReturnedWhole, HandlerEndsWhole DEF Group
<1>8. CASE Writing \/ ServerStops
  BY <1>8, WriterFailsWhole, WriterGivesWhole, WriterReadsBodyWhole, WriterEndsWhole,
     ServerStopsWhole DEF Writing
<1>9. CASE Copying /\ UNCHANGED frontVars
  BY <1>9, DialWhole, ProxyWaitedWhole, BlackholeReturnsWhole, UpReadWhole, UpWriteWhole,
     DownReadWhole, DownWriteWhole, CopyDoneWhole, CopyCancelledWhole, CopyDrainedWhole,
     UpReturnsWhole, DownReturnsWhole DEF Copying
<1>10. CASE Environment /\ UNCHANGED frontVars
  BY <1>10, ClientSendsWhole, ClientClosesWhole, ClientStallsWhole, TargetSendsWhole,
     TargetClosesWhole DEF Environment
<1>11. CASE UNCHANGED fvars
  <2> USE <1>11
  <2>1. Counted' /\ Ended' /\ Verdict'
    BY DEF WholeInv, Counted, Ended, Verdict, InHand, Delivered, Returned
  <2>2. Targets'
    BY DEF WholeInv, Targets, DialFailed, Returned, Negotiating
  <2>3. Quiet'
    BY DEF WholeInv, Quiet, Disturbed, Calm, Connected
  <2> QED BY <2>1, <2>2, <2>3 DEF WholeInv
<1> QED
  BY <1>1, <1>2, <1>3, <1>4, <1>5, <1>6, <1>7, <1>8, <1>9, <1>10, <1>11 DEF FNext, Negotiation

LEMMA WholeSays == AnswerInv /\ WholeInv => ResponseWhole
<1> SUFFICES ASSUME AnswerInv, WholeInv PROVE ResponseWhole
  OBVIOUS
<1>1. ASSUME waiter["down"] = "done", result["down"] = "nil" PROVE teof /\ Delivered = tsent
  <2>1. teof /\ tin = 0 /\ InHand = 0
    BY <1>1 DEF WholeInv, Ended, InHand
  <2> QED BY <1>1, <2>1, DeliveredNat DEF WholeInv, Counted
<1>2. SuccessIsWhole
  BY <1>1 DEF SuccessIsWhole, WholeInv, Verdict, Returned
<1>3. ASSUME hs = "done", tst # "none", Undisturbed
      PROVE  teof /\ Delivered = tsent
  <2>1. px = "gone" /\ kind # "blackhole" /\ ~DialFailed
    BY <1>3 DEF WholeInv, Targets
  <2>2. waiter["down"] = "done"
    BY <2>1 DEF AnswerInv, Copies, Returned, DialFailed
  <2>3. ~Disturbed
    <3>1. front = "request" => ~(given <= MaxUp)
      BY <1>3, ProxyAssumption DEF Undisturbed, WholeInv, Targets
    <3> QED BY <1>3, <3>1 DEF Undisturbed, Disturbed
  <2> QED BY <1>1, <2>1, <2>2, <2>3 DEF WholeInv, Quiet
<1> QED
  BY <1>2, <1>3 DEF ResponseWhole

(* Proxy reports success only for a response its client was given as a whole, *)
(* and a session that nobody breaks off gives its client one, whatever the    *)
(* order in which the two copies, the writer of a plain request and the group *)
(* end (direct.go, forward.go, copy.go, http.go).                             *)
THEOREM WholeResponses == FSpec => []ResponseWhole
<1>1. FInit => AnswerInv /\ WholeInv
  BY AnswerInit, WholeInit
<1>2. AnswerInv /\ WholeInv /\ [FNext]_fvars => (AnswerInv /\ WholeInv)'
  BY AnswerStep, WholeStep
<1> QED
  BY <1>1, <1>2, WholeSays, PTL DEF FSpec
=============================================================================
