-------------------------- MODULE PacketConnProofs --------------------------
(***************************************************************************)
(* Proofs about PacketConn, for all sets of readers, writers, closers and  *)
(* setters and for all bounds: the deadlines, the calls that are blocked   *)
(* on them, the lock that keeps Send and CloseSend apart, and the pipe     *)
(* that the stream, readLoop and the channel are together.                 *)
(***************************************************************************)
EXTENDS PacketConn, ChunkProofs

USE DEF streamVars, deadlineVars, dialVars, loopVars, readVars, writeVars, serverVars, pvars

----------------------------------------------------------------------------
(* The deadlines *)

(* What a timer, its callback and the channel know of each other.  A        *)
(* callback is under way only between the end of its timer and the closing  *)
(* of the channel, and channels are closed in the order of their creation.  *)
TimerInv(d) ==
    /\ \A x \in shut[d] : x <= ch[d]
    /\ timer[d] # "spent" => firing[d] = 0
    /\ timer[d] = "armed" => ~isClosedChan(d)
    /\ timer[d] = "spent" => due[d] = "past"
    /\ isClosedChan(d) => due[d] = "past"
    /\ firing[d] > 0 => ~isClosedChan(d) /\ firing[d] = 1

DeadlineInv == DeadlineTypeOK /\ \A d \in Sides : TimerInv(d)

(* What a step may do to the channels: close them, and replace closed ones. *)
ChannelsKept ==
    \A d \in Sides : /\ shut[d] \subseteq shut'[d]
                     /\ ch'[d] = ch[d] \/ ch[d] \in shut[d]

LEMMA DeadlineStart == DeadlineInit => DeadlineInv
<1> SUFFICES ASSUME DeadlineInit PROVE DeadlineInv
  OBVIOUS
<1> USE DEF DeadlineInit
<1>1. NoCall \in [sides : Seq(Sides), t : {"zero", "time"}, blocked : BOOLEAN]
  BY DEF NoCall
<1>2. DeadlineTypeOK
  BY <1>1 DEF DeadlineTypeOK
<1> QED
  BY <1>2 DEF DeadlineInv, TimerInv, isClosedChan

LEMMA SetDeadlineTimers ==
    ASSUME DeadlineInv, NEW s \in Setters, SetDeadline(s) PROVE DeadlineInv' /\ ChannelsKept
<1>1. PICK sides \in {<<"read">>, <<"write">>, <<"read", "write">>}, t \in {"zero", "time"} :
          set' = [set EXCEPT ![s] = [sides |-> sides, t |-> t, blocked |-> FALSE]]
  BY DEF SetDeadline
<1>2. sides \in Seq(Sides)
  <2>1. "read" \in Sides /\ "write" \in Sides
    BY DEF Sides
  <2>2. <<"read">> \in Seq(Sides) /\ <<"write">> \in Seq(Sides)
    BY <2>1
  <2>3. <<"read", "write">> \in Seq(Sides)
    BY <2>1
  <2> QED BY <1>1, <2>2, <2>3
<1>3. set' \in [Setters -> [sides : Seq(Sides), t : {"zero", "time"}, blocked : BOOLEAN]]
  BY <1>1, <1>2 DEF DeadlineInv, DeadlineTypeOK
<1>4. DeadlineTypeOK'
  BY <1>3 DEF SetDeadline, DeadlineInv, DeadlineTypeOK
<1> QED
  BY <1>4 DEF SetDeadline, DeadlineInv, TimerInv, isClosedChan, ChannelsKept

LEMMA SetBlocksTimers ==
    ASSUME DeadlineInv, NEW s \in Setters, SetBlocks(s) PROVE DeadlineInv' /\ ChannelsKept
<1>1. set' \in [Setters -> [sides : Seq(Sides), t : {"zero", "time"}, blocked : BOOLEAN]]
  BY DEF SetBlocks, DeadlineInv, DeadlineTypeOK
<1>2. DeadlineTypeOK'
  BY <1>1 DEF SetBlocks, DeadlineInv, DeadlineTypeOK
<1> QED
  BY <1>2 DEF SetBlocks, DeadlineInv, TimerInv, isClosedChan, ChannelsKept

LEMMA SetTimers ==
    ASSUME DeadlineInv, NEW s \in Setters, Set(s) PROVE DeadlineInv' /\ ChannelsKept
<1>0. Head(set[s].sides) \in Sides /\ Tail(set[s].sides) \in Seq(Sides)
  BY DEF Set, DeadlineInv, DeadlineTypeOK
<1>1. PICK d \in Sides : d = Head(set[s].sides)
  BY <1>0
<1>2. set' \in [Setters -> [sides : Seq(Sides), t : {"zero", "time"}, blocked : BOOLEAN]]
  <2>1. set[s] \in [sides : Seq(Sides), t : {"zero", "time"}, blocked : BOOLEAN]
    BY DEF DeadlineInv, DeadlineTypeOK
  <2>2. [set[s] EXCEPT !.sides = Tail(set[s].sides), !.blocked = FALSE]
            \in [sides : Seq(Sides), t : {"zero", "time"}, blocked : BOOLEAN]
    BY <1>0, <2>1
  <2>3. set' = [set EXCEPT ![s] = [set[s] EXCEPT !.sides = Tail(set[s].sides), !.blocked = FALSE]]
    BY DEF Set, DeadlineInv, DeadlineTypeOK
  <2> QED BY <2>2, <2>3 DEF DeadlineInv, DeadlineTypeOK
<1>3. ~MustWait(d)
  BY <1>1 DEF Set
<1>4. firing[d] = 0
  BY <1>1, <1>3 DEF MustWait, DeadlineInv, DeadlineTypeOK, TimerInv, isClosedChan
<1>5. firing' = firing
  BY DEF Set
<1>6. CASE /\ Renewed(d) /\ UNCHANGED shut
           /\ \/ timer' = [timer EXCEPT ![d] = "nil"] /\ due' = [due EXCEPT ![d] = "never"]
              \/ timer' = [timer EXCEPT ![d] = "armed"] /\ due' = [due EXCEPT ![d] = "later"]
  <2>1. ch' \in [Sides -> Nat] /\ \A e \in Sides : e # d => ch'[e] = ch[e]
    BY <1>1, <1>6 DEF Renewed, DeadlineInv, DeadlineTypeOK
  <2>2. ch'[d] >= ch[d] /\ ch'[d] \notin shut'[d] /\ (ch'[d] = ch[d] \/ ch[d] \in shut[d])
    BY <1>1, <1>6 DEF Renewed, isClosedChan, DeadlineInv, DeadlineTypeOK, TimerInv
  <2>3. DeadlineTypeOK'
    BY <1>2, <1>5, <1>6, <2>1 DEF Set, DeadlineInv, DeadlineTypeOK
  <2>4. TimerInv(d)'
    BY <1>1, <1>4, <1>5, <1>6, <2>1, <2>2 DEF TimerInv, isClosedChan, DeadlineInv, DeadlineTypeOK
  <2>5. ASSUME NEW e \in Sides, e # d PROVE TimerInv(e)'
    BY <1>1, <1>5, <1>6, <2>1, <2>5 DEF TimerInv, isClosedChan, DeadlineInv, DeadlineTypeOK
  <2>6. ChannelsKept
    BY <1>6, <2>1, <2>2 DEF ChannelsKept
  <2> QED BY <2>3, <2>4, <2>5, <2>6 DEF DeadlineInv
<1>7. CASE /\ shut' = [shut EXCEPT ![d] = @ \cup {ch[d]}]
           /\ timer' = [timer EXCEPT ![d] = "nil"] /\ due' = [due EXCEPT ![d] = "past"]
           /\ UNCHANGED ch
  <2>1. DeadlineTypeOK'
    BY <1>1, <1>2, <1>5, <1>7 DEF Set, DeadlineInv, DeadlineTypeOK
  <2>2. TimerInv(d)'
    BY <1>1, <1>4, <1>5, <1>7 DEF TimerInv, isClosedChan, DeadlineInv, DeadlineTypeOK
  <2>3. ASSUME NEW e \in Sides, e # d PROVE TimerInv(e)'
    BY <1>1, <1>5, <1>7, <2>3 DEF TimerInv, isClosedChan, DeadlineInv, DeadlineTypeOK
  <2>4. ChannelsKept
    BY <1>1, <1>7 DEF ChannelsKept, DeadlineInv, DeadlineTypeOK
  <2> QED BY <2>1, <2>2, <2>3, <2>4 DEF DeadlineInv
<1> QED
  BY <1>1, <1>6, <1>7 DEF Set

LEMMA FiringTimers ==
    ASSUME DeadlineInv, NEW d \in Sides, TimerFires(d) \/ Callback(d)
    PROVE  DeadlineInv' /\ ChannelsKept
<1>1. CASE TimerFires(d)
  <2>1. DeadlineTypeOK'
    BY <1>1 DEF TimerFires, DeadlineInv, DeadlineTypeOK
  <2>2. \A e \in Sides : TimerInv(e)'
    BY <1>1 DEF TimerFires, TimerInv, isClosedChan, DeadlineInv, DeadlineTypeOK
  <2> QED BY <1>1, <2>1, <2>2 DEF TimerFires, DeadlineInv, ChannelsKept
<1>2. CASE Callback(d)
  <2>1. DeadlineTypeOK'
    BY <1>2 DEF Callback, DeadlineInv, DeadlineTypeOK
  <2>2. TimerInv(d)'
    BY <1>2 DEF Callback, TimerInv, isClosedChan, DeadlineInv, DeadlineTypeOK
  <2>3. ASSUME NEW e \in Sides, e # d PROVE TimerInv(e)'
    BY <1>2, <2>3 DEF Callback, TimerInv, isClosedChan, DeadlineInv, DeadlineTypeOK
  <2>4. ChannelsKept
    BY <1>2 DEF Callback, DeadlineInv, DeadlineTypeOK, ChannelsKept
  <2> QED BY <2>1, <2>2, <2>3, <2>4 DEF DeadlineInv
<1> QED
  BY <1>1, <1>2

LEMMA DeadlineNextKeeps ==
    DeadlineInv /\ (DeadlineNext \/ UNCHANGED deadlineVars) => DeadlineInv' /\ ChannelsKept
<1>1. ASSUME DeadlineInv, DeadlineNext PROVE DeadlineInv' /\ ChannelsKept
  BY <1>1, SetDeadlineTimers, SetBlocksTimers, SetTimers, FiringTimers DEF DeadlineNext
<1>2. ASSUME DeadlineInv, UNCHANGED deadlineVars PROVE DeadlineInv' /\ ChannelsKept
  <2>1. DeadlineTypeOK'
    BY <1>2 DEF DeadlineInv, DeadlineTypeOK
  <2> QED BY <1>2, <2>1 DEF DeadlineInv, TimerInv, isClosedChan, ChannelsKept
<1> QED
  BY <1>1, <1>2

----------------------------------------------------------------------------
(* The calls *)

CallTypeOK ==
    /\ rd \in [Readers -> {"idle", "wait", "select"}]
    /\ wr \in [Writers -> {"idle", "check", "select", "drain"}]
    /\ snd \in {"none", "sending", "ok", "err"}
    /\ cl \in [Closers -> {"idle", "lock", "closesend", "closed"}]

(* readMu has one holder, and so has writeMu, which Close takes as well.    *)
Locks ==
    /\ CallTypeOK
    /\ \A q, r \in Readers : rd[q] # "idle" /\ rd[r] # "idle" => q = r
    /\ \A v, w \in Writers : wr[v] # "idle" /\ wr[w] # "idle" => v = w
    /\ \A b, c \in Closers : cl[b] = "closesend" /\ cl[c] = "closesend" => b = c
    /\ \A w \in Writers, c \in Closers : wr[w] # "idle" => cl[c] # "closesend"
    /\ snd # "none" => \E w \in Writers : wr[w] \in {"select", "drain"}

CallInv == DeadlineInv /\ Locks /\ BlockedSeesDeadline

LEMMA CallInit == PInit => CallInv
<1> SUFFICES ASSUME PInit PROVE CallInv
  OBVIOUS
<1>1. DeadlineInv
  BY DeadlineStart DEF PInit
<1>2. Locks
  BY DEF PInit, Locks, CallTypeOK
<1>3. BlockedSeesDeadline
  BY DEF PInit, BlockedSeesDeadline
<1> QED
  BY <1>1, <1>2, <1>3 DEF CallInv

(* A step of somebody else. *)
Elsewhere ==
    /\ DeadlineNext \/ UNCHANGED deadlineVars
    /\ UNCHANGED <<rd, rch, wr, wch, snd, cl>>

LEMMA ElsewhereKeeps == CallInv /\ Elsewhere => CallInv'
<1> SUFFICES ASSUME CallInv, Elsewhere PROVE CallInv'
  OBVIOUS
<1>1. DeadlineInv' /\ ChannelsKept
  BY DeadlineNextKeeps DEF CallInv, Elsewhere
<1>2. Locks'
  BY DEF CallInv, Locks, CallTypeOK, Elsewhere
<1>3. \A r \in Readers : rd'[r] = "select" => rch' = ch'["read"] \/ rch' \in shut'["read"]
  <2>1. "read" \in Sides
    BY DEF Sides
  <2> QED BY <1>1, <2>1 DEF CallInv, BlockedSeesDeadline, ChannelsKept, Elsewhere
<1>4. \A w \in Writers : wr'[w] = "select" => wch' = ch'["write"] \/ wch' \in shut'["write"]
  <2>1. "write" \in Sides
    BY DEF Sides
  <2> QED BY <1>1, <2>1 DEF CallInv, BlockedSeesDeadline, ChannelsKept, Elsewhere
<1> QED
  BY <1>1, <1>2, <1>3, <1>4 DEF CallInv, BlockedSeesDeadline

LEMMA ReadKeeps ==
    ASSUME CallInv, NEW r \in Readers, ReadLocks(r) \/ Reading(r) PROVE CallInv'
<1> USE DEF ReadLocks, Reading, ReadWaits, ReadGivesUp, ReadTakes, readMuFree
<1>1. DeadlineInv'
  BY DeadlineNextKeeps DEF CallInv
<1>2. PICK x \in {"idle", "wait", "select"} : rd' = [rd EXCEPT ![r] = x]
  OBVIOUS
<1>3. \A q \in Readers : q # r => rd[q] = "idle"
  BY DEF CallInv, Locks
<1>4. x = "select" => rch' = ch["read"]
  BY <1>2 DEF CallInv, Locks, CallTypeOK
<1>5. Locks'
  BY <1>2, <1>3 DEF CallInv, Locks, CallTypeOK
<1>6. BlockedSeesDeadline'
  BY <1>2, <1>3, <1>4 DEF CallInv, Locks, CallTypeOK, BlockedSeesDeadline
<1> QED
  BY <1>1, <1>5, <1>6 DEF CallInv

LEMMA WriteKeeps ==
    ASSUME CallInv, NEW w \in Writers, WriteLocks(w) \/ Writing(w) PROVE CallInv'
<1> USE DEF WriteLocks, Writing, WriteChecks, WriteReturns, WriteCancelled, WriteTimesOut
<1>1. DeadlineInv'
  BY DeadlineNextKeeps DEF CallInv
<1>2. PICK x \in {"idle", "check", "select", "drain"} : wr' = [wr EXCEPT ![w] = x]
  OBVIOUS
<1>3. /\ \A v \in Writers : v # w => wr[v] = "idle"
      /\ \A c \in Closers : cl[c] # "closesend"
  BY DEF CallInv, Locks, writeMuFree
<1>4. x = "select" => wch' = ch["write"]
  BY <1>2 DEF CallInv, Locks, CallTypeOK
<1>5. snd' # "none" => x \in {"select", "drain"}
  BY <1>2, <1>3 DEF CallInv, Locks, CallTypeOK
<1>6. CallTypeOK'
  BY <1>2 DEF CallInv, Locks, CallTypeOK
<1>7. Locks'
  BY <1>2, <1>3, <1>5, <1>6 DEF CallInv, Locks, CallTypeOK
<1>8. BlockedSeesDeadline'
  BY <1>2, <1>3, <1>4 DEF CallInv, Locks, CallTypeOK, BlockedSeesDeadline
<1> QED
  BY <1>1, <1>7, <1>8 DEF CallInv

LEMMA SendKeeps == CallInv /\ WriteSends => CallInv'
<1> SUFFICES ASSUME CallInv, WriteSends PROVE CallInv'
  OBVIOUS
<1>1. DeadlineInv'
  BY DeadlineNextKeeps DEF CallInv, WriteSends
<1>2. Locks'
  BY DEF CallInv, Locks, CallTypeOK, WriteSends
<1>3. BlockedSeesDeadline'
  BY DEF CallInv, BlockedSeesDeadline, WriteSends
<1> QED
  BY <1>1, <1>2, <1>3 DEF CallInv

LEMMA CloseKeeps ==
    ASSUME CallInv, NEW c \in Closers, CloseCancels(c) \/ CloseSends(c) PROVE CallInv'
<1> USE DEF CloseCancels, CloseSends, writeMuFree
<1>1. DeadlineInv'
  BY DeadlineNextKeeps DEF CallInv
<1>2. PICK x \in {"lock", "closesend", "closed"} : cl' = [cl EXCEPT ![c] = x]
  OBVIOUS
<1>3. x = "closesend" => writeMuFree
  BY <1>2 DEF CallInv, Locks, CallTypeOK
<1>4. Locks'
  BY <1>2, <1>3 DEF CallInv, Locks, CallTypeOK
<1>5. BlockedSeesDeadline'
  BY DEF CallInv, BlockedSeesDeadline
<1> QED
  BY <1>1, <1>4, <1>5 DEF CallInv

LEMMA CallStep == CallInv /\ [PNext]_pvars => CallInv'
<1> SUFFICES ASSUME CallInv, [PNext]_pvars PROVE CallInv'
  OBVIOUS
<1>1. CASE Dialling \/ StreamCancelled \/ Looping
  <2>1. Elsewhere
    BY <1>1 DEF Elsewhere, Dialling, DialRefused, DialOpens, HeaderSent, HandshakeDone,
         HandshakeFails, StreamCancelled, Looping, LoopRecv, LoopOffers, LoopCancelled
  <2> QED BY <2>1, ElsewhereKeeps
<1>2. CASE ServerTakes \/ ServerGives \/ ServerReturns \/ TransportBreaks
  <2>1. Elsewhere
    BY <1>2 DEF Elsewhere, ServerTakes, ServerGives, ServerReturns, TransportBreaks
  <2> QED BY <2>1, ElsewhereKeeps
<1>3. CASE DeadlineStep \/ UNCHANGED pvars
  <2>1. Elsewhere
    BY <1>3 DEF Elsewhere, DeadlineStep
  <2> QED BY <2>1, ElsewhereKeeps
<1> QED
  BY <1>1, <1>2, <1>3, ReadKeeps, WriteKeeps, SendKeeps, CloseKeeps DEF PNext

(* Send and CloseSend never overlap on the stream, for any number of         *)
(* writers and closers (packet_conn.go, WriteTo and Close).                             *)
THEOREM SendsAreExclusive == PSpec => []SendExclusive
<1>1. CallInv => SendExclusive
  BY DEF CallInv, Locks, CallTypeOK, SendExclusive
<1> QED
  BY <1>1, CallInit, CallStep, PTL DEF PSpec

(* A change of a deadline reaches every call that is blocked on it, for any  *)
(* number of setters at once (packet_conn.go, set).                            *)
THEOREM DeadlinesReachCalls == PSpec => []BlockedSeesDeadline
<1>1. CallInv => BlockedSeesDeadline
  BY DEF CallInv
<1> QED
  BY <1>1, CallInit, CallStep, PTL DEF PSpec

(* A deadline counts as passed only if the one last set has passed, and the  *)
(* callback of a timer never closes a channel twice (packet_conn.go, set). *)
THEOREM ExpiryCannotLie == PSpec => []ExpiryIsReal
<1>1. CallInv => ExpiryIsReal
  BY DEF CallInv, DeadlineInv, TimerInv, ExpiryIsReal
<1> QED
  BY <1>1, CallInit, CallStep, PTL DEF PSpec

----------------------------------------------------------------------------
(* Types *)

Received == Message \cup {RecvErr}

(* The rest of PTypeOK. *)
RestTypeOK ==
    /\ StreamTypeOK
    /\ dial \in {"new", "handshake", "conn", "failed"} /\ hs \in {"none", "sending", "ok", "err"}
    /\ loop \in {"none", "recv", "offer", "ended"}
    /\ held \in Received /\ recvCh \in Seq(Received)
    /\ rch \in Nat /\ wch \in Nat
    /\ srv \in {"header", "accept", "session", "end"}
    /\ nwrites \in Nat /\ nsent \in Nat /\ got \in Seq(Nat)

LEMMA Messages ==
    /\ \A n \in Nat : Payload(n) \in Message
    /\ \A k \in {"header", "accepted", "eof"} : Signal(k) \in Message
    /\ \A m \in Received : m.n \in Nat
BY DEF Payload, Signal, Message, Received, RecvErr

LEMMA StreamMoves ==
    ASSUME StreamTypeOK, NEW m \in Message,
           \/ ClientSend(m) \/ ServerSend(m) \/ ClientRecv \/ ServerRecv \/ Cancel \/ Break
    PROVE  StreamTypeOK'
<1> USE DEF StreamTypeOK
<1>1. CASE ClientSend(m)
  BY <1>1 DEF ClientSend
<1>2. CASE ServerSend(m)
  BY <1>2 DEF ServerSend
<1>4. CASE ClientRecv
  BY <1>4 DEF ClientRecv
<1>5. CASE ServerRecv
  BY <1>5 DEF ServerRecv
<1>3. CASE Cancel \/ Break
  <2>1. ASSUME NEW q \in Seq(Message), NEW b \in Beginnings(q) PROVE b \in Seq(Message)
    BY <2>1 DEF Beginnings
  <2> QED BY <1>3, <2>1 DEF Cancel, Break
<1> QED
  BY <1>1, <1>2, <1>3, <1>4, <1>5

LEMMA PacketTypeStep == CallInv /\ RestTypeOK /\ [PNext]_pvars => RestTypeOK'
<1> SUFFICES ASSUME CallInv, RestTypeOK, [PNext]_pvars PROVE RestTypeOK'
  OBVIOUS
<1>0. DeadlineTypeOK /\ ch["read"] \in Nat /\ ch["write"] \in Nat /\ StreamTypeOK
      /\ Payload(nwrites) \in Message /\ Signal("header") \in Message
  BY Messages DEF CallInv, DeadlineInv, DeadlineTypeOK, Sides, RestTypeOK
<1>1. CASE Dialling
  <2>1. StreamTypeOK'
    BY <1>0, <1>1, StreamMoves DEF Dialling, DialRefused, DialOpens, HeaderSent, HandshakeDone,
       HandshakeFails, StreamTypeOK
  <2> QED
    BY <1>1, <2>1 DEF RestTypeOK, Dialling, DialRefused, DialOpens, HeaderSent, HandshakeDone,
       HandshakeFails
<1>2. CASE StreamCancelled \/ TransportBreaks
  BY <1>0, <1>2, StreamMoves DEF StreamCancelled, TransportBreaks, RestTypeOK
<1>3. CASE Looping
  <2>1. StreamTypeOK'
    BY <1>0, <1>3, StreamMoves DEF Looping, LoopRecv, LoopOffers, LoopCancelled, StreamTypeOK
  <2>2. held' \in Received
    BY <1>3 DEF Looping, LoopRecv, LoopOffers, LoopCancelled, RestTypeOK, StreamTypeOK, ClientRecv, Received
  <2>3. recvCh' \in Seq(Received)
    <3>1. <<held>> \in Seq(Received)
      BY DEF RestTypeOK
    <3> QED BY <1>3, <3>1 DEF Looping, LoopRecv, LoopOffers, LoopCancelled, RestTypeOK
  <2> QED
    BY <1>3, <2>1, <2>2, <2>3 DEF Looping, LoopRecv, LoopOffers, LoopCancelled, RestTypeOK
<1>4. CASE WriteSends
  <2>1. StreamTypeOK'
    BY <1>0, <1>4, StreamMoves DEF WriteSends, StreamTypeOK
  <2> QED BY <1>4, <2>1 DEF WriteSends, RestTypeOK
<1>5. ASSUME NEW r \in Readers, ReadLocks(r) \/ Reading(r) PROVE RestTypeOK'
  <2>1. got' \in Seq(Nat)
    <3>1. CASE recvCh # <<>>
      <4>1. Head(recvCh) \in Received
        BY <3>1 DEF RestTypeOK
      <4>2. Append(got, Head(recvCh).n) \in Seq(Nat)
        BY <4>1, Messages DEF RestTypeOK
      <4> QED BY <1>5, <4>2 DEF Reading, ReadLocks, ReadWaits, ReadGivesUp, ReadTakes, RestTypeOK
    <3>2. CASE recvCh = <<>>
      BY <1>5, <3>2 DEF Reading, ReadLocks, ReadWaits, ReadGivesUp, ReadTakes, RestTypeOK
    <3> QED BY <3>1, <3>2
  <2>2. recvCh' \in Seq(Received)
    <3>1. <<>> \in Seq(Received)
      OBVIOUS
    <3> QED BY <1>5, <3>1 DEF Reading, ReadLocks, ReadWaits, ReadGivesUp, ReadTakes, RestTypeOK
  <2> QED
    BY <1>0, <1>5, <2>1, <2>2 DEF Reading, ReadLocks, ReadWaits, ReadGivesUp, ReadTakes, RestTypeOK,
       StreamTypeOK
<1>6. ASSUME NEW w \in Writers, WriteLocks(w) \/ Writing(w) PROVE RestTypeOK'
  BY <1>0, <1>6 DEF WriteLocks, Writing, WriteChecks, WriteReturns, WriteCancelled, WriteTimesOut,
     RestTypeOK, StreamTypeOK
<1>7. ASSUME NEW c \in Closers, CloseCancels(c) \/ CloseSends(c) PROVE RestTypeOK'
  BY <1>7 DEF CloseCancels, CloseSends, RestTypeOK, StreamTypeOK
<1>8. CASE ServerTakes \/ ServerReturns
  <2>1. StreamTypeOK'
    BY <1>0, <1>8, StreamMoves DEF ServerTakes, ServerReturns, StreamTypeOK
  <2> QED BY <1>8, <2>1 DEF ServerTakes, ServerReturns, RestTypeOK
<1>9. CASE ServerGives
  <2>1. Payload(nsent + 1) \in Message /\ Signal("accepted") \in Message /\ Signal("eof") \in Message
    BY Messages DEF RestTypeOK
  <2>2. StreamTypeOK'
    BY <1>0, <1>9, <2>1, StreamMoves DEF ServerGives
  <2> QED BY <1>9, <2>2 DEF ServerGives, RestTypeOK
<1>10. CASE DeadlineStep \/ UNCHANGED pvars
  BY <1>10 DEF DeadlineStep, RestTypeOK, StreamTypeOK
<1> QED
  BY <1>1, <1>2, <1>3, <1>4, <1>5, <1>6, <1>7, <1>8, <1>9, <1>10 DEF PNext

LEMMA CancelledType == cancelled \in BOOLEAN /\ [PNext]_pvars => cancelled' \in BOOLEAN
<1> SUFFICES ASSUME cancelled \in BOOLEAN, [PNext]_pvars PROVE cancelled' \in BOOLEAN
  OBVIOUS
<1>1. cancelled' = cancelled \/ cancelled' = TRUE
  BY DEF PNext, Dialling, DialRefused, DialOpens, HeaderSent, HandshakeDone, HandshakeFails,
     StreamCancelled, Looping, LoopRecv, LoopOffers, LoopCancelled, WriteSends, ReadLocks, Reading,
     ReadWaits, ReadGivesUp, ReadTakes, WriteLocks, Writing, WriteChecks, WriteReturns,
     WriteCancelled, WriteTimesOut, CloseCancels, CloseSends, ServerTakes, ServerGives,
     ServerReturns, TransportBreaks, DeadlineStep
<1> QED
  BY <1>1

(* Every variable of the packet connection keeps its type, the sequence     *)
(* numbers of what readers are given among them.                              *)
THEOREM PacketTypeCorrect == PSpec => []PTypeOK
<1> DEFINE Types == CallInv /\ RestTypeOK /\ cancelled \in BOOLEAN
<1>1. PInit => Types
  <2> SUFFICES ASSUME PInit PROVE Types
    OBVIOUS
  <2>1. RestTypeOK
    BY DEF PInit, StreamInit, RestTypeOK, StreamTypeOK, Received
  <2> QED BY <2>1, CallInit DEF PInit
<1>2. Types /\ [PNext]_pvars => Types'
  BY CallStep, PacketTypeStep, CancelledType
<1>3. Types => PTypeOK
  BY DEF CallInv, DeadlineInv, Locks, CallTypeOK, RestTypeOK, Received, PTypeOK
<1> QED
  BY <1>1, <1>2, <1>3, PTL DEF PSpec

----------------------------------------------------------------------------
(* The pipe.  The channel, readLoop's hand and the stream are one sequence,  *)
(* Coming: readers take from its front, the server appends to it, a          *)
(* shutdown cuts its end off, and nothing else changes it.                    *)

(* The numbers k + 1 to k + c. *)
Numbers(k, c) == [i \in 1..c |-> k + i]

LEMMA NumbersAre ==
    ASSUME NEW k \in Nat, NEW c \in Nat
    PROVE  /\ Numbers(k, c) \in Seq(Nat) /\ Len(Numbers(k, c)) = c
           /\ Append(Numbers(k, c), k + c + 1) = Numbers(k, c + 1)
           /\ c # 0 => /\ Numbers(k, c) # <<>> /\ Head(Numbers(k, c)) = k + 1
                       /\ Tail(Numbers(k, c)) = Numbers(k + 1, c - 1)
           /\ \A d \in 0..c : SubSeq(Numbers(k, c), 1, d) = Numbers(k, d)
<1>1. Numbers(k, c) \in Seq(Nat) /\ Len(Numbers(k, c)) = c
  BY DEF Numbers
<1>2. Append(Numbers(k, c), k + c + 1) = Numbers(k, c + 1)
  BY DEF Numbers
<1>3. ASSUME c # 0
      PROVE  /\ Numbers(k, c) # <<>> /\ Head(Numbers(k, c)) = k + 1
             /\ Tail(Numbers(k, c)) = Numbers(k + 1, c - 1)
  <2>1. Numbers(k, c) # <<>> /\ Head(Numbers(k, c)) = k + 1
    BY <1>1, <1>3 DEF Numbers
  <2>2. Tail(Numbers(k, c)) \in Seq(Nat) /\ Len(Tail(Numbers(k, c))) = c - 1
    BY <1>1, <2>1
  <2>3. Numbers(k + 1, c - 1) \in Seq(Nat) /\ Len(Numbers(k + 1, c - 1)) = c - 1
    BY <1>3 DEF Numbers
  <2>4. \A i \in 1..(c - 1) : Tail(Numbers(k, c))[i] = Numbers(k, c)[i + 1]
    BY <1>1, <2>1
  <2>5. \A i \in 1..(c - 1) : Numbers(k, c)[i + 1] = Numbers(k + 1, c - 1)[i]
    BY <1>3 DEF Numbers
  <2>6. Tail(Numbers(k, c)) = Numbers(k + 1, c - 1)
    BY <2>2, <2>3, <2>4, <2>5, SeqEqual
  <2> QED BY <2>1, <2>6
<1>4. ASSUME NEW d \in 0..c PROVE SubSeq(Numbers(k, c), 1, d) = Numbers(k, d)
  BY DEF Numbers
<1> QED BY <1>1, <1>2, <1>3, <1>4

(* Messages whose chunks are numbered without a gap carry those numbers. *)
LEMMA NumberedDatagrams ==
    ASSUME NEW T, NEW s \in Seq(T), NEW k \in Nat, Numbered(s, k)
    PROVE  Datagrams(s) = Numbers(k, Chunks(s, Len(s)))
<1>1. Len(s) \in Nat
  OBVIOUS
<1>2. ASSUME NEW i \in 1..Chunks(s, Len(s))
      PROVE  s[CHOOSE j \in 1..Len(s) : s[j].kind = "payload" /\ Chunks(s, j) = i].n = k + i
  <2> DEFINE p == CHOOSE j \in 1..Len(s) : s[j].kind = "payload" /\ Chunks(s, j) = i
  <2>1. \E j \in 1..Len(s) : s[j].kind = "payload" /\ Chunks(s, j) = i
    BY <1>1, ChunkOfRank
  <2>2. p \in 1..Len(s) /\ s[p].kind = "payload" /\ Chunks(s, p) = i
    BY <2>1
  <2> HIDE DEF p
  <2>3. s[p].n = k + i
    BY <2>2 DEF Numbered
  <2> QED BY <2>3 DEF p
<1> QED BY <1>2 DEF Datagrams, Numbers

----------------------------------------------------------------------------
(* The server can still add to what is coming. *)
Live == stream \in {"none", "open"} /\ loop # "ended"

Chain ==
    /\ Numbered(Coming, Len(got))
    /\ Live => nsent = Len(got) + Chunks(Coming, Len(Coming))

(* Readers find one message at a time; an error is the last thing readLoop  *)
(* offers; and nothing comes before the dial.                                *)
PipeInv ==
    /\ Chain
    /\ recvCh = <<>> \/ \E m \in Received : recvCh = <<m>>
    /\ loop = "offer" /\ held = RecvErr => s2c = <<>> /\ stream \notin {"none", "open"}
    /\ dial = "new" => stream = "none"
    /\ dial # "conn" => loop = "none"

LEMMA ComingType ==
    ASSUME RestTypeOK
    PROVE  /\ Coming \in Seq(Received) /\ got \in Seq(Nat) /\ Len(got) \in Nat /\ nsent \in Nat
           /\ Chunks(Coming, Len(Coming)) \in Nat
           /\ s2c \in Seq(Received) /\ recvCh \in Seq(Received) /\ <<held>> \in Seq(Received)
           /\ held \in Received
<1>1. /\ s2c \in Seq(Received) /\ recvCh \in Seq(Received) /\ <<held>> \in Seq(Received)
      /\ got \in Seq(Nat) /\ nsent \in Nat /\ held \in Received
  <2>1. Seq(Message) \subseteq Seq(Received)
    BY DEF Received
  <2> QED BY <2>1 DEF RestTypeOK, StreamTypeOK
<1>2. Coming \in Seq(Received)
  <2> DEFINE H == IF loop = "offer" THEN <<held>> ELSE <<>>
             S == IF loop = "ended" THEN <<>> ELSE s2c
  <2>1. H \in Seq(Received) /\ S \in Seq(Received)
    BY <1>1
  <2> HIDE DEF H, S
  <2>2. recvCh \o H \o S \in Seq(Received)
    BY <1>1, <2>1, ConcatProperties
  <2> QED BY <2>2 DEF Coming, H, S
<1>3. Len(Coming) \in Nat /\ Len(got) \in Nat
  BY <1>1, <1>2
<1> QED BY <1>1, <1>2, <1>3, ChunksType

LEMMA ChainNext ==
    /\ Chain' <=> /\ Numbered(Coming', Len(got'))
                  /\ Live' => nsent' = Len(got') + Chunks(Coming', Len(Coming'))
    /\ OnTheWay' = Datagrams(Coming')
BY DEF Chain, OnTheWay, Numbered, Datagrams, Chunks

(* In a chain the datagrams under way are the next ones. *)
LEMMA OnTheWayIs ==
    ASSUME RestTypeOK, Chain
    PROVE  OnTheWay = Numbers(Len(got), Chunks(Coming, Len(Coming)))
BY ComingType, NumberedDatagrams DEF Chain, OnTheWay

(* How a step may change whether the connection is open. *)
Closing == cancelled' \/ stream' = "broken"
Steady == cancelled' = cancelled /\ (stream' = "broken" <=> stream = "broken")

USE DEF Pipe!pipeVars

LEMMA PipeStill ==
    ASSUME RestTypeOK, Chain, Coming' = Coming, UNCHANGED <<got, nsent>>, Closing \/ Steady, Live' => Live
    PROVE  Chain' /\ [Pipe!PipeNext]_(Pipe!pipeVars)
<1>1. Chain'
  BY ChainNext DEF Chain
<1>2. OnTheWay' = OnTheWay
  BY ChainNext DEF OnTheWay
<1>3. CASE Steady
  BY <1>1, <1>2, <1>3 DEF Steady
<1>4. CASE Closing
  <2>1. OnTheWay \in Seq(Nat) /\ Len(OnTheWay) \in Nat
    <3>1. Len(got) \in Nat /\ Chunks(Coming, Len(Coming)) \in Nat
      BY ComingType
    <3>2. Numbers(Len(got), Chunks(Coming, Len(Coming))) \in Seq(Nat)
      BY <3>1, NumbersAre
    <3> QED BY <3>2, OnTheWayIs
  <2>2. OnTheWay = SubSeq(OnTheWay, 1, Len(OnTheWay)) /\ Len(OnTheWay) \in 0..Len(OnTheWay)
    BY <2>1
  <2>3. Pipe!Shut
    BY <1>2, <1>4, <2>2 DEF Pipe!Shut, Closing
  <2> QED BY <1>1, <2>3 DEF Pipe!PipeNext
<1> QED BY <1>3, <1>4

LEMMA PipeLoses ==
    ASSUME RestTypeOK, Chain, Coming' \in Beginnings(Coming), got' = got, Closing, ~Live'
    PROVE  Chain' /\ [Pipe!PipeNext]_(Pipe!pipeVars)
<1>1. Chain'
  BY ComingType, NumberedBeginning, ChainNext DEF Chain
<1> DEFINE c == Chunks(Coming, Len(Coming))
           d == Chunks(Coming', Len(Coming'))
<1>2. c \in Nat /\ d \in 0..c
  BY ComingType, ChunksBeginning
<1> HIDE DEF c, d
<1>3. OnTheWay = Numbers(Len(got), c)
  BY OnTheWayIs DEF c
<1>4. OnTheWay' = Numbers(Len(got), d)
  <2>1. Numbered(Coming', Len(got))
    BY <1>1, ChainNext
  <2>2. Coming' \in Seq(Received)
    <3>1. PICK l \in 0..Len(Coming) : Coming' = SubSeq(Coming, 1, l)
      BY DEF Beginnings
    <3> QED BY <3>1, ComingType
  <2> QED BY <2>1, <2>2, ComingType, NumberedDatagrams, ChainNext DEF d
<1>5. OnTheWay' = SubSeq(OnTheWay, 1, d) /\ d \in 0..Len(OnTheWay)
  BY <1>2, <1>3, <1>4, ComingType, NumbersAre
<1>6. Pipe!Shut
  BY <1>5 DEF Pipe!Shut, Closing
<1> QED BY <1>1, <1>6 DEF Pipe!PipeNext

LEMMA PipeArrives ==
    ASSUME RestTypeOK, Chain, NEW m \in Received, Coming' = Append(Coming, m), got' = got, Steady,
           m.kind = "payload" => Live /\ m.n = nsent + 1,
           nsent' = nsent + IsChunk(m), Live' => Live
    PROVE  Chain' /\ [Pipe!PipeNext]_(Pipe!pipeVars)
<1> DEFINE c == Chunks(Coming, Len(Coming))
           k == Len(got)
<1>1. c \in Nat /\ k \in Nat /\ nsent \in Nat
  BY ComingType
<1>2. Numbered(Coming, k) /\ (Live => nsent = k + c)
  BY DEF Chain
<1>3. Len(Coming') = Len(Coming) + 1 /\ Chunks(Coming', Len(Coming) + 1) = c + IsChunk(m)
      /\ IsChunk(m) \in {0, 1} /\ (IsChunk(m) = 1 <=> m.kind = "payload")
  BY ComingType, ChunksAppend DEF IsChunk
<1>4. m.kind = "payload" => m.n = k + c + 1
  BY <1>1, <1>2
<1>5. Numbered(Coming', k)
  BY <1>1, <1>2, <1>4, ComingType, NumberedAppend
<1>6. Coming' \in Seq(Received)
  BY ComingType
<1>7. Chain'
  BY <1>1, <1>2, <1>3, <1>5, ChainNext
<1>8. OnTheWay' = Numbers(k, c + IsChunk(m))
  BY <1>1, <1>3, <1>5, <1>6, NumberedDatagrams, ChainNext
<1>9. OnTheWay = Numbers(k, c) /\ Len(OnTheWay) = c
  BY <1>1, OnTheWayIs, NumbersAre
<1> HIDE DEF c, k
<1>10. CASE m.kind = "payload"
  <2>1. OnTheWay' = Append(OnTheWay, k + c + 1)
    <3>1. c + IsChunk(m) = c + 1
      BY <1>3, <1>10
    <3>2. Append(Numbers(k, c), k + c + 1) = Numbers(k, c + 1)
      BY <1>1, NumbersAre
    <3> QED BY <1>8, <1>9, <3>1, <3>2
  <2>2. Pipe!Arrive
    BY <1>9, <2>1 DEF Pipe!Arrive, Steady, k
  <2> QED BY <1>7, <2>2 DEF Pipe!PipeNext
<1>11. CASE m.kind # "payload"
  <2>1. OnTheWay' = OnTheWay
    BY <1>1, <1>3, <1>8, <1>9, <1>11
  <2> QED BY <1>7, <2>1 DEF Steady
<1> QED BY <1>10, <1>11

LEMMA PipeDelivers ==
    ASSUME RestTypeOK, Chain, Coming # <<>>, Coming' = Tail(Coming), Steady, UNCHANGED <<nsent, stream, loop>>,
           got' = IF Head(Coming).kind = "payload" THEN Append(got, Head(Coming).n) ELSE got
    PROVE  Chain' /\ [Pipe!PipeNext]_(Pipe!pipeVars)
<1> DEFINE m == Head(Coming)
           c == Chunks(Coming, Len(Coming))
           d == Chunks(Tail(Coming), Len(Tail(Coming)))
           k == Len(got)
<1>1. c \in Nat /\ k \in Nat /\ nsent \in Nat
  BY ComingType
<1>2. Numbered(Coming, k) /\ (Live => nsent = k + c)
  BY DEF Chain
<1>3. IsChunk(m) \in {0, 1} /\ (IsChunk(m) = 1 <=> m.kind = "payload")
  BY DEF IsChunk
<1>4. /\ Numbered(Coming', k + IsChunk(m)) /\ c = d + IsChunk(m) /\ d \in Nat
      /\ m.kind = "payload" => m.n = k + 1
  BY <1>1, <1>2, ComingType, NumberedTail
<1>5. Len(got') = k + IsChunk(m)
  BY <1>3, ComingType
<1>6. Live' = Live
  BY DEF Live
<1>7. Chain'
  BY <1>1, <1>2, <1>3, <1>4, <1>5, <1>6, ChainNext
<1>8. OnTheWay = Numbers(k, c)
  BY OnTheWayIs
<1>9. OnTheWay' = Numbers(k + IsChunk(m), d)
  <2>1. Coming' \in Seq(Received) /\ k + IsChunk(m) \in Nat
    BY <1>1, <1>3, ComingType
  <2> QED BY <1>4, <2>1, NumberedDatagrams, ChainNext
<1>10. got' = IF m.kind = "payload" THEN Append(got, m.n) ELSE got
  OBVIOUS
<1> HIDE DEF c, d, k, m
<1>11. CASE m.kind = "payload"
  <2>1. /\ c # 0 /\ OnTheWay' = Numbers(k + 1, c - 1) /\ m.n = k + 1
    BY <1>1, <1>3, <1>4, <1>9, <1>11
  <2>2. OnTheWay # <<>> /\ Head(OnTheWay) = m.n /\ OnTheWay' = Tail(OnTheWay)
    BY <1>1, <1>8, <2>1, NumbersAre
  <2>3. Pipe!Deliver
    BY <1>10, <1>11, <2>2 DEF Pipe!Deliver, Steady
  <2> QED BY <1>7, <2>3 DEF Pipe!PipeNext
<1>12. CASE m.kind # "payload"
  <2>1. OnTheWay' = OnTheWay
    BY <1>1, <1>3, <1>4, <1>8, <1>9, <1>12
  <2> QED BY <1>7, <1>10, <1>12, <2>1 DEF Steady
<1> QED BY <1>11, <1>12

----------------------------------------------------------------------------
(* What readLoop and the readers do to the sequence. *)

LEMMA ComingIs ==
    ASSUME RestTypeOK
    PROVE  /\ loop = "ended" => Coming = recvCh
           /\ loop = "offer" => Coming = (recvCh \o <<held>>) \o s2c
           /\ loop \notin {"ended", "offer"} => Coming = recvCh \o s2c
<1>1. recvCh \o <<>> = recvCh /\ (recvCh \o <<>>) \o <<>> = recvCh
  BY ComingType, ConcatEmptySeq
<1> QED BY <1>1 DEF Coming

LEMMA ComingIsNext ==
    ASSUME RestTypeOK'
    PROVE  /\ loop' = "ended" => Coming' = recvCh'
           /\ loop' = "offer" => Coming' = (recvCh' \o <<held'>>) \o s2c'
           /\ loop' \notin {"ended", "offer"} => Coming' = recvCh' \o s2c'
<1>1. recvCh' \in Seq(Received)
  BY DEF RestTypeOK
<1>2. recvCh' \o <<>> = recvCh' /\ (recvCh' \o <<>>) \o <<>> = recvCh'
  BY <1>1, ConcatEmptySeq
<1> QED BY <1>2 DEF Coming

(* A beginning of what follows is a beginning of the whole. *)
LEMMA BeginningOfEnd ==
    ASSUME NEW T, NEW s \in Seq(T), NEW t \in Seq(T), NEW b \in Beginnings(t)
    PROVE  s \o b \in Beginnings(s \o t)
<1>1. PICK l \in 0..Len(t) : b = SubSeq(t, 1, l)
  BY DEF Beginnings
<1>2. /\ s \o t \in Seq(T) /\ Len(s \o t) = Len(s) + Len(t) /\ Len(s) \in Nat /\ Len(t) \in Nat
      /\ \A i \in 1..(Len(s) + Len(t)) : (s \o t)[i] = IF i <= Len(s) THEN s[i] ELSE t[i - Len(s)]
  BY ConcatProperties
<1>3. \A j \in 1..l : t[j] \in T
  BY ElementOfSeq
<1>4. b \in Seq(T) /\ Len(b) = l /\ \A j \in 1..l : b[j] = t[j]
  BY <1>1, <1>2, <1>3, SubSeqProperties
<1>5. /\ s \o b \in Seq(T) /\ Len(s \o b) = Len(s) + l
      /\ \A i \in 1..(Len(s) + l) : (s \o b)[i] = IF i <= Len(s) THEN s[i] ELSE b[i - Len(s)]
  BY <1>4, ConcatProperties
<1> DEFINE c == SubSeq(s \o t, 1, Len(s) + l)
<1>6. Len(s) + l \in 0..Len(s \o t)
  BY <1>2
<1>7. \A j \in 1..(Len(s) + l) : (s \o t)[j] \in T
  BY <1>2, <1>6, ElementOfSeq
<1>8. c \in Seq(T) /\ Len(c) = Len(s) + l /\ \A j \in 1..(Len(s) + l) : c[j] = (s \o t)[j]
  BY <1>2, <1>6, <1>7, SubSeqProperties
<1>9. \A i \in 1..(Len(s) + l) : (s \o b)[i] = c[i]
  BY <1>2, <1>4, <1>5, <1>8
<1>10. s \o b = c
  BY <1>5, <1>8, <1>9, SeqEqual
<1> QED BY <1>6, <1>10 DEF Beginnings

(* Everything that is not readLoop, ReadTakes, ServerGives or the end of the *)
(* stream.                                                                    *)
LEMMA ElsewhereFlows ==
    ASSUME RestTypeOK, PipeInv, UNCHANGED <<s2c, loop, held, recvCh, got, nsent>>, Closing \/ Steady,
           stream' \in {"none", "open"} => stream \in {"none", "open"},
           dial' = "new" => dial = "new" /\ stream' = stream, dial' # "conn" => dial # "conn"
    PROVE  PipeInv' /\ [Pipe!PipeNext]_(Pipe!pipeVars)
<1>1. Coming' = Coming
  BY DEF Coming
<1>2. Live' => Live
  BY DEF Live
<1>3. Chain' /\ [Pipe!PipeNext]_(Pipe!pipeVars)
  BY <1>1, <1>2, PipeStill DEF PipeInv
<1> QED BY <1>3 DEF PipeInv

(* The stream is cancelled or breaks. *)
LEMMA StreamEndFlows ==
    ASSUME RestTypeOK, RestTypeOK', PipeInv, s2c' \in Beginnings(s2c), stream' \notin {"none", "open"},
           UNCHANGED <<dial, loop, held, recvCh, got, nsent>>, Closing, dial # "new"
    PROVE  PipeInv' /\ [Pipe!PipeNext]_(Pipe!pipeVars)
<1>1. ~Live'
  BY DEF Live
<1>2. Coming' \in Beginnings(Coming)
  <2>1. CASE loop = "ended"
    <3>1. Coming' = Coming /\ Coming \in Seq(Received)
      BY <2>1, ComingIs, ComingIsNext, ComingType
    <3>2. Coming = SubSeq(Coming, 1, Len(Coming)) /\ Len(Coming) \in 0..Len(Coming)
      BY <3>1
    <3> QED BY <3>1, <3>2 DEF Beginnings
  <2>2. CASE loop = "offer"
    <3>1. recvCh \o <<held>> \in Seq(Received)
      BY ComingType, ConcatProperties
    <3>2. (recvCh \o <<held>>) \o s2c' \in Beginnings((recvCh \o <<held>>) \o s2c)
      BY <3>1, ComingType, BeginningOfEnd
    <3> QED BY <2>2, <3>2, ComingIs, ComingIsNext
  <2>3. CASE loop \notin {"ended", "offer"}
    <3>1. recvCh \o s2c' \in Beginnings(recvCh \o s2c)
      BY ComingType, BeginningOfEnd
    <3> QED BY <2>3, <3>1, ComingIs, ComingIsNext
  <2> QED BY <2>1, <2>2, <2>3
<1>3. Chain' /\ [Pipe!PipeNext]_(Pipe!pipeVars)
  BY <1>1, <1>2, PipeLoses DEF PipeInv
<1>4. s2c = <<>> => s2c' = <<>>
  BY ComingType DEF Beginnings
<1> QED BY <1>3, <1>4 DEF PipeInv

LEMMA LoopRecvFlows ==
    ASSUME RestTypeOK, RestTypeOK', PipeInv, LoopRecv
    PROVE  PipeInv' /\ [Pipe!PipeNext]_(Pipe!pipeVars)
<1>0. /\ loop = "recv" /\ loop' = "offer" /\ recvCh' = recvCh
      /\ UNCHANGED <<cancelled, stream, dial, got, nsent>>
  BY DEF LoopRecv, ClientRecv
<1>1. Steady /\ (Live' => Live)
  BY <1>0 DEF Steady, Live
<1>2. Coming = recvCh \o s2c /\ Coming' = (recvCh \o <<held'>>) \o s2c'
  BY <1>0, ComingIs, ComingIsNext
<1>3. CASE ClientRecv /\ held' = Head(s2c)
  <2>1. s2c # <<>> /\ s2c' = Tail(s2c)
    BY <1>3 DEF ClientRecv
  <2>2. s2c = <<Head(s2c)>> \o Tail(s2c) /\ <<Head(s2c)>> \in Seq(Received) /\ Tail(s2c) \in Seq(Received)
    BY <2>1, ComingType
  <2>3. (recvCh \o <<Head(s2c)>>) \o Tail(s2c) = recvCh \o (<<Head(s2c)>> \o Tail(s2c))
    BY <2>2, ComingType, ConcatAssociative
  <2>4. Coming' = Coming
    BY <1>2, <1>3, <2>1, <2>2, <2>3
  <2>5. held' # RecvErr
    <3>1. Head(s2c) \in Message
      BY <2>1 DEF RestTypeOK, StreamTypeOK
    <3> QED BY <1>3, <3>1 DEF Message, RecvErr, Signal
  <2>6. Chain' /\ [Pipe!PipeNext]_(Pipe!pipeVars)
    BY <1>0, <1>1, <2>4, PipeStill DEF PipeInv
  <2> QED BY <1>0, <2>5, <2>6 DEF PipeInv
<1>4. CASE ClientRecvError # {} /\ held' = RecvErr /\ UNCHANGED streamVars
  <2>1. s2c = <<>> /\ s2c' = <<>> /\ stream \notin {"none", "open"} /\ stream' = stream
    BY <1>4 DEF ClientRecvError
  <2>2. RecvErr \in Received /\ RecvErr.kind # "payload" /\ IsChunk(RecvErr) = 0
    BY DEF Received, RecvErr, Signal, IsChunk
  <2>3. Coming = recvCh /\ Coming' = recvCh \o <<RecvErr>>
    <3>1. recvCh \o <<RecvErr>> \in Seq(Received)
      BY <2>2, ComingType
    <3> QED BY <1>2, <1>4, <2>1, <3>1, ComingType, ConcatEmptySeq
  <2>4. Coming' = Append(Coming, RecvErr)
    BY <2>2, <2>3, ComingType, AppendIsConcat
  <2>5. nsent' = nsent + IsChunk(RecvErr)
    BY <1>0, <2>2, ComingType
  <2>6. Chain' /\ [Pipe!PipeNext]_(Pipe!pipeVars)
    BY <1>0, <1>1, <2>2, <2>4, <2>5, PipeArrives DEF PipeInv
  <2> QED BY <1>0, <2>1, <2>6 DEF PipeInv
<1> QED BY <1>3, <1>4 DEF LoopRecv

LEMMA LoopOffersFlows ==
    ASSUME RestTypeOK, RestTypeOK', PipeInv, LoopOffers
    PROVE  PipeInv' /\ [Pipe!PipeNext]_(Pipe!pipeVars)
<1>0. /\ loop = "offer" /\ recvCh = <<>> /\ recvCh' = <<held>> /\ held' = RecvErr
      /\ loop' = IF held = RecvErr THEN "ended" ELSE "recv"
      /\ UNCHANGED <<cancelled, stream, s2c, dial, got, nsent>>
  BY DEF LoopOffers
<1>1. Steady /\ (Live' => Live)
  BY <1>0 DEF Steady, Live
<1>2. Coming = <<held>> \o s2c
  <2>1. <<>> \o <<held>> = <<held>>
    BY ComingType, ConcatEmptySeq
  <2> QED BY <1>0, <2>1, ComingIs
<1>3. Coming' = Coming
  <2>1. CASE held = RecvErr
    <3>1. s2c = <<>>
      BY <1>0, <2>1 DEF PipeInv
    <3>2. Coming = <<held>>
      BY <1>2, <3>1, ComingType, ConcatEmptySeq
    <3> QED BY <1>0, <2>1, <3>2, ComingIsNext
  <2>2. CASE held # RecvErr
    BY <1>0, <1>2, <2>2, ComingIsNext
  <2> QED BY <2>1, <2>2
<1>4. Chain' /\ [Pipe!PipeNext]_(Pipe!pipeVars)
  BY <1>0, <1>1, <1>3, PipeStill DEF PipeInv
<1>5. \E m \in Received : recvCh' = <<m>>
  BY <1>0, ComingType
<1> QED BY <1>0, <1>4, <1>5 DEF PipeInv

LEMMA LoopCancelledFlows ==
    ASSUME RestTypeOK, RestTypeOK', PipeInv, LoopCancelled
    PROVE  PipeInv' /\ [Pipe!PipeNext]_(Pipe!pipeVars)
<1>0. /\ loop = "offer" /\ loop' = "ended" /\ cancelled /\ held' = RecvErr
      /\ UNCHANGED <<cancelled, stream, s2c, recvCh, dial, got, nsent>>
  BY DEF LoopCancelled
<1>1. Closing /\ ~Live'
  BY <1>0 DEF Closing, Live
<1>2. Coming' = recvCh /\ Coming = (recvCh \o <<held>>) \o s2c
  BY <1>0, ComingIs, ComingIsNext
<1>3. Coming' \in Beginnings(Coming)
  <2>1. <<held>> \o s2c \in Seq(Received) /\ Coming = recvCh \o (<<held>> \o s2c)
    BY <1>2, ComingType, ConcatProperties, ConcatAssociative
  <2>2. <<>> \in Beginnings(<<held>> \o s2c)
    <3>1. SubSeq(<<held>> \o s2c, 1, 0) = <<>> /\ 0 \in 0..Len(<<held>> \o s2c)
      BY <2>1
    <3> QED BY <3>1 DEF Beginnings
  <2>3. recvCh \o <<>> \in Beginnings(recvCh \o (<<held>> \o s2c))
    BY <2>1, <2>2, ComingType, BeginningOfEnd
  <2> QED BY <1>2, <2>1, <2>3, ComingType, ConcatEmptySeq
<1>4. Chain' /\ [Pipe!PipeNext]_(Pipe!pipeVars)
  BY <1>0, <1>1, <1>3, PipeLoses DEF PipeInv
<1> QED BY <1>0, <1>4 DEF PipeInv

LEMMA ReadTakesFlows ==
    ASSUME RestTypeOK, RestTypeOK', PipeInv, NEW r \in Readers, ReadTakes(r)
    PROVE  PipeInv' /\ [Pipe!PipeNext]_(Pipe!pipeVars)
<1>0. /\ recvCh # <<>> /\ recvCh' = <<>>
      /\ got' = IF Head(recvCh).kind = "payload" THEN Append(got, Head(recvCh).n) ELSE got
      /\ UNCHANGED <<cancelled, stream, s2c, loop, held, dial, nsent>>
  BY DEF ReadTakes
<1>1. PICK m \in Received : recvCh = <<m>>
  BY <1>0 DEF PipeInv
<1> DEFINE rest == (IF loop = "offer" THEN <<held>> ELSE <<>>) \o (IF loop = "ended" THEN <<>> ELSE s2c)
<1>2. rest \in Seq(Received) /\ Coming = <<m>> \o rest /\ Coming' = rest
  <2> DEFINE H == IF loop = "offer" THEN <<held>> ELSE <<>>
             S == IF loop = "ended" THEN <<>> ELSE s2c
  <2>1. H \in Seq(Received) /\ S \in Seq(Received) /\ <<m>> \in Seq(Received) /\ <<>> \in Seq(Received)
    BY ComingType
  <2>2. Coming = (<<m>> \o H) \o S /\ Coming' = (<<>> \o H) \o S /\ rest = H \o S
    BY <1>0, <1>1 DEF Coming
  <2> HIDE DEF H, S, rest
  <2> QED BY <2>1, <2>2, ConcatProperties, ConcatAssociative, ConcatEmptySeq
<1> HIDE DEF rest
<1>3. Coming # <<>> /\ Head(Coming) = m /\ Tail(Coming) = rest
  BY <1>2
<1>4. Head(recvCh) = m
  BY <1>1
<1>5. Steady
  BY <1>0 DEF Steady
<1>6. Chain' /\ [Pipe!PipeNext]_(Pipe!pipeVars)
  BY <1>0, <1>2, <1>3, <1>4, <1>5, PipeDelivers DEF PipeInv
<1> QED BY <1>0, <1>6 DEF PipeInv

(* The server's messages: an answer, the next datagram, or the end. *)
LEMMA ServerGivesFlows ==
    ASSUME RestTypeOK, RestTypeOK', PipeInv, ServerGives
    PROVE  PipeInv' /\ [Pipe!PipeNext]_(Pipe!pipeVars)
<1>1. PICK m \in Message :
          /\ ServerSend(m) /\ nsent' = nsent + IsChunk(m) /\ (m.kind = "payload" => m.n = nsent + 1)
  <2>1. CASE nsent' = nsent /\ \E k \in {"accepted", "eof"} : ServerSend(Signal(k))
    <3>1. PICK k \in {"accepted", "eof"} : ServerSend(Signal(k))
      BY <2>1
    <3>2. Signal(k) \in Message /\ IsChunk(Signal(k)) = 0 /\ Signal(k).kind # "payload"
      BY Messages DEF Signal, IsChunk
    <3>3. nsent' = nsent + IsChunk(Signal(k))
      BY <2>1, <3>2, ComingType
    <3> QED BY <3>1, <3>2, <3>3
  <2>2. CASE nsent' = nsent + 1 /\ ServerSend(Payload(nsent + 1))
    <3>1. Payload(nsent + 1) \in Message
      BY ComingType, Messages
    <3>2. IsChunk(Payload(nsent + 1)) = 1 /\ Payload(nsent + 1).n = nsent + 1
      BY DEF Payload, IsChunk
    <3> QED BY <2>2, <3>1, <3>2
  <2> QED BY <2>1, <2>2 DEF ServerGives
<1>2. /\ stream = "open" /\ s2c' = Append(s2c, m)
      /\ UNCHANGED <<cancelled, stream, loop, held, recvCh, dial, got>>
  BY <1>1 DEF ServerSend, ServerGives
<1>3. m \in Received /\ Steady /\ (Live' => Live)
  BY <1>2 DEF Received, Steady, Live
<1>4. CASE loop = "ended"
  <2>1. Coming' = Coming /\ ~Live'
    BY <1>2, <1>4, ComingIs, ComingIsNext DEF Live
  <2>2. OnTheWay' = OnTheWay
    BY <2>1, ChainNext DEF OnTheWay
  <2>3. Chain'
    BY <1>2, <2>1, ChainNext DEF PipeInv, Chain
  <2> QED BY <1>2, <1>3, <1>4, <2>2, <2>3 DEF PipeInv, Steady
<1>5. CASE loop # "ended"
  <2>1. ASSUME NEW s \in Seq(Received) PROVE s \o Append(s2c, m) = Append(s \o s2c, m)
    <3>1. Append(s2c, m) = s2c \o <<m>> /\ <<m>> \in Seq(Received) /\ s \o s2c \in Seq(Received)
      BY <1>3, ComingType, AppendIsConcat, ConcatProperties
    <3>2. Append(s \o s2c, m) = (s \o s2c) \o <<m>>
      BY <1>3, <3>1, AppendIsConcat
    <3> QED BY <3>1, <3>2, ComingType, ConcatAssociative
  <2>2. recvCh \o <<held>> \in Seq(Received)
    BY ComingType, ConcatProperties
  <2>3. Coming' = Append(Coming, m)
    BY <1>2, <1>5, <2>1, <2>2, ComingType, ComingIs, ComingIsNext
  <2>4. Live
    BY <1>2, <1>5 DEF Live
  <2>5. Chain' /\ [Pipe!PipeNext]_(Pipe!pipeVars)
    BY <1>1, <1>2, <1>3, <2>3, <2>4, PipeArrives DEF PipeInv
  <2> QED BY <1>2, <2>5 DEF PipeInv
<1> QED BY <1>4, <1>5

LEMMA PipeFlows ==
    ASSUME RestTypeOK, RestTypeOK', PipeInv, [PNext]_pvars
    PROVE  PipeInv' /\ [Pipe!PipeNext]_(Pipe!pipeVars)
<1>1. CASE Dialling
  <2>1. CASE DialOpens
    <3>1. stream = "none" /\ stream' = "open" /\ Steady
      BY <2>1 DEF DialOpens, PipeInv, Steady
    <3> QED BY <2>1, <3>1, ElsewhereFlows DEF DialOpens
  <2>2. CASE DialRefused \/ HandshakeFails
    <3>1. Closing
      BY <2>2 DEF DialRefused, HandshakeFails, Closing
    <3> QED BY <2>2, <3>1, ElsewhereFlows DEF DialRefused, HandshakeFails
  <2>3. CASE HeaderSent \/ HandshakeDone
    <3>1. Steady
      BY <2>3 DEF HeaderSent, ClientSend, HandshakeDone, Steady
    <3>2. CASE HeaderSent
      BY <3>1, <3>2, ElsewhereFlows DEF HeaderSent, ClientSend
    <3>3. CASE HandshakeDone
      <4>1. loop' = "recv" /\ UNCHANGED <<s2c, held, recvCh, got, nsent, stream, cancelled>> /\ dial' = "conn"
        BY <3>3 DEF HandshakeDone
      <4>2. loop = "none"
        BY <3>3 DEF HandshakeDone, PipeInv
      <4>3. Coming' = Coming /\ (Live' => Live)
        BY <4>1, <4>2 DEF Coming, Live
      <4>4. Chain' /\ [Pipe!PipeNext]_(Pipe!pipeVars)
        BY <3>1, <4>1, <4>3, PipeStill DEF PipeInv
      <4> QED BY <4>1, <4>4 DEF PipeInv
    <3> QED BY <2>3, <3>2, <3>3
  <2> QED BY <1>1, <2>1, <2>2, <2>3 DEF Dialling
<1>2. CASE StreamCancelled
  <2>1. dial # "new" /\ Closing
    BY <1>2 DEF StreamCancelled, Cancel, PipeInv, Closing
  <2> QED BY <1>2, <2>1, StreamEndFlows DEF StreamCancelled, Cancel
<1>3. CASE TransportBreaks
  <2>1. dial # "new" /\ Closing
    BY <1>3 DEF TransportBreaks, Break, PipeInv, Closing
  <2> QED BY <1>3, <2>1, StreamEndFlows DEF TransportBreaks, Break
<1>4. CASE Looping
  BY <1>4, LoopRecvFlows, LoopOffersFlows, LoopCancelledFlows DEF Looping
<1>5. CASE WriteSends
  <2>1. Steady
    BY <1>5 DEF WriteSends, ClientSend, Steady
  <2> QED BY <1>5, <2>1, ElsewhereFlows DEF WriteSends, ClientSend
<1>6. ASSUME NEW r \in Readers, ReadLocks(r) \/ Reading(r)
      PROVE  PipeInv' /\ [Pipe!PipeNext]_(Pipe!pipeVars)
  <2>1. CASE ReadLocks(r) \/ ReadWaits(r) \/ ReadGivesUp(r)
    <3>1. Steady
      BY <2>1 DEF ReadLocks, ReadWaits, ReadGivesUp, Steady
    <3> QED BY <2>1, <3>1, ElsewhereFlows DEF ReadLocks, ReadWaits, ReadGivesUp
  <2> QED BY <1>6, <2>1, ReadTakesFlows DEF Reading
<1>7. ASSUME NEW w \in Writers, WriteLocks(w) \/ Writing(w)
      PROVE  PipeInv' /\ [Pipe!PipeNext]_(Pipe!pipeVars)
  <2>1. CASE WriteTimesOut(w)
    <3>1. Closing
      BY <2>1 DEF WriteTimesOut, Closing
    <3> QED BY <2>1, <3>1, ElsewhereFlows DEF WriteTimesOut
  <2>2. CASE WriteLocks(w) \/ WriteChecks(w) \/ WriteReturns(w) \/ WriteCancelled(w)
    <3>1. Steady
      BY <2>2 DEF WriteLocks, WriteChecks, WriteReturns, WriteCancelled, Steady
    <3> QED BY <2>2, <3>1, ElsewhereFlows DEF WriteLocks, WriteChecks, WriteReturns, WriteCancelled
  <2> QED BY <1>7, <2>1, <2>2 DEF Writing
<1>8. ASSUME NEW c \in Closers, CloseCancels(c) \/ CloseSends(c)
      PROVE  PipeInv' /\ [Pipe!PipeNext]_(Pipe!pipeVars)
  <2>1. Closing \/ Steady
    BY <1>8 DEF CloseCancels, CloseSends, Closing, Steady
  <2> QED BY <1>8, <2>1, ElsewhereFlows DEF CloseCancels, CloseSends
<1>9. CASE ServerTakes \/ ServerReturns
  <2>1. Steady
    BY <1>9 DEF ServerTakes, ServerRecv, ServerReturns, Steady
  <2>2. CASE ServerTakes
    BY <2>1, <2>2, ElsewhereFlows DEF ServerTakes, ServerRecv
  <2>3. CASE ServerReturns
    <3>1. dial # "new"
      BY <2>3 DEF ServerReturns, PipeInv
    <3> QED BY <2>1, <2>3, <3>1, ElsewhereFlows DEF ServerReturns
  <2> QED BY <1>9, <2>2, <2>3
<1>10. CASE ServerGives
  BY <1>10, ServerGivesFlows
<1>11. CASE DeadlineStep \/ UNCHANGED pvars
  <2>1. Steady
    BY <1>11 DEF DeadlineStep, Steady
  <2> QED BY <1>11, <2>1, ElsewhereFlows DEF DeadlineStep
<1> QED
  BY <1>1, <1>2, <1>3, <1>4, <1>5, <1>6, <1>7, <1>8, <1>9, <1>10, <1>11 DEF PNext

LEMMA PipeStart == PInit => PipeInv /\ Pipe!PipeInit
<1> SUFFICES ASSUME PInit PROVE PipeInv /\ Pipe!PipeInit
  OBVIOUS
<1>1. /\ Coming = <<>> /\ Len(Coming) = 0 /\ got = <<>> /\ Len(got) = 0 /\ nsent = 0 /\ recvCh = <<>>
      /\ loop = "none" /\ stream = "none" /\ cancelled = FALSE
  BY DEF PInit, StreamInit, Coming
<1>2. Chunks(Coming, Len(Coming)) = 0
  BY <1>1, ChunksNone
<1>3. Chain
  BY <1>1, <1>2 DEF Chain, Numbered
<1>4. OnTheWay = <<>>
  BY <1>2 DEF OnTheWay, Datagrams
<1>5. Pipe!PipeInit
  BY <1>1, <1>4 DEF Pipe!PipeInit
<1> QED BY <1>1, <1>3, <1>5 DEF PipeInv

(* StreamPacketConn is a pipe: whatever times out, is closed, cancelled or   *)
(* breaks, and whoever reads, datagrams are returned in the order the server  *)
(* sent them, none twice and none left out; and only after the connection is  *)
(* shut are any lost, the last ones first (rpc/client/packet_conn.go).        *)
THEOREM PacketConnImplements == PSpec => ImplementsPacketPipe
<1> DEFINE Types == CallInv /\ RestTypeOK
<1>1. PInit => Types
  <2> SUFFICES ASSUME PInit PROVE Types
    OBVIOUS
  <2>1. RestTypeOK
    BY DEF PInit, StreamInit, RestTypeOK, StreamTypeOK, Received
  <2> QED BY <2>1, CallInit
<1>2. Types /\ [PNext]_pvars => Types'
  BY CallStep, PacketTypeStep
<1>3. Types /\ Types' /\ PipeInv /\ [PNext]_pvars => PipeInv' /\ [Pipe!PipeNext]_(Pipe!pipeVars)
  BY PipeFlows
<1> HIDE DEF Types
<1> QED
  BY <1>1, <1>2, <1>3, PipeStart, PTL DEF PSpec, ImplementsPacketPipe, Pipe!PipeSpec
=============================================================================
