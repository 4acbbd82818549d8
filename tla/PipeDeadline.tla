---------------------------- MODULE PipeDeadline ----------------------------
(***************************************************************************)
(* pipeDeadline of packet_conn.go: the read and the write deadline of a    *)
(* packet connection.  A deadline is a channel that is closed when it has  *)
(* passed; callers that are blocked hold the channel they asked for.       *)
(* Channels are known by the number of their creation.                     *)
(***************************************************************************)
EXTENDS Naturals, Sequences

CONSTANTS
    Setters,  \* the goroutines that call SetDeadline and its two halves
    MaxSets   \* bound: how many calls of them are explored

ASSUME SetsAssumption == MaxSets \in Nat

Sides == {"read", "write"}

VARIABLES
    timer,  \* d.timer: "nil", "armed" or "spent"
    firing, \* callbacks that have been started and have yet to run
    ch,     \* d.cancel
    shut,   \* the channels that have been closed
    due,    \* the deadline in force: "never", "later" or "past" (a ghost)
    set,    \* a setter's call: the sides left, the kind of time, blocked in set
    nsets   \* calls made so far

deadlineVars == <<timer, firing, ch, shut, due, set, nsets>>

NoCall == [sides |-> <<>>, t |-> "zero", blocked |-> FALSE]

DeadlineTypeOK ==
    /\ timer \in [Sides -> {"nil", "armed", "spent"}]
    /\ firing \in [Sides -> Nat]
    /\ ch \in [Sides -> Nat]
    /\ shut \in [Sides -> SUBSET Nat]
    /\ due \in [Sides -> {"never", "later", "past"}]
    /\ set \in [Setters -> [sides : Seq(Sides), t : {"zero", "time"}, blocked : BOOLEAN]]
    /\ nsets \in Nat

(* makePipeDeadline, twice. *)
DeadlineInit ==
    /\ timer = [d \in Sides |-> "nil"]
    /\ firing = [d \in Sides |-> 0]
    /\ ch = [d \in Sides |-> 0]
    /\ shut = [d \in Sides |-> {}]
    /\ due = [d \in Sides |-> "never"]
    /\ set = [s \in Setters |-> NoCall]
    /\ nsets = 0

isClosedChan(d) == ch[d] \in shut[d]

(* d.mu is held over more than one step only by a set that waits for a     *)
(* callback.                                                                *)
Unlocked(d) == \A s \in Setters : ~(set[s].blocked /\ Head(set[s].sides) = d)

(* SetReadDeadline, SetWriteDeadline and SetDeadline (read, then write),    *)
(* with the zero time or with a time that may have passed when it is used.  *)
SetDeadline(s) ==
    /\ set[s].sides = <<>> /\ nsets < MaxSets
    /\ \E sides \in {<<"read">>, <<"write">>, <<"read", "write">>}, t \in {"zero", "time"} :
          set' = [set EXCEPT ![s] = [sides |-> sides, t |-> t, blocked |-> FALSE]]
    /\ nsets' = nsets + 1
    /\ UNCHANGED <<timer, firing, ch, shut, due>>

(* Mutant: a timer that has fired is not waited for. *)
MustWaitNever(d) == FALSE

(* d.timer.Stop is too late: set receives from the channel, which the       *)
(* callback has yet to close.                                                *)
MustWait(d) == timer[d] = "spent" /\ ~isClosedChan(d)

SetBlocks(s) ==
    /\ set[s].sides # <<>> /\ ~set[s].blocked
    /\ LET d == Head(set[s].sides) IN Unlocked(d) /\ MustWait(d)
    /\ set' = [set EXCEPT ![s].blocked = TRUE]
    /\ UNCHANGED <<timer, firing, ch, shut, due, nsets>>

(* Mutant: every deadline gets a channel of its own. *)
RenewedAlways(d) == ch' = [ch EXCEPT ![d] = @ + 1]

(* A channel is replaced only once it is closed. *)
Renewed(d) == ch' = IF isClosedChan(d) THEN [ch EXCEPT ![d] = @ + 1] ELSE ch

(* The rest of set, under d.mu and with the old timer out of the way.       *)
Set(s) ==
    /\ set[s].sides # <<>>
    /\ LET d == Head(set[s].sides) IN
       /\ set[s].blocked \/ Unlocked(d)
       /\ ~MustWait(d)
       /\ \/ /\ set[s].t = "zero"
             /\ Renewed(d)
             /\ timer' = [timer EXCEPT ![d] = "nil"]
             /\ due' = [due EXCEPT ![d] = "never"]
             /\ UNCHANGED shut
          \/ /\ set[s].t = "time"
             /\ Renewed(d)
             /\ timer' = [timer EXCEPT ![d] = "armed"]
             /\ due' = [due EXCEPT ![d] = "later"]
             /\ UNCHANGED shut
          \/ /\ set[s].t = "time"
             /\ shut' = [shut EXCEPT ![d] = @ \cup {ch[d]}]
             /\ timer' = [timer EXCEPT ![d] = "nil"]
             /\ due' = [due EXCEPT ![d] = "past"]
             /\ UNCHANGED ch
    /\ set' = [set EXCEPT ![s].sides = Tail(@), ![s].blocked = FALSE]
    /\ UNCHANGED <<firing, nsets>>

(* The runtime starts the callback in a goroutine of its own ... *)
TimerFires(d) ==
    /\ timer[d] = "armed"
    /\ timer' = [timer EXCEPT ![d] = "spent"]
    /\ firing' = [firing EXCEPT ![d] = @ + 1]
    /\ due' = [due EXCEPT ![d] = "past"]
    /\ UNCHANGED <<ch, shut, set, nsets>>

(* ... which closes the channel that d.cancel holds when it runs, unlocked. *)
Callback(d) ==
    /\ firing[d] > 0
    /\ firing' = [firing EXCEPT ![d] = @ - 1]
    /\ shut' = [shut EXCEPT ![d] = @ \cup {ch[d]}]
    /\ UNCHANGED <<timer, ch, due, set, nsets>>

DeadlineNext ==
    \/ \E s \in Setters : SetDeadline(s) \/ SetBlocks(s) \/ Set(s)
    \/ \E d \in Sides : TimerFires(d) \/ Callback(d)

(* The runtime fires timers and runs callbacks; a call of set that can go   *)
(* on does.                                                                  *)
DeadlineFairness ==
    /\ \A d \in Sides : WF_deadlineVars(TimerFires(d)) /\ WF_deadlineVars(Callback(d))
    /\ \A s \in Setters : WF_deadlineVars(SetBlocks(s) \/ Set(s))
=============================================================================
