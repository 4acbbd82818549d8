----------------------------- MODULE RouteTable -----------------------------
(* What internal/router promises: a route table that every lookup sees whole and
   that answers with the first matching route, with no cache in between.        *)
EXTENDS Sequences, Naturals

CONSTANTS
    Keys,           \* normalised destinations
    Dsts, Normal,   \* destinations as asked for; Normal is normalizeRouteKey
    Rules,          \* the Route values of the configuration
    Tables,         \* the Routes values SetRoutes can be given
    Contents,       \* what a rule's ext file may hold: sets of keys
    Readers,
    NotFound, NoAnswer

(* A rule names the keys its own sources match (all of Keys for a default route), *)
(* whether it also reads an ext file, its egress, and whether it compiles at all. *)
ASSUME RuleShape ==
    /\ Rules \subseteq [src : SUBSET Keys, ext : BOOLEAN, dst : STRING, bad : BOOLEAN]
    /\ Tables \subseteq Seq(Rules)
    /\ Contents \subseteq SUBSET Keys
    /\ Normal \in [Dsts -> Keys]
    /\ NotFound \notin STRING

VARIABLES routes,   \* installed routes: the rule and the keys it was compiled to match
          answer    \* reader -> its last answer

\* Route.GenerateCache, for every content the ext file may have.
Compiled(rule) ==
    [rule : {rule}, matched : IF rule.ext THEN {rule.src \cup c : c \in Contents} ELSE {rule.src}]

\* Routes.GetRoute: the egress of the first route that matches.
Select(rs, k) ==
    IF \E i \in DOMAIN rs : k \in rs[i].matched
    THEN rs[CHOOSE i \in DOMAIN rs : /\ k \in rs[i].matched
                                     /\ \A j \in 1..(i - 1) : k \notin rs[j].matched].rule.dst
    ELSE NotFound

Get(p, d) ==
    /\ answer' = [answer EXCEPT ![p] = [dst |-> d, egress |-> Select(routes, Normal[d])]]
    /\ UNCHANGED routes

\* rs is table, compiled.
IsCompilation(rs, table) ==
    /\ Len(rs) = Len(table)
    /\ \A i \in DOMAIN table : ~table[i].bad /\ rs[i] \in Compiled(table[i])

Replace == \E table \in Tables : IsCompilation(routes', table)

AddFirst == \E rule \in Rules : /\ ~rule.bad
                                /\ \E c \in Compiled(rule) : routes' = <<c>> \o routes

AddLast == \E rule \in Rules : /\ ~rule.bad
                               /\ \E c \in Compiled(rule) : routes' = routes \o <<c>>

\* The same rules in the same order, compiled afresh.
Recompile == IsCompilation(routes', [i \in DOMAIN routes |-> routes[i].rule])

Init == routes = <<>> /\ answer = [p \in Readers |-> NoAnswer]

Next ==
    \/ \E p \in Readers, d \in Dsts : Get(p, d)
    \/ (Replace \/ AddFirst \/ AddLast \/ Recompile) /\ UNCHANGED answer

Spec == Init /\ [][Next]_<<routes, answer>>
=============================================================================
