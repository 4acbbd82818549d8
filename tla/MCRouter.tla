------------------------------ MODULE MCRouter ------------------------------
(* Small instances of Router for TLC.                                         *)
EXTENDS Router, TLC

CONSTANTS
    k1,
    MaxVersion,         \* bound: updates of the table
    MaxRoutes           \* bound: length of the table

\* A rule with an ext file, a default route and one that does not compile.
ExtFile == [src |-> {}, ext |-> TRUE, dst |-> "block", bad |-> FALSE]
Default == [src |-> Keys, ext |-> FALSE, dst |-> "proxy", bad |-> FALSE]
Broken  == [src |-> {}, ext |-> FALSE, dst |-> "proxy", bad |-> TRUE]

\* Rules of every kind, ext files that change, and a destination per key.
SomeRules    == {ExtFile, Default, Broken}
SomeTables   == {<<Default>>, <<ExtFile, Broken>>}
FileContents == {{}, {k1}}
SameNormal   == [k \in Keys |-> k]

\* A full cache and the second update are not looked at together.
Bounded ==
    /\ version <= MaxVersion /\ Len(routes) <= MaxRoutes
    /\ version + Len(order) <= MaxVersion + 1

\* Two states are the same when they differ only in answers already given and in
\* the version an update other than GenerateCache once saw.
View == <<tableVars, cacheVars, asked, found, op, draft, built,
          [w \in Writers |-> op[w] = "regen" /\ snap[w] = version]>>

Symmetry == Permutations(Readers) \cup Permutations(Writers)
=============================================================================
