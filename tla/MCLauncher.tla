----------------------------- MODULE MCLauncher -----------------------------
(* Instances of Launcher for TLC. *)
EXTENDS Launcher

SomeOmitted == {{"dns", "path", "idle"}}

(* The sessions race each other in the first launch; one of them goes on    *)
(* into the second.                                                           *)
OneIntoTheSecond ==
    launch > 1 => Cardinality({s \in Sessions : sess[s] # Idle} ) + Cardinality(replacers) <= 1
=============================================================================
