----------------------------- MODULE MCFrontEnd -----------------------------
(* Instances of FrontEnd for TLC. *)
EXTENDS FrontEnd, FiniteSets

(* Bound: what client, target and server do to a session in all. *)
CONSTANT Effort

Disturbances == {i \in 1..6 : <<stopped, cfin, cgone, cstall, teof, treset>>[i]}

(* A plain request has a body to send first.  What comes after the dial does *)
(* not depend on the credentials.                                              *)
Bounded ==
    /\ csent + tsent + Cardinality(Disturbances)
           <= IF front = "request" THEN Effort + 1 ELSE Effort
    /\ auth => px \in {"off", "dial"}
=============================================================================
