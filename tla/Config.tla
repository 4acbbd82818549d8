------------------------------- MODULE Config -------------------------------
(***************************************************************************)
(* MixedConfig.Apply: the settings of the process, changed one after the   *)
(* other by each configuration, until one of them is rejected.  A setting  *)
(* is known by the number of the launch whose configuration gave it its    *)
(* value, 0 for the built-in default.                                       *)
(***************************************************************************)
EXTENDS Naturals, Sequences

CONSTANT
    Failures,  \* where a configuration may be rejected, a subset of Rejecting
    Omissions  \* sets of optional settings a configuration may leave out

(* What Apply does, in order.  The first stage checks role and idle_timeout. *)
Stages == <<"check", "log", "dns", "buffer", "udp", "path", "uuid", "forward",
            "routes", "ipv6", "idle">>

Rejecting == {"check", "dns", "buffer", "udp", "uuid", "forward", "routes"}

(* A setting that is left out keeps what it was.  udp is set either way: a   *)
(* configuration without the section restores the defaults.                  *)
Optional == {"dns", "buffer", "path", "forward", "idle"}

ASSUME ConfigAssumption ==
    /\ Failures \subseteq Rejecting \cup {"none"} /\ Failures # {}
    /\ Omissions \subseteq SUBSET Optional /\ Omissions # {}

Settings == {"log", "dns", "buffer", "udp", "path", "uuid", "forward", "routes", "ipv6", "idle"}

VARIABLES
    setting,  \* setting -> the launch that gave it its value
    stage,    \* how far Apply has come, Len(Stages) when it is not running
    rejected  \* the last Apply failed

configVars == <<setting, stage, rejected>>

ConfigTypeOK ==
    /\ setting \in [Settings -> Nat]
    /\ stage \in 0..Len(Stages)
    /\ rejected \in BOOLEAN

ConfigInit ==
    /\ setting = [s \in Settings |-> 0]
    /\ stage = Len(Stages) /\ rejected = FALSE

(* What a configuration says: only a client has a UUID. *)
Has(cfg, s) == s \in Settings \ cfg.omit /\ (s = "uuid" => cfg.role = "client")

(* Mutant: the dial mode is set before the routes are compiled. *)
StageEarlyMode(n, cfg) ==
    LET s == IF Stages[stage + 1] = "routes" THEN "ipv6"
             ELSE IF Stages[stage + 1] = "ipv6" THEN "routes" ELSE Stages[stage + 1]
    IN  /\ stage < Len(Stages)
        /\ IF cfg.fail = s /\ (s = "uuid" => cfg.role = "client")
           THEN stage' = Len(Stages) /\ rejected' = TRUE /\ UNCHANGED setting
           ELSE /\ stage' = stage + 1 /\ UNCHANGED rejected
                /\ setting' = IF Has(cfg, s)
                              THEN [setting EXCEPT ![s] = n] ELSE setting

(* One stage of Apply for launch n. *)
Stage(n, cfg) ==
    LET s == Stages[stage + 1]
    IN  /\ stage < Len(Stages)
        /\ IF cfg.fail = s /\ (s = "uuid" => cfg.role = "client")
           THEN stage' = Len(Stages) /\ rejected' = TRUE /\ UNCHANGED setting
           ELSE /\ stage' = stage + 1 /\ UNCHANGED rejected
                /\ setting' = IF Has(cfg, s)
                              THEN [setting EXCEPT ![s] = n] ELSE setting

(* The routes that block IPv6 and the mode that does not dial it come from   *)
(* the same configuration, and never from one that was rejected: neither    *)
(* they nor the idle timeout change before nothing can fail any more.        *)
ModeMatchesRoutes(n) ==
    stage = Len(Stages) =>
        /\ setting["ipv6"] = setting["routes"]
        /\ rejected => \A s \in {"routes", "ipv6", "idle"} : setting[s] # n
=============================================================================
