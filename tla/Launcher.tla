------------------------------ MODULE Launcher ------------------------------
(***************************************************************************)
(* Launches of the process, one after the other: the configuration is      *)
(* applied, the pool made, the services started in an errgroup, and all of *)
(* it taken down again when one of them fails or Stop is called.  Sessions *)
(* are not waited for and may outlive their launch.                        *)
(***************************************************************************)
EXTENDS Config, ConnQueue

CONSTANTS
    MaxLaunches,  \* bound: calls of Launch
    Services,     \* what a client is configured to serve, of {"socks", "http", "dns"}
    Muxes         \* the sizes of pool it may be configured with

ASSUME LauncherAssumption ==
    /\ MaxLaunches \in Nat /\ Muxes \subseteq Nat
    /\ Services \subseteq {"socks", "http", "dns"}

Launches == 1..MaxLaunches
AllServices == Services \cup {"rpc"}

VARIABLES
    launch,   \* number of the last launch
    proc,     \* Launch: "idle", "apply", "init", "wait", "destroy", "close"
    cfg,      \* its configuration
    stopped,  \* Stop was called or a signal arrived
    done,     \* the errgroup's context
    sig,      \* listenSignal is waiting
    svc,      \* ListenAndServe of each service: "off", "start", "select"
    gor,      \* its serving goroutine: "off", "start", "run", "err"
    bound     \* the services whose address is bound

launchVars == <<launch, proc, cfg, stopped, done, sig, svc, gor, bound>>
lvars == <<configVars, queueVars, launchVars>>

(* wrong: what Launch finds wrong after Apply, badDial what gRPC rejects.    *)
ClientConfigs ==
    [role : {"client"}, fail : Failures, omit : Omissions, mux : Muxes,
     badDial : BOOLEAN, wrong : {"none", "uuid", "auth"}]
ServerConfigs ==
    [role : {"server"}, fail : Failures, omit : Omissions, mux : {0},
     badDial : {FALSE}, wrong : {"none", "server"}]
Configs == ClientConfigs \cup ServerConfigs

LInit ==
    /\ ConfigInit /\ QueueInit(Launches)
    /\ launch = 0 /\ proc = "idle" /\ stopped = FALSE /\ done = FALSE /\ sig = FALSE
    /\ cfg = CHOOSE c \in Configs : TRUE
    /\ svc = [s \in AllServices |-> "off"] /\ gor = [s \in AllServices |-> "off"]
    /\ bound = {}

----------------------------------------------------------------------------
(* Launch.  A serving goroutine that an earlier launch has left to start    *)
(* has started by now.                                                        *)
Launch(c) ==
    /\ proc = "idle" /\ launch < MaxLaunches
    /\ \A s \in AllServices : gor[s] # "start"
    /\ launch' = launch + 1 /\ cfg' = c /\ proc' = "apply"
    /\ stage' = 0 /\ rejected' = FALSE
    /\ stopped' = FALSE /\ done' = FALSE
    /\ UNCHANGED <<setting, queueVars, sig, svc, gor, bound>>

Stop ==
    /\ proc # "idle" /\ ~stopped
    /\ stopped' = TRUE
    /\ UNCHANGED <<configVars, queueVars, launch, proc, cfg, done, sig, svc, gor, bound>>

(* Once it has been applied, only the rest of the configuration matters.     *)
Apply ==
    /\ proc = "apply" /\ Stage(launch, cfg)
    /\ \/ stage' < Len(Stages) /\ UNCHANGED <<proc, cfg>>
       \/ /\ stage' = Len(Stages)
          /\ proc' = IF rejected' THEN "idle" ELSE "init"
          /\ cfg' = [cfg EXCEPT !.fail = "none", !.omit = {}]
    /\ UNCHANGED <<queueVars, launch, stopped, done, sig, svc, gor, bound>>

(* launchServer fails at once, or launchClient does before it has a pool.   *)
LaunchFails ==
    /\ proc = "init" /\ cfg.wrong \in {"uuid", "server"}
    /\ proc' = "idle"
    /\ UNCHANGED <<configVars, queueVars, launch, cfg, stopped, done, sig, svc, gor, bound>>

(* The goroutines of the errgroup; socks and rpc listen before they serve.  *)
Started(services) ==
    /\ sig' = TRUE
    /\ svc' = [s \in AllServices |-> IF s \notin services THEN svc[s]
                                     ELSE IF s \in {"socks", "rpc"} THEN "start" ELSE "select"]
    /\ gor' = [s \in AllServices |-> IF s \in services \cap {"http", "dns"} THEN "start" ELSE gor[s]]

launchServer ==
    /\ proc = "init" /\ cfg.role = "server" /\ cfg.wrong = "none"
    /\ Started({"rpc"}) /\ proc' = "wait"
    /\ UNCHANGED <<configVars, queueVars, launch, cfg, stopped, done, bound>>

(* The pool comes first, then the users; from here on Destroy is deferred.  *)
launchClient ==
    /\ proc = "init" /\ cfg.role = "client" /\ cfg.wrong # "uuid"
    /\ InitPool(launch, cfg.mux, cfg.badDial)
    /\ IF cfg.wrong = "auth" \/ (cfg.badDial /\ cfg.mux > 0)
       THEN proc' = "destroy" /\ UNCHANGED <<sig, svc, gor>>
       ELSE proc' = "wait" /\ Started(Services)
    /\ UNCHANGED <<configVars, launch, cfg, stopped, done, bound>>

(* Mutant: the services are not waited for. *)
WaitedForSignal ==
    /\ proc = "wait" /\ ~sig
    /\ proc' = IF cfg.role = "client" THEN "destroy" ELSE "idle"
    /\ UNCHANGED <<configVars, queueVars, launch, cfg, stopped, done, sig, svc, gor, bound>>

(* errGroup.Wait returns. *)
Waited ==
    /\ proc = "wait" /\ ~sig /\ \A s \in AllServices : svc[s] = "off"
    /\ proc' = IF cfg.role = "client" THEN "destroy" ELSE "idle"
    /\ UNCHANGED <<configVars, queueVars, launch, cfg, stopped, done, sig, svc, gor, bound>>

(* The deferred Destroy, in two steps. *)
Destroy ==
    /\ \/ proc = "destroy" /\ queueVal # 0 /\ Unpublish /\ proc' = "close"
       \/ proc = "destroy" /\ queueVal = 0 /\ UNCHANGED queueVars /\ proc' = "idle"
       \/ proc = "close" /\ DestroyPool(launch) /\ proc' = "idle"
    /\ UNCHANGED <<configVars, launch, cfg, stopped, done, sig, svc, gor, bound>>

----------------------------------------------------------------------------
(* Mutant: a context that ends does not end the wait for a signal. *)
listenSignalOnly ==
    /\ sig /\ stopped
    /\ sig' = FALSE /\ done' = TRUE
    /\ UNCHANGED <<configVars, queueVars, launch, proc, cfg, stopped, svc, gor, bound>>

listenSignal ==
    /\ sig /\ (stopped \/ done)
    /\ sig' = FALSE /\ done' = TRUE
    /\ UNCHANGED <<configVars, queueVars, launch, proc, cfg, stopped, svc, gor, bound>>

(* socks and rpc: net.Listen within ListenAndServe. *)
Listen(s) ==
    /\ svc[s] = "start"
    /\ \/ /\ s \notin bound
          /\ bound' = bound \cup {s}
          /\ svc' = [svc EXCEPT ![s] = "select"] /\ gor' = [gor EXCEPT ![s] = "run"]
          /\ UNCHANGED done
       \/ svc' = [svc EXCEPT ![s] = "off"] /\ done' = TRUE /\ UNCHANGED <<gor, bound>>
    /\ UNCHANGED <<configVars, queueVars, launch, proc, cfg, stopped, sig>>

(* http and dns listen in the goroutine.  A closed http.Server refuses to   *)
(* start; Shutdown of a dns.Server that has not started leaves no trace, and *)
(* its goroutine listens although nobody will stop it any more.             *)
ListenLater(s) ==
    /\ gor[s] = "start"
    /\ \/ /\ s \notin bound /\ (svc[s] # "off" \/ s = "dns")
          /\ bound' = bound \cup {s} /\ gor' = [gor EXCEPT ![s] = "run"]
       \/ gor' = [gor EXCEPT ![s] = IF svc[s] = "off" THEN "off" ELSE "err"] /\ UNCHANGED bound
    /\ UNCHANGED <<configVars, queueVars, launch, proc, cfg, stopped, done, sig, svc>>

(* Accept or Serve fails; only socks leaves its listener open.              *)
ServeFails(s) ==
    /\ gor[s] = "run" /\ svc[s] = "select"
    /\ gor' = [gor EXCEPT ![s] = "err"]
    /\ bound' = IF s = "socks" THEN bound ELSE bound \ {s}
    /\ UNCHANGED <<configVars, queueVars, launch, proc, cfg, stopped, done, sig, svc>>

(* The error ends the service and the context of the group.                 *)
ServiceFails(s) ==
    /\ svc[s] = "select" /\ gor[s] = "err"
    /\ svc' = [svc EXCEPT ![s] = "off"] /\ gor' = [gor EXCEPT ![s] = "off"]
    /\ done' = TRUE
    /\ UNCHANGED <<configVars, queueVars, launch, proc, cfg, stopped, sig, bound>>

(* The context ends the service, which closes what has been started.        *)
ServiceStops(s) ==
    /\ svc[s] = "select" /\ done
    /\ svc' = [svc EXCEPT ![s] = "off"]
    /\ gor' = [gor EXCEPT ![s] = IF @ = "start" THEN @ ELSE "off"]
    /\ bound' = IF s \in {"socks", "rpc"} \/ gor[s] = "run" THEN bound \ {s} ELSE bound
    /\ UNCHANGED <<configVars, queueVars, launch, proc, cfg, stopped, done, sig>>

----------------------------------------------------------------------------
Session(s) == GetQueue(s) \/ DialOutside(s) \/ GetConn(s) \/ PickLeastLoaded(s) \/ Use(s) \/ Done(s)

Pooling ==
    /\ \/ \E s \in Sessions : Session(s)
       \/ \E r \in replacers : ReplaceDials(r) \/ Replace(r)
    /\ UNCHANGED <<configVars, launchVars>>

Launching == Apply \/ LaunchFails \/ launchServer \/ launchClient \/ Waited \/ Destroy

Serving(s) == Listen(s) \/ ListenLater(s) \/ ServiceFails(s) \/ ServiceStops(s)

LNext ==
    \/ \E c \in Configs : Launch(c)
    \/ Stop \/ Launching \/ listenSignal \/ Pooling
    \/ \E s \in AllServices : Serving(s) \/ ServeFails(s)

LSpec == LInit /\ [][LNext]_lvars

(* A session whose pool is gone fails its RPC and closes its client.        *)
Leaving(s) ==
    /\ sess[s].pc # "idle" /\ (DialOutside(s) \/ GetConn(s) \/ PickLeastLoaded(s) \/ Use(s) \/ Done(s))
    /\ UNCHANGED <<configVars, launchVars>>

Replacing ==
    /\ \E r \in replacers : ReplaceDials(r) \/ Replace(r)
    /\ UNCHANGED <<configVars, launchVars>>

(* Goroutines that can run do, and sessions end.  The write lock of a pool   *)
(* is kept from nobody for ever by its readers.                              *)
FairLSpec ==
    /\ LSpec
    /\ SF_lvars(Launching) /\ WF_lvars(listenSignal) /\ SF_lvars(Replacing)
    /\ \A s \in AllServices : WF_lvars(Serving(s))
    /\ \A s \in Sessions : WF_lvars(Leaving(s))

----------------------------------------------------------------------------
(* As long as a service may hand over a session the pool of its launch is   *)
(* published and whole: it is made before them and destroyed after them,    *)
(* and no session meets a dead connection in a pool that is in use.          *)
ServicesHavePool ==
    /\ PoolIntact
    /\ (\E s \in Services : svc[s] # "off") => queueVal = launch /\ ~pool[launch].shutdown

ModesConsistent == ModeMatchesRoutes(launch)

(* A launch that is stopped, or one of whose services fails, comes to an end *)
(* and takes every connection it opened with it, those its sessions and      *)
(* replaceConn opened on the way down included.                               *)
LaunchEnds ==
    /\ (stopped \/ done) /\ proc # "idle" ~> proc = "idle"
    /\ proc = "idle" /\ launch = MaxLaunches ~> \A c \in Conns : ~Live(c)
=============================================================================
