----------------------------- MODULE Lifecycle -----------------------------
(***************************************************************************)
(* How the process ends (internal/app/app.go, Run): the contexts of main,  *)
(* of Run and of the admin server, and the two servers that end with them. *)
(* A server is seen from outside here: it serves, drains and is down; what *)
(* goes on in the traffic server meanwhile is module Server's.             *)
(***************************************************************************)

VARIABLES
    signalled,   \* the context of main is over: SIGINT or SIGTERM came
    over,        \* the context of Run is over
    draining,    \* Probes.draining
    servers,     \* App.traffic and App.admin
    adminOver    \* the context of the admin server is over

lifecycleVars == <<signalled, over, draining, servers, adminOver>>

ServerStages == {"serving", "draining", "down"}

LifecycleTypeOK ==
    /\ signalled \in BOOLEAN /\ over \in BOOLEAN
    /\ draining \in BOOLEAN /\ adminOver \in BOOLEAN
    /\ servers \in [traffic : ServerStages, admin : ServerStages]

LifecycleInit ==
    /\ signalled = FALSE /\ over = FALSE
    /\ draining = FALSE /\ adminOver = FALSE
    /\ servers = [traffic |-> "serving", admin |-> "serving"]

\* SIGINT or SIGTERM: signal.NotifyContext ends the context of main, and with it
\* that of Run.  A second one changes nothing.
Terminate ==
    /\ ~signalled
    /\ signalled' = TRUE /\ over' = TRUE
    /\ UNCHANGED <<draining, servers, adminOver>>

\* context.AfterFunc: in a goroutine of its own.
Drain ==
    /\ over /\ ~draining
    /\ draining' = TRUE
    /\ UNCHANGED <<signalled, over, servers, adminOver>>

\* Slip: the context of the admin server is a child of that of Run.
BeginShutdownTogether(s) ==
    /\ servers[s] = "serving"
    /\ over
    /\ servers' = [servers EXCEPT ![s] = "draining"]
    /\ UNCHANGED <<signalled, over, draining, adminOver>>

\* Server.Run, its context over.
BeginShutdown(s) ==
    /\ servers[s] = "serving"
    /\ IF s = "traffic" THEN over ELSE adminOver
    /\ servers' = [servers EXCEPT ![s] = "draining"]
    /\ UNCHANGED <<signalled, over, draining, adminOver>>

\* Slip: neither server's end stops the other.
DownAlone(s) ==
    /\ servers' = [servers EXCEPT ![s] = "down"]
    /\ UNCHANGED <<over, adminOver>>

\* The deferred stopAll, and for the traffic server stopAdmin.
Down(s) ==
    /\ servers' = [servers EXCEPT ![s] = "down"]
    /\ over' = TRUE
    /\ adminOver' = (adminOver \/ s = "traffic")

\* Server.Run returns from its shutdown, drained or with the grace over; that of
\* the traffic server may never return (module Server: with the connection limit
\* reached, http.Server.Shutdown outlasts the grace while a request goes on).
EndShutdown(s) ==
    /\ servers[s] = "draining"
    /\ Down(s)
    /\ UNCHANGED <<signalled, draining>>

\* Server.Run returns because Serve failed.
Break(s) ==
    /\ servers[s] = "serving"
    /\ Down(s)
    /\ UNCHANGED <<signalled, draining>>

LifecycleNext ==
    \/ Terminate
    \/ Drain
    \/ \E s \in {"traffic", "admin"} : BeginShutdown(s) \/ EndShutdown(s) \/ Break(s)

\* The admin server limits no connections, so its grace ends its shutdown.
LifecycleFairness ==
    /\ WF_lifecycleVars(Drain)
    /\ \A s \in {"traffic", "admin"} : WF_lifecycleVars(BeginShutdown(s))
    /\ WF_lifecycleVars(EndShutdown("admin"))

=============================================================================
