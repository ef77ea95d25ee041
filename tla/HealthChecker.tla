--------------------------- MODULE HealthChecker ---------------------------
(***************************************************************************)
(* The health checker (internal/health/health.go): one probe loop for each *)
(* backend of each configuration, reloads that cancel the loops of the     *)
(* configuration before, and the outcomes the proxy reports.               *)
(*                                                                         *)
(* A loop takes a step at each place it can be overtaken: a reload or a    *)
(* shutdown between a probe and its record, a record of an older loop in   *)
(* between. What a backend answers follows whether it is up when asked.    *)
(***************************************************************************)
EXTENDS HealthState, Sequences, FiniteSets

CONSTANTS
    Targets,      \* addresses of all the backends of all the configurations
    Configs,    \* what Start and then each reload is given
    Flaky,      \* backends that go down and come up; the others are always up
    Proxied     \* backends the proxy reports outcomes of

ASSUME CheckerAssumption ==
    /\ Configs \in Seq([backends : SUBSET Targets,
                        unhealthy : 1..CounterCap, healthy : 1..CounterCap])
    /\ Configs # <<>>
    /\ Flaky \subseteq Targets
    /\ Proxied \subseteq Targets

Generations == 1..Len(Configs)

VARIABLES
    generation,   \* the configuration in force, 0 before Start
    stopped,      \* the context of App.Run is cancelled
    health,       \* HTTPChecker.backends
    loops,        \* the probe goroutine of each configuration and backend
    up,           \* environment: whether the backend answers 2xx in time
    reports       \* outcomes the proxy has yet to report

checkerVars == <<generation, stopped, health, loops, up, reports>>

LoopStages == {
    "none",       \* not started, or returned
    "due",        \* about to probe
    "probing",    \* in client.Do
    "good",       \* about to record a success
    "bad",        \* about to record a failure
    "waiting"}    \* in the select, for the ticker or the end of its context

CheckerTypeOK ==
    /\ generation \in 0..Len(Configs)
    /\ stopped \in BOOLEAN
    /\ health \in [Targets -> HealthStates]
    /\ loops \in [Generations -> [Targets -> LoopStages]]
    /\ up \in [Targets -> BOOLEAN]
    /\ reports \subseteq Targets \X BOOLEAN

\* The keys of HTTPChecker.backends. The other addresses are kept as NewState,
\* because IsHealthy treats an unknown address as healthy.
Known == IF generation = 0 THEN {} ELSE Configs[generation].backends

\* The probe context of configuration g is not cancelled.
Live(g) == g = generation /\ ~stopped

CheckerInit ==
    /\ generation = 0
    /\ stopped = FALSE
    /\ health = [b \in Targets |-> NewState]
    /\ loops = [g \in Generations |-> [b \in Targets |-> "none"]]
    /\ up = [b \in Targets |-> TRUE]
    /\ reports = {}

-----------------------------------------------------------------------------
\* Slip: only the new backends get a loop.
ReloadForNewcomers ==
    /\ generation < Len(Configs)
    /\ generation' = generation + 1
    /\ health' = [b \in Targets |->
                     IF b \in Known \cap Configs[generation + 1].backends
                     THEN health[b] ELSE NewState]
    /\ loops' = [loops EXCEPT ![generation + 1] =
                    [b \in Targets |->
                        IF b \in Configs[generation + 1].backends \ Known THEN "due" ELSE "none"]]
    /\ UNCHANGED <<stopped, up, reports>>

\* Slip: the survivors' streaks start anew.
ReloadAfresh ==
    /\ generation < Len(Configs)
    /\ generation' = generation + 1
    /\ health' = [b \in Targets |-> NewState]
    /\ loops' = [loops EXCEPT ![generation + 1] =
                    [b \in Targets |->
                        IF b \in Configs[generation + 1].backends THEN "due" ELSE "none"]]
    /\ UNCHANGED <<stopped, up, reports>>

\* Start, and every Reload after it: the loops of the configuration before are
\* cancelled, what is known of the survivors is kept, and every backend gets a
\* loop, under a context that a shutdown has cancelled already if it came first.
Reload ==
    /\ generation < Len(Configs)
    /\ generation' = generation + 1
    /\ health' = [b \in Targets |->
                     IF b \in Known \cap Configs[generation + 1].backends
                     THEN health[b] ELSE NewState]
    /\ loops' = [loops EXCEPT ![generation + 1] =
                    [b \in Targets |->
                        IF b \in Configs[generation + 1].backends THEN "due" ELSE "none"]]
    /\ UNCHANGED <<stopped, up, reports>>

\* record: an outcome of a backend that is not known is ignored; the thresholds
\* are those of now, whichever loop or request the outcome comes from.
Recorded(b, succeeded) ==
    health' = IF b \in Known
              THEN [health EXCEPT ![b] = AfterOutcome(@, succeeded, Configs[generation])]
              ELSE health

Moves(g, b, from, to) ==
    /\ loops[g][b] = from
    /\ loops' = [loops EXCEPT ![g][b] = to]

\* A request under a context that is over fails before it is sent.
BeginProbe(g, b) ==
    /\ Moves(g, b, "due", IF Live(g) THEN "probing" ELSE "bad")
    /\ UNCHANGED <<generation, stopped, health, up, reports>>

ProbeAnswered(g, b) ==
    /\ up[b]
    /\ Moves(g, b, "probing", "good")
    /\ UNCHANGED <<generation, stopped, health, up, reports>>

\* No connection, no answer in time, or an answer that is not 2xx.
ProbeFailed(g, b) ==
    /\ ~up[b]
    /\ Moves(g, b, "probing", "bad")
    /\ UNCHANGED <<generation, stopped, health, up, reports>>

\* The context ends under the probe: client.Do returns its error.
ProbeCancelled(g, b) ==
    /\ ~Live(g)
    /\ Moves(g, b, "probing", "bad")
    /\ UNCHANGED <<generation, stopped, health, up, reports>>

RecordProbe(g, b) ==
    /\ \/ Moves(g, b, "good", "waiting") /\ Recorded(b, TRUE)
       \/ Moves(g, b, "bad", "waiting") /\ Recorded(b, FALSE)
    /\ UNCHANGED <<generation, stopped, up, reports>>

\* Slip: a backend that is out of the pool is probed no more.
TickerFiresForTheFit(g, b) ==
    /\ health[b].healthy
    /\ Moves(g, b, "waiting", "due")
    /\ UNCHANGED <<generation, stopped, health, up, reports>>

\* Slip: the loop runs under the context of the process.
ReturnAtShutdown(g, b) ==
    /\ stopped
    /\ Moves(g, b, "waiting", "none")
    /\ UNCHANGED <<generation, stopped, health, up, reports>>

\* The ticker fired; when the context is over as well, select takes either.
TickerFires(g, b) ==
    /\ Moves(g, b, "waiting", "due")
    /\ UNCHANGED <<generation, stopped, health, up, reports>>

LoopReturns(g, b) ==
    /\ ~Live(g)
    /\ Moves(g, b, "waiting", "none")
    /\ UNCHANGED <<generation, stopped, health, up, reports>>

-----------------------------------------------------------------------------
\* A forwarded request ends; the outcome is reported later, by Report.
\* Bound: one outcome of a kind waits for each backend.
RequestEnds(b) ==
    /\ b \in Proxied
    /\ reports' = reports \cup {<<b, up[b]>>}
    /\ UNCHANGED <<generation, stopped, health, loops, up>>

\* ReportSuccess and ReportFailure.
Report(b, succeeded) ==
    /\ <<b, succeeded>> \in reports
    /\ reports' = reports \ {<<b, succeeded>>}
    /\ Recorded(b, succeeded)
    /\ UNCHANGED <<generation, stopped, loops, up>>

\* The backend goes down or comes up.
Turn(b) ==
    /\ b \in Flaky
    /\ up' = [up EXCEPT ![b] = ~@]
    /\ UNCHANGED <<generation, stopped, health, loops, reports>>

\* App.Run's context is cancelled.
StopChecker ==
    /\ ~stopped
    /\ stopped' = TRUE
    /\ UNCHANGED <<generation, health, loops, up, reports>>

-----------------------------------------------------------------------------
Probing(g, b) ==
    \/ BeginProbe(g, b) \/ ProbeAnswered(g, b) \/ ProbeFailed(g, b) \/ ProbeCancelled(g, b)
    \/ RecordProbe(g, b) \/ TickerFires(g, b) \/ LoopReturns(g, b)

CheckerNext ==
    \/ Reload
    \/ StopChecker
    \/ \E g \in Generations, b \in Targets : Probing(g, b)
    \/ \E b \in Targets :
          \/ RequestEnds(b)
          \/ \E succeeded \in BOOLEAN : Report(b, succeeded)
          \/ Turn(b)

CheckerSpec == CheckerInit /\ [][CheckerNext]_checkerVars

\* Goroutines run, probes time out and tickers fire. A select with two ready
\* cases picks one at random, so it does not pass over the end of its context
\* for ever. (One condition for all the loops: none that has returned comes back.)
CheckerFairness ==
    /\ \A g \in Generations, b \in Targets : WF_checkerVars(Probing(g, b))
    /\ SF_checkerVars(\E g \in Generations, b \in Targets : LoopReturns(g, b))

=============================================================================
