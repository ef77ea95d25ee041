-------------------------- MODULE HealthProperties --------------------------
(* What the health checker brings about at last, and a promise it breaks.   *)
EXTENDS HealthHistory

\* A backend that stays down is out of the pool for good at last, and one that
\* stays up is in it: through reloads, cancelled probes and late reports of the
\* time before (probeUntilDone, record).
FollowsTheBackend ==
    \A b \in Targets, serving \in BOOLEAN :
        <>[](b \in Known /\ ~stopped /\ up[b] = serving)
            => <>[](health[b].healthy = serving)

\* The loops of a configuration that was replaced, or of a balancer that stops,
\* return: at last only loops of the configuration in force are left, so reloads
\* leave no goroutines behind (probeUntilDone). There are finitely many reloads.
LoopsReturn ==
    \A g \in Generations, b \in Targets :
        loops[g][b] # "none" /\ ~Live(g) ~> loops[g][b] = "none"

-----------------------------------------------------------------------------
\* HTTPChecker.Reload: "Backends that survive the change keep their health and
\* their streak." So no reload takes out a backend that answered every probe
\* and every request.
ReloadsKeepTheHealthy ==
    \A b \in Targets \ Flaky : ~stopped => health[b].healthy

=============================================================================
