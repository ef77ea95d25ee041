--------------------------- MODULE HealthHistory ---------------------------
(***************************************************************************)
(* The health checker with a history variable: the unbroken run of equal   *)
(* outcomes each backend has ended its record with since it became known,  *)
(* and the thresholds in force when the last of them was recorded.         *)
(***************************************************************************)
EXTENDS HealthChecker

VARIABLE series

varsR == <<checkerVars, series>>

NoRun == [succeeded |-> TRUE, length |-> 0, bar |-> 1]

\* An outcome was recorded of b in this step, and this is it.
Outcome(b, succeeded) ==
    /\ b \in Known
    /\ \/ \E g \in Generations :
             /\ loops[g][b] = IF succeeded THEN "good" ELSE "bad"
             /\ loops'[g][b] = "waiting"
       \/ <<b, succeeded>> \in reports \ reports'

\* The run an outcome makes of the one before.
Extended(w, succeeded, cfg) ==
    [succeeded |-> succeeded,
     length |-> IF succeeded = w.succeeded THEN Longer(w.length) ELSE 1,
     bar |-> IF succeeded THEN cfg.healthy ELSE cfg.unhealthy]

RunAfter(b) ==
    IF Outcome(b, TRUE) THEN Extended(series[b], TRUE, Configs[generation])
    ELSE IF Outcome(b, FALSE) THEN Extended(series[b], FALSE, Configs[generation])
    ELSE IF b \in Known \cap Known' THEN series[b] ELSE NoRun

InitR == CheckerInit /\ series = [b \in Targets |-> NoRun]
NextR == CheckerNext /\ series' = [b \in Targets |-> RunAfter(b)]
SpecR == InitR /\ [][NextR]_varsR

TypeOKR ==
    /\ CheckerTypeOK
    /\ series \in [Targets -> [succeeded : BOOLEAN, length : 0..CounterCap, bar : 1..CounterCap]]

-----------------------------------------------------------------------------
\* Every known backend is probed by one loop and no other backend by any: the
\* reloads leave no backend unwatched and none watched twice, though loops of
\* earlier configurations may still be on their way out (HTTPChecker.Reload).
OneLoopEach ==
    \A b \in Targets :
        {g \in Generations : Live(g) /\ loops[g][b] # "none"} =
            IF b \in Known /\ ~stopped THEN {generation} ELSE {}

\* A run that reached the threshold in force has taken the backend out, or back:
\* no outcome is lost between loops, reports and reloads, and what survives a
\* reload keeps its streak ("only an unbroken run crosses a threshold", state).
RunsDecide ==
    \A b \in Known :
        series[b].length >= series[b].bar => health[b].healthy = series[b].succeeded

\* Nothing else does: a backend leaves or rejoins the pool only in the step that
\* completes such a run, or is forgotten (record, Reload).
OnlyRunsDecide ==
    [][\A b \in Known \cap Known' :
          health'[b].healthy # health[b].healthy =>
              /\ series'[b].length >= series'[b].bar
              /\ series'[b].succeeded = health'[b].healthy]_varsR

=============================================================================
