---------------------------- MODULE HealthState ----------------------------
(***************************************************************************)
(* What the health checker keeps about one backend                         *)
(* (internal/health/health.go, state and record), as operators on it.  A   *)
(* setting is a record of the two thresholds, because a reload may change  *)
(* them under a streak.                                                    *)
(***************************************************************************)
EXTENDS Integers

CONSTANT CounterCap   \* bound: streaks are counted no further than this

ASSUME CapAssumption == CounterCap \in Nat \ {0}

\* The cap tells nothing apart that the code does, as long as it is at least
\* every threshold: the counters are only compared with them.
HealthSettings == [unhealthy : 1..CounterCap, healthy : 1..CounterCap]

HealthStates ==
    [healthy : BOOLEAN, successes : 0..CounterCap, failures : 0..CounterCap]

\* A backend the checker has just been given starts healthy.
NewState == [healthy |-> TRUE, successes |-> 0, failures |-> 0]

Longer(streak) == IF streak < CounterCap THEN streak + 1 ELSE streak

\* Slip: a success leaves the failures counted.
AfterOutcomeUnreset(s, succeeded, cfg) ==
    IF succeeded
    THEN [healthy   |-> s.healthy \/ Longer(s.successes) >= cfg.healthy,
          successes |-> Longer(s.successes),
          failures  |-> s.failures]
    ELSE [healthy   |-> s.healthy /\ Longer(s.failures) < cfg.unhealthy,
          successes |-> 0,
          failures  |-> Longer(s.failures)]

\* record: one outcome, and the flip it may cause.
AfterOutcome(s, succeeded, cfg) ==
    IF succeeded
    THEN [healthy   |-> s.healthy \/ Longer(s.successes) >= cfg.healthy,
          successes |-> Longer(s.successes),
          failures  |-> 0]
    ELSE [healthy   |-> s.healthy /\ Longer(s.failures) < cfg.unhealthy,
          successes |-> 0,
          failures  |-> Longer(s.failures)]

=============================================================================
