------------------------------ MODULE MCHealth ------------------------------
(* Constants of the models of the health checker.                           *)
EXTENDS HealthProperties

CONSTANT b1

Config(backends, unhealthy, healthy) ==
    [backends |-> backends, unhealthy |-> unhealthy, healthy |-> healthy]

\* The first reload lowers a threshold under the streak of b1, the second drops
\* b1, the third brings it back while probes of its first time may be under way.
ChangingConfigs ==
    <<Config({b1}, 2, 2), Config({b1}, 1, 2), Config({}, 2, 2), Config({b1}, 2, 1)>>

\* Two reloads that keep b1 and the thresholds.
SteadyConfigs == <<Config({b1}, 2, 2), Config({b1}, 2, 2), Config({b1}, 2, 2)>>

=============================================================================
