---------------------------- MODULE Application ----------------------------
(***************************************************************************)
(* The assembled load balancer: reloads and the end of the process side by *)
(* side, and a request for /readyz (internal/observability/probes.go) that *)
(* may be answered in the middle of both.  The probe takes the backends of *)
(* the pool as they are when it begins, and asks the health checker for    *)
(* one after another.                                                      *)
(***************************************************************************)
EXTENDS Reload

VARIABLES
    probe,    \* whether a request for /readyz is being answered, and the backends left to
              \* ask for
    steady    \* history: the backends of its pool that were healthy all along

vars == <<lifecycleVars, reloadVars, probe, steady>>

TypeOK ==
    /\ LifecycleTypeOK /\ ReloadTypeOK
    /\ probe \in [asking : BOOLEAN, left : SUBSET Addrs]
    /\ steady \subseteq Addrs

NoProbe == [asking |-> FALSE, left |-> {}]

Healthy == {b \in Addrs : IsHealthy(b)}

Init ==
    /\ LifecycleInit /\ ReloadInit
    /\ probe = NoProbe
    /\ steady = {}

-----------------------------------------------------------------------------
\* ReadyHandler, past the test of draining, which alone refuses at once.
BeginReady ==
    /\ ~probe.asking
    /\ servers.admin # "down" /\ ~draining
    /\ probe' = [asking |-> TRUE, left |-> Files[given["pool"]].pool]
    /\ steady' = Files[given["pool"]].pool \cap Healthy

Answered == probe' = NoProbe /\ steady' = {}

\* anyHealthy answers TRUE at the first backend the checker calls healthy.
AnswerReady ==
    /\ \E b \in probe.left : IsHealthy(b)
    /\ Answered

\* One backend after another; in which order makes no difference here.
PassOver ==
    \E b \in probe.left :
        /\ ~IsHealthy(b)
        /\ probe.left # {b}
        /\ probe' = [probe EXCEPT !.left = @ \ {b}]
        /\ UNCHANGED steady

\* Slip: a backend that is not healthy answers for all.
RefuseAtOnce ==
    /\ \E b \in probe.left : ~IsHealthy(b)
    /\ Answered

Refuse ==
    /\ \E b \in probe.left : probe.left = {b} /\ ~IsHealthy(b)
    /\ Answered

Next ==
    \/ LifecycleNext /\ UNCHANGED <<reloadVars, probe, steady>>
    \/ ReloadNext /\ UNCHANGED <<lifecycleVars, probe>> /\ steady' = steady \cap Healthy'
    \/ (BeginReady \/ AnswerReady \/ PassOver \/ Refuse) /\ UNCHANGED <<lifecycleVars, reloadVars>>

Spec == Init /\ [][Next]_vars

LiveSpec == Spec /\ LifecycleFairness /\ ReloadFairness

=============================================================================
