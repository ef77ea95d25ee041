------------------------------ MODULE Breaker ------------------------------
(***************************************************************************)
(* The circuit breaker of one configuration snapshot                       *)
(* (internal/proxy/breaker.go).  Each operation holds the breaker's mutex  *)
(* throughout, so it is one step; the requests that call them come in any  *)
(* order, because an outcome is recorded long after the admission it       *)
(* belongs to.                                                             *)
(***************************************************************************)
EXTENDS Circuit

CONSTANTS
    Addrs,     \* the backends' addresses
    Enabled    \* failure_policy is circuit_breaker

ASSUME EnabledAssumption == Enabled \in BOOLEAN

VARIABLE circuits   \* breaker.circuits

BreakerTypeOK == circuits \in [Addrs -> CircuitStates]

BreakerInit == circuits = [b \in Addrs |-> Untracked]

\* allow, answering TRUE: an inert breaker always does and keeps nothing.
Allow(b) ==
    /\ Enabled => Admits(circuits[b])
    /\ circuits' = IF Enabled
                   THEN [circuits EXCEPT ![b] = AfterAllow(@)]
                   ELSE circuits

\* allow, answering FALSE: nothing changes.
Hold(b) ==
    /\ Enabled /\ ~Admits(circuits[b])
    /\ UNCHANGED circuits

RecordSuccess(b) ==
    circuits' = IF Enabled
                THEN [circuits EXCEPT ![b] = AfterSuccess(@)]
                ELSE circuits

RecordFailure(b) ==
    circuits' = IF Enabled
                THEN [circuits EXCEPT ![b] = AfterFailure(@)]
                ELSE circuits

\* The clock: one tick for every open period at once.
Tick == circuits' = [b \in Addrs |-> AfterTick(circuits[b])]

BreakerNext ==
    \/ Tick
    \/ \E b \in Addrs :
          \/ Allow(b)
          \/ Hold(b)
          \/ RecordSuccess(b)
          \/ RecordFailure(b)

BreakerSpec == BreakerInit /\ [][BreakerNext]_circuits

=============================================================================
