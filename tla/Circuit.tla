------------------------------ MODULE Circuit ------------------------------
(***************************************************************************)
(* The circuit of one backend (internal/proxy/breaker.go), as operators on *)
(* the record the breaker keeps for it.  openedUntil is modelled by what   *)
(* allow compares it with: the clock ticks left until it.                  *)
(***************************************************************************)
EXTENDS Integers

CONSTANTS
    FailureThreshold,   \* circuit_breaker.failure_threshold
    OpenTicks           \* circuit_breaker.open_duration, in clock ticks

\* config.validate: both are positive.
ASSUME CircuitAssumption ==
    FailureThreshold \in Nat \ {0} /\ OpenTicks \in Nat \ {0}

Closed == -1   \* in left: openedUntil is the zero time

\* A map entry; failures past the threshold are not told apart, since the code
\* only compares it with the threshold.
CircuitStates ==
    [failures : 0..FailureThreshold, left : Closed..OpenTicks, probing : BOOLEAN]

\* No entry in the map. An entry in it has at least one failure, so this record
\* stands for nothing else.
Untracked == [failures |-> 0, left |-> Closed, probing |-> FALSE]

Tripped(c) == c.left # Closed
Elapsed(c) == c.left = 0

\* Slip: nothing is noted about the probe let through.
AdmitUnmarked(c) == c

\* What allow answers, and what it leaves behind: after the open period the
\* first caller is the probe.
Admits(c)     == ~Tripped(c) \/ (Elapsed(c) /\ ~c.probing)
AfterAllow(c) == IF Elapsed(c) THEN [c EXCEPT !.probing = TRUE] ELSE c

\* Slip: a success closes the circuit and leaves the count of failures.
CloseOnly(c) == [c EXCEPT !.left = Closed, !.probing = FALSE]

\* recordSuccess deletes the entry.
AfterSuccess(c) == Untracked

\* Slip: a failure of an open circuit does not start a new period.
OpenOnce(c) ==
    LET failures == IF c.failures < FailureThreshold THEN c.failures + 1 ELSE c.failures
    IN  [failures |-> failures,
         left     |-> IF failures = FailureThreshold /\ ~Tripped(c) THEN OpenTicks ELSE c.left,
         probing  |-> FALSE]

\* recordFailure: any failure at the threshold or past it starts an open period.
AfterFailure(c) ==
    LET failures == IF c.failures < FailureThreshold THEN c.failures + 1 ELSE c.failures
    IN  [failures |-> failures,
         left     |-> IF failures = FailureThreshold THEN OpenTicks ELSE c.left,
         probing  |-> FALSE]

AfterTick(c) == IF c.left > 0 THEN [c EXCEPT !.left = @ - 1] ELSE c

=============================================================================
