--------------------------- MODULE BreakerHistory ---------------------------
(***************************************************************************)
(* The breaker with history variables: what its callers reported and were  *)
(* answered, from which the promises of its doc comment are stated without *)
(* looking at the fields it keeps.                                         *)
(***************************************************************************)
EXTENDS Breaker

VARIABLES
    streak,   \* consecutive failures reported, counted to FailureThreshold
    rest,     \* ticks since the last failure reported, counted to OpenTicks
    grants    \* admissions of a tripped backend since its last outcome

varsH == <<circuits, streak, rest, grants>>

TypeOKH ==
    /\ BreakerTypeOK
    /\ streak \in [Addrs -> 0..FailureThreshold]
    /\ rest \in [Addrs -> 0..OpenTicks]
    /\ grants \in [Addrs -> 0..2]

Earlier(n, cap) == IF n < cap THEN n + 1 ELSE cap

InitH ==
    /\ BreakerInit
    /\ streak = [b \in Addrs |-> 0]
    /\ rest   = [b \in Addrs |-> 0]
    /\ grants = [b \in Addrs |-> 0]

AllowH(b) ==
    /\ Allow(b)
    /\ grants' = IF streak[b] = FailureThreshold
                 THEN [grants EXCEPT ![b] = Earlier(@, 2)]
                 ELSE grants
    /\ UNCHANGED <<streak, rest>>

HoldH(b) == Hold(b) /\ UNCHANGED <<streak, rest, grants>>

RecordSuccessH(b) ==
    /\ RecordSuccess(b)
    /\ streak' = [streak EXCEPT ![b] = 0]
    /\ rest'   = [rest EXCEPT ![b] = 0]
    /\ grants' = [grants EXCEPT ![b] = 0]

RecordFailureH(b) ==
    /\ RecordFailure(b)
    /\ streak' = [streak EXCEPT ![b] = Earlier(@, FailureThreshold)]
    /\ rest'   = [rest EXCEPT ![b] = 0]
    /\ grants' = [grants EXCEPT ![b] = 0]

TickH ==
    /\ Tick
    /\ rest' = [b \in Addrs |-> Earlier(rest[b], OpenTicks)]
    /\ UNCHANGED <<streak, grants>>

NextH ==
    \/ TickH
    \/ \E b \in Addrs :
          \/ AllowH(b)
          \/ HoldH(b)
          \/ RecordSuccessH(b)
          \/ RecordFailureH(b)

SpecH == InitH /\ [][NextH]_varsH

-----------------------------------------------------------------------------
\* A backend is shut out exactly when its last FailureThreshold outcomes were
\* failures ("once the backend has failed often enough in a row",
\* breaker.recordFailure): one success in between starts the count anew, and a
\* success in whatever order takes a tripped backend back.
TrippedByAnUnbrokenRun ==
    \A b \in Addrs : Tripped(circuits[b]) <=> Enabled /\ streak[b] = FailureThreshold

\* "A probe is already on its way; hold everything else back until it reports
\* its outcome" (breaker.allow): between two outcomes of a tripped backend at
\* most one caller is let through.
OneProbePerOutcome ==
    Enabled => \A b \in Addrs : streak[b] = FailureThreshold => grants[b] <= 1

\* Nobody is let through to a tripped backend before a whole open period has
\* passed since its latest failure, a late one included (breaker.recordFailure
\* moves openedUntil at every failure past the threshold).
ShutOutForThePeriod ==
    [][\A b \in Addrs :
          AllowH(b) /\ Enabled /\ streak[b] = FailureThreshold => rest[b] = OpenTicks]_varsH

=============================================================================
