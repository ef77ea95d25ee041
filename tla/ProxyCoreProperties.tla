------------------------- MODULE ProxyCoreProperties -------------------------
(***************************************************************************)
(* What the forwarding core promises, and what its comments and the design *)
(* document say of it that the code does not do.                           *)
(***************************************************************************)
EXTENDS ProxyCore

Serving == {"dial", "sent", "streaming", "served", "credited", "failed", "blamed", "unwind"}

\* A request that is not idempotent reaches at most one backend: sending it
\* again "would repeat the effect: a second order, a second payment"
\* (retryable, internal/proxy/idempotency.go).
AtMostOnceUnlessIdempotent ==
    \A r \in Requests :
        ~req[r].idempotent => \A b, c \in req[r].seen : b = c

\* The client gets one response, whichever attempts fail and however: an answer
\* cut off part way is never followed by an error page or by another backend's
\* answer (Core.serve, the deferred function).
AnsweredOnce == \A r \in Requests : req[r].replies <= 1

\* least connections balances on these counters: each is exactly the number of
\* attempts at that backend, whatever way earlier attempts ended
\* (backend.Acquire and the deferred Release in Core.serve).
ActiveExact ==
    \A b \in Addrs :
        active[b] = Cardinality({r \in Requests : req[r].pc \in Serving /\ req[r].at = b})

\* Where no breaker is on, "no backend could serve the request" is said only
\* after as many different backends were tried as the failure policy and the pool
\* allow: "if health checking has emptied the pool completely, the untried
\* backends are returned anyway", so failing probes turn no request away
\* (Core.available).
PoolExhausted ==
    \A r \in Requests : LET i == req[r].snap IN
        ~BreakerEnabled(i) /\ req[r].verdict = "no_backend" =>
            Cardinality(req[r].tried) =
                IF Attempts(i) < Cardinality(Pool(i)) THEN Attempts(i) ELSE Cardinality(Pool(i))

\* The requests at backend b whose own body broke off on the way to it.
BrokeAt(b, stage) ==
    {r \in Requests : At(r, stage) /\ req[r].at = b /\ StreamsBroken(req[r])}

ChargedByBrokenBodies(b) ==
    /\ health'[b].failures > health[b].failures =>
          \E r \in BrokeAt(b, "failed") : ~req[r].gone
    /\ \A i \in Snapshots :
          circuits'[i][b].failures > circuits[i][b].failures =>
              \E r \in BrokeAt(b, "blamed") : req[r].snap = i

\* Whoever hangs up, and whenever, no failure is counted against the health or a
\* circuit of a backend that never fails, but for a connected client's own broken
\* body that was streamed to it: by that request, at that backend, in its own
\* snapshot's breaker (Core.serve, the two tests of r.Context().Err()).
OnlyTheFaultyAreBlamed ==
    [][\A b \in Addrs \ Faulty : ChargedByBrokenBodies(b)]_vars

\* Every snapshot's budget is used as retrybudget.go prescribes on every way
\* through ServeHTTP: whatever panics, cancellations and reloads interleave,
\* what is reserved is given back once, on the budget it was taken from.
\* (Budget(i)!Spec for every i, in the form TLC takes.)
BudgetsRespected ==
    /\ \A i \in Snapshots : Budget(i)!Init
    /\ [][\A i \in Snapshots : UNCHANGED Budget(i)!vars \/ Budget(i)!Next]_vars

\* What a request with record q is to snapshot i's breaker.
Uses(i, q) == q.snap = i /\ q.pc \notin {"out", "body", "closing", "done"}

UseOf(i, q) ==
    IF ~Uses(i, q) THEN "out"
    ELSE IF q.pc = "scan" THEN "choosing"
    ELSE IF q.pc \in {"asking", "refused"} THEN "chosen"
    ELSE IF q.pc \in {"served", "credited"} THEN "served"
    ELSE IF q.pc \in {"failed", "blamed"} THEN "failed"
    ELSE IF q.pc = "unwind" THEN "over"
    ELSE "trying"

PlaceOf(i, q) == IF Uses(i, q) THEN q.at ELSE Nobody
FitOf(i, q) == IF Uses(i, q) THEN q.fit ELSE {}
GoneOf(i, q) == IF Uses(i, q) THEN q.gone ELSE FALSE

BreakerOf(i) == INSTANCE BreakerUse WITH
    circuits <- circuits[i],
    Enabled  <- BreakerEnabled(i),
    stage    <- [r \in Requests |-> UseOf(i, req[r])],
    at       <- [r \in Requests |-> PlaceOf(i, req[r])],
    admitted <- [r \in Requests |-> FitOf(i, req[r])],
    gone     <- [r \in Requests |-> GoneOf(i, req[r])]

\* Every snapshot's breaker is used by the requests of that snapshot as BreakerUse
\* says, across reloads: what an attempt was told before and what came of it go to
\* the same breaker, once, for the backend it was at.
\* (BreakerOf(i)!UseSpec for every i, in the form TLC takes.)
BreakersRespected ==
    /\ \A i \in Snapshots : BreakerOf(i)!UseInit
    /\ [][\A i \in Snapshots : UNCHANGED BreakerOf(i)!useVars \/ BreakerOf(i)!UseNext]_vars

\* Every request is over at last, unless one exchange never ends because the
\* backend stalls for ever: no sequence of failures, retries, refusals and reloads
\* keeps it in the balancer (the loop in Core.ServeHTTP).
EveryRequestEnds ==
    \A r \in Requests : ~At(r, "out") ~> (At(r, "done") \/ []Stalls(r))

-----------------------------------------------------------------------------
\* Core.ServeHTTP: "One snapshot for the whole request: a reload part way
\* through must not change the rules this request is being judged by."
JudgedByItsSnapshot ==
    [][\A r \in Requests :
          Answer5xx(r) => (req'[r].pc = "failed" <=> Configs[req[r].snap].retryOn5xx)]_vars

\* available: "the backends that may serve the request now: healthy, not tripped by
\* the circuit breaker"; breaker: it "keeps a backend that fails repeatedly out of
\* selection for a while". So nothing is sent to a backend whose open period is
\* still running.
TrippedAreShutOut ==
    [][\A r \in Requests : LET i == req[r].snap IN
          Scanned(r) /\ req'[r].pc = "dial" /\ BreakerEnabled(i) =>
              circuits[i][req'[r].at].left <= 0]_vars

\* breaker: "After the open period one request is let through as a probe: if it
\* succeeds the backend is taken back, otherwise the backend is shut out for
\* another period." So a probe that was let through reports at last.
ProbesReport ==
    \A i \in Snapshots, b \in Addrs :
        circuits[i][b].probing ~> ~circuits[i][b].probing

=============================================================================
