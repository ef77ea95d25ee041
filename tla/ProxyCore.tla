----------------------------- MODULE ProxyCore -----------------------------
(***************************************************************************)
(* The forwarding of requests (internal/proxy/proxy.go, Core.ServeHTTP and *)
(* what it calls): any number of requests run it at once, each from the    *)
(* settings snapshot it loaded, while a reload replaces the snapshot, the  *)
(* health checker records probes, the clock runs and clients hang up.      *)
(*                                                                         *)
(* A step is one access to state that requests share, with the local work  *)
(* around it.  The strategy's choice and the sticky pin are any candidate: *)
(* what holds here holds under every algorithm.                            *)
(***************************************************************************)
EXTENDS Circuit, HealthState, Sequences, FiniteSets

CONSTANTS
    Requests,   \* requests that may be in flight at once
    Addrs,      \* addresses of all the backends in all the snapshots
    Nobody,     \* not an address: the request is at no backend
    Configs,    \* the successive configurations, the first loaded at start
    Health,     \* the thresholds of the health checker
    Percent, Minimum,   \* the retry budget, the same in every configuration
    Faulty,     \* backends that may fail or stall; the others never do
    Probed,     \* backends whose active probes are modelled
    Bodies,     \* kinds of request bodies that arrive
    Impatient   \* clients may hang up or stop reading

Policies == {"retry_next_backend", "fail_fast", "circuit_breaker"}

\* A broken body ends in an error when it is read, malformed or not all there
\* before the read timeout, while its client is still connected.
BodyKinds == {"none", "small", "broken", "declared_oversize", "chunked_oversize"}

ASSUME CoreAssumption ==
    /\ IsFiniteSet(Requests)
    /\ Nobody \notin Addrs
    /\ Faulty \subseteq Addrs
    /\ Probed \subseteq Addrs
    /\ Bodies \subseteq BodyKinds
    /\ Impatient \in BOOLEAN
    /\ Percent \in 1..100 /\ Minimum \in Nat \ {0}
    /\ Health \in HealthSettings
    /\ Configs \in Seq([policy : Policies, maxRetries : Nat, retryOn5xx : BOOLEAN,
                        pool : Seq(Addrs)])
    /\ Configs # <<>>

Snapshots == 1..Len(Configs)

\* attemptsFor: only retry_next_backend offers a request to a second backend.
Attempts(i) ==
    IF Configs[i].policy = "retry_next_backend" THEN 1 + Configs[i].maxRetries ELSE 1

BreakerEnabled(i) == Configs[i].policy = "circuit_breaker"

Pool(i) == {Configs[i].pool[k] : k \in 1..Len(Configs[i].pool)}

VARIABLES
    current,    \* Core.current: the snapshot a request arriving now works from
    req,        \* each request: its place in the code, its locals, its client
    health,     \* the checker's record of each backend
    circuits,   \* settings.breaker.circuits of each snapshot
    requests,   \* settings.budget.requests of each snapshot
    retries,    \* settings.budget.retries of each snapshot
    active      \* Backend.active of each backend

vars == <<current, req, health, circuits, requests, retries, active>>

\* Where a request is, in the order it passes through.
Stages == {
    "out",        \* not in the balancer
    "body",       \* snapshot loaded, in replayableBody
    "scan",       \* in available, or about to place
    "asking",     \* in tryRetry, the addition made
    "refused",    \* in tryRetry, about to take it back
    "dial",       \* in serve, no connection yet
    "sent",       \* the backend has the request
    "streaming",  \* the answer has started and is on its way to the client
    "served",     \* the answer is complete, about to report it
    "credited",   \* reported to the checker, not yet to the breaker
    "failed",     \* the attempt failed, about to look whose failure it was
    "blamed",     \* reported to the checker, not yet to the breaker
    "unwind",     \* about to release what the attempt holds
    "closing",    \* leaving ServeHTTP, still counted in the load
    "done"}

\* How an attempt ended.
Errors == {"none", "dial", "lost", "5xx", "cut_off", "cancelled", "client_lost"}

\* What the client got: an answer in full or in part, an error page, nothing.
Verdicts == {"none", "answered", "aborted", "gone",
             "too_large", "no_backend", "spent", "not_retryable"}

Fresh == [pc |-> "out", snap |-> 1, idempotent |-> TRUE, body |-> "none",
          gone |-> FALSE,      \* r.Context() is done
          n |-> 0,             \* the attempt
          next |-> 1,          \* the backend available looks at next
          fit |-> {},          \* those it found fit
          tried |-> {}, at |-> Nobody, ticket |-> 0, err |-> "none",
          seen |-> {},         \* history: backends the request was sent to
          replies |-> 0,       \* history: responses begun towards the client
          verdict |-> "none"]

Records == [pc : Stages, snap : Snapshots, idempotent : BOOLEAN, body : BodyKinds,
            gone : BOOLEAN, n : Nat, next : Nat \ {0}, fit : SUBSET Addrs,
            tried : SUBSET Addrs, at : Addrs \cup {Nobody}, ticket : Nat, err : Errors,
            seen : SUBSET Addrs, replies : Nat, verdict : Verdicts]

TypeOK ==
    /\ current \in Snapshots
    /\ req \in [Requests -> Records]
    /\ health \in [Addrs -> HealthStates]
    /\ circuits \in [Snapshots -> [Addrs -> CircuitStates]]
    /\ requests \in [Snapshots -> Nat]
    /\ retries \in [Snapshots -> Nat]
    /\ active \in [Addrs -> Nat]

Init ==
    /\ current = 1
    /\ req = [r \in Requests |-> Fresh]
    /\ health = [b \in Addrs |-> NewState]
    /\ circuits = [i \in Snapshots |-> [b \in Addrs |-> Untracked]]
    /\ requests = [i \in Snapshots |-> 0]
    /\ retries = [i \in Snapshots |-> 0]
    /\ active = [b \in Addrs |-> 0]

At(r, stage) == req[r].pc = stage

-----------------------------------------------------------------------------
(* Arrival: the snapshot, then the body.                                   *)

Arrive(r) ==
    /\ At(r, "out")
    /\ \E idempotent \in BOOLEAN, body \in Bodies :
          req' = [req EXCEPT ![r] = [Fresh EXCEPT
                     !.pc = "body", !.snap = current,
                     !.idempotent = idempotent, !.body = body]]
    /\ UNCHANGED <<current, health, circuits, requests, retries, active>>

\* replayableBody: a declared length is compared at once, an unknown one only
\* when the body is buffered for retries.
TooLarge(body, attempts) ==
    body = "declared_oversize" \/ (body = "chunked_oversize" /\ attempts > 1)

\* Without retries the body is read while it is written to the backend.
Streamed(q) == Attempts(q.snap) = 1

\* Nor can a body be buffered that is broken, or whose client hangs up while it
\* is read, which is answered in the same way.
Unread(r) ==
    /\ ~Streamed(req[r])
    /\ req[r].body = "broken" \/ (req[r].gone /\ req[r].body # "none")

RefuseBody(r) ==
    /\ At(r, "body")
    /\ TooLarge(req[r].body, Attempts(req[r].snap)) \/ Unread(r)
    /\ req' = [req EXCEPT ![r].pc = "done", ![r].verdict = "too_large",
                          ![r].replies = @ + 1]
    /\ UNCHANGED <<current, health, circuits, requests, retries, active>>

\* The request enters the load of its snapshot (requestStarted).
Start(r) ==
    /\ At(r, "body")
    /\ ~TooLarge(req[r].body, Attempts(req[r].snap))
    /\ Streamed(req[r]) \/ req[r].body # "broken"
    /\ req' = [req EXCEPT ![r].pc = "scan"]
    /\ requests' = [requests EXCEPT ![req[r].snap] = @ + 1]
    /\ UNCHANGED <<current, health, circuits, retries, active>>

\* The request leaves the loop for good, with an error page or without.
Closes(r, verdict, page) ==
    req' = [req EXCEPT ![r].pc = "closing", ![r].at = Nobody, ![r].err = "none",
                       ![r].verdict = verdict, ![r].replies = IF page THEN @ + 1 ELSE @]

-----------------------------------------------------------------------------
(* Selection.                                                              *)

\* available, one backend of the pool: IsHealthy, then breaker.allow, which
\* takes the probe of an elapsed circuit whether or not b is chosen later.
Scan(r) ==
    LET i == req[r].snap
        b == Configs[i].pool[req[r].next]
        asked == b \notin req[r].tried /\ health[b].healthy
        fit == asked /\ (BreakerEnabled(i) => Admits(circuits[i][b]))
    IN  /\ At(r, "scan")
        /\ req[r].next <= Len(Configs[i].pool)
        /\ req' = [req EXCEPT ![r].next = @ + 1,
                              ![r].fit = IF fit THEN @ \cup {b} ELSE @]
        /\ circuits' = IF asked /\ BreakerEnabled(i)
                       THEN [circuits EXCEPT ![i][b] = AfterAllow(@)]
                       ELSE circuits
        /\ UNCHANGED <<current, health, requests, retries, active>>

Scanned(r) == At(r, "scan") /\ req[r].next > Len(Configs[req[r].snap].pool)

\* Slip: no fallback to the backends that are not fit.
FitOnly(r) == req[r].fit

\* What available returns: when nothing is fit, everything untried.
Candidates(r) ==
    IF req[r].fit = {} THEN Pool(req[r].snap) \ req[r].tried ELSE req[r].fit

\* place has chosen b; what available found is of no more use.
Chooses(r, b, stage) ==
    req' = [req EXCEPT ![r].pc = stage, ![r].at = b, ![r].tried = @ \cup {b},
                       ![r].next = 1, ![r].fit = {},
                       ![r].ticket = IF stage = "asking" THEN retries[req[r].snap] + 1 ELSE 0]

\* The first attempt goes straight on to serve, which acquires the backend.
PlaceFirst(r) ==
    /\ Scanned(r)
    /\ req[r].n = 0
    /\ \E b \in Candidates(r) :
          /\ Chooses(r, b, "dial")
          /\ active' = [active EXCEPT ![b] = @ + 1]
    /\ UNCHANGED <<current, health, circuits, requests, retries>>

\* A retry asks the budget first: the addition of tryRetry.
PlaceRetry(r) ==
    /\ Scanned(r)
    /\ req[r].n > 0
    /\ \E b \in Candidates(r) : Chooses(r, b, "asking")
    /\ retries' = [retries EXCEPT ![req[r].snap] = @ + 1]
    /\ UNCHANGED <<current, health, circuits, requests, active>>

\* place failed: there is nothing left to offer the request to.
NoBackend(r) ==
    /\ Scanned(r)
    /\ Candidates(r) = {}
    /\ Closes(r, "no_backend", TRUE)
    /\ UNCHANGED <<current, health, circuits, requests, retries, active>>

-----------------------------------------------------------------------------
(* The retry budget.                                                       *)

\* Where a request with record q is in its use of snapshot i's budget, and what
\* its addition returned.
Use(i, q) ==
    IF q.snap # i \/ q.pc \in {"out", "body", "done"} THEN "out"
    ELSE IF q.pc \in {"asking", "refused"} THEN q.pc
    ELSE IF q.n > 0 /\ q.pc \notin {"scan", "closing"} THEN "holding"
    ELSE "in"

TicketOf(i, q) == IF q.snap = i THEN q.ticket ELSE 0

Budget(i) == INSTANCE RetryBudget WITH
    requests <- requests[i],
    retries  <- retries[i],
    stage    <- [r \in Requests |-> Use(i, req[r])],
    ticket   <- [r \in Requests |-> TicketOf(i, req[r])]

WithinBudget(r) == req[r].ticket <= Budget(req[r].snap)!Limit(requests[req[r].snap])

\* tryRetry compares its addition with the limit at the load of now; the retry
\* goes on to serve, which acquires the backend.
GrantRetry(r) ==
    /\ At(r, "asking")
    /\ WithinBudget(r)
    /\ req' = [req EXCEPT ![r].pc = "dial", ![r].ticket = 0]
    /\ active' = [active EXCEPT ![req[r].at] = @ + 1]
    /\ UNCHANGED <<current, health, circuits, requests, retries>>

\* Slip: the addition is taken back here and again in TakeBack.
RefuseAndTakeBack(r) ==
    /\ At(r, "asking")
    /\ ~WithinBudget(r)
    /\ req' = [req EXCEPT ![r].pc = "refused", ![r].ticket = 0]
    /\ retries' = [retries EXCEPT ![req[r].snap] = @ - 1]
    /\ UNCHANGED <<current, health, circuits, requests, active>>

\* Slip: a refused retry keeps asking until there is budget.
AskUntilGranted(r) ==
    /\ At(r, "asking")
    /\ ~WithinBudget(r)
    /\ req' = [req EXCEPT ![r].pc = "scan", ![r].ticket = 0, ![r].at = Nobody,
                          ![r].tried = @ \ {req[r].at}]
    /\ retries' = [retries EXCEPT ![req[r].snap] = @ - 1]
    /\ UNCHANGED <<current, health, circuits, requests, active>>

RefuseRetry(r) ==
    /\ At(r, "asking")
    /\ ~WithinBudget(r)
    /\ req' = [req EXCEPT ![r].pc = "refused", ![r].ticket = 0]
    /\ UNCHANGED <<current, health, circuits, requests, retries, active>>

\* The refused addition is taken back and the client told so.
TakeBack(r) ==
    /\ At(r, "refused")
    /\ Closes(r, "spent", TRUE)
    /\ retries' = [retries EXCEPT ![req[r].snap] = @ - 1]
    /\ UNCHANGED <<current, health, circuits, requests, active>>

-----------------------------------------------------------------------------
(* The exchange with the backend, inside ReverseProxy.ServeHTTP.           *)

\* The attempt failed before an answer began: ErrorHandler keeps the error.
Fails(r, err) ==
    /\ req' = [req EXCEPT ![r].pc = "failed", ![r].err = err]
    /\ UNCHANGED <<current, health, circuits, requests, retries, active>>

DialFails(r) == At(r, "dial") /\ req[r].at \in Faulty /\ Fails(r, "dial")

\* A connection is there and the request is written to it.
Send(r) ==
    /\ At(r, "dial")
    /\ req' = [req EXCEPT ![r].pc = "sent", ![r].seen = @ \cup {req[r].at}]
    /\ UNCHANGED <<current, health, circuits, requests, retries, active>>

\* The connection is reset, or the response timeout expires.
LoseAnswer(r) == At(r, "sent") /\ req[r].at \in Faulty /\ Fails(r, "lost")

\* The client hung up before the answer began: its context ends the attempt.
CancelAttempt(r) ==
    /\ req[r].pc \in {"dial", "sent"}
    /\ req[r].gone
    /\ Fails(r, "cancelled")

\* The request breaks off its own streamed body: the transport gives the backend
\* up, before its answer has begun or part way through it.
StreamsBroken(q) == q.body = "broken" /\ Streamed(q)

BreakBody(r) ==
    /\ req[r].pc \in {"sent", "streaming"}
    /\ StreamsBroken(req[r])
    /\ Fails(r, IF At(r, "sent") THEN "lost" ELSE "cut_off")

\* The status line and headers are passed on to the client.
Stream(r) ==
    /\ req' = [req EXCEPT ![r].pc = "streaming", ![r].replies = @ + 1]
    /\ UNCHANGED <<current, health, circuits, requests, retries, active>>

Answer(r) == At(r, "sent") /\ Stream(r)

\* ModifyResponse asks the settings of now, not of the request's snapshot,
\* whether a 5xx is a failed attempt.
JudgesAsFailure == Configs[current].retryOn5xx

Answer5xx(r) ==
    /\ At(r, "sent")
    /\ req[r].at \in Faulty
    /\ IF JudgesAsFailure THEN Fails(r, "5xx") ELSE Stream(r)

Complete(r) ==
    /\ At(r, "streaming")
    /\ req' = [req EXCEPT ![r].pc = "served"]
    /\ UNCHANGED <<current, health, circuits, requests, retries, active>>

\* The backend breaks the answer off: watchedBody notes it and the forwarder
\* panics.
CutOff(r) == At(r, "streaming") /\ req[r].at \in Faulty /\ Fails(r, "cut_off")

\* Writing to the client fails, because it hung up or let the write timeout pass:
\* the forwarder panics with nothing noted, so the deferred function goes
\* straight on unwinding.
LoseClient(r) ==
    /\ Impatient
    /\ At(r, "streaming")
    /\ req' = [req EXCEPT ![r].pc = "unwind", ![r].err = "client_lost"]
    /\ UNCHANGED <<current, health, circuits, requests, retries, active>>

-----------------------------------------------------------------------------
(* Reporting the outcome, and leaving the attempt.                         *)

Report(r, succeeded) ==
    health' = [health EXCEPT ![req[r].at] = AfterOutcome(@, succeeded, Health)]

\* succeeded: the checker first, then the breaker of the request's snapshot.
Credit(r) ==
    /\ At(r, "served")
    /\ Report(r, TRUE)
    /\ req' = [req EXCEPT ![r].pc = "credited"]
    /\ UNCHANGED <<current, circuits, requests, retries, active>>

\* Slip: the success is reported to the breaker of the settings of now.
CloseElsewhere(r) ==
    /\ At(r, "credited")
    /\ req' = [req EXCEPT ![r].pc = "unwind"]
    /\ circuits' = IF BreakerEnabled(current)
                   THEN [circuits EXCEPT ![current][req[r].at] = AfterSuccess(@)]
                   ELSE circuits
    /\ UNCHANGED <<current, health, requests, retries, active>>

CloseCircuit(r) ==
    /\ At(r, "credited")
    /\ req' = [req EXCEPT ![r].pc = "unwind"]
    /\ circuits' = IF BreakerEnabled(req[r].snap)
                   THEN [circuits EXCEPT ![req[r].snap][req[r].at] = AfterSuccess(@)]
                   ELSE circuits
    /\ UNCHANGED <<current, health, requests, retries, active>>

\* Slip: nobody asks whether the client is still there.
BlameAnyway(r) ==
    /\ At(r, "failed")
    /\ Report(r, FALSE)
    /\ req' = [req EXCEPT ![r].pc = "blamed"]
    /\ UNCHANGED <<current, circuits, requests, retries, active>>

\* serve, whether the answer was cut off or never began: a failure is the
\* backend's only while the client is still there.
Blame(r) ==
    /\ At(r, "failed")
    /\ ~req[r].gone
    /\ Report(r, FALSE)
    /\ req' = [req EXCEPT ![r].pc = "blamed"]
    /\ UNCHANGED <<current, circuits, requests, retries, active>>

Excuse(r) ==
    /\ At(r, "failed")
    /\ req[r].gone
    /\ req' = [req EXCEPT ![r].pc = "unwind"]
    /\ UNCHANGED <<current, health, circuits, requests, retries, active>>

TripCircuit(r) ==
    /\ At(r, "blamed")
    /\ req' = [req EXCEPT ![r].pc = "unwind"]
    /\ circuits' = IF BreakerEnabled(req[r].snap)
                   THEN [circuits EXCEPT ![req[r].snap][req[r].at] = AfterFailure(@)]
                   ELSE circuits
    /\ UNCHANGED <<current, health, requests, retries, active>>

\* The deferred releases of serve and try, which run on every way out of them.
Release(r) ==
    /\ At(r, "unwind")
    /\ active' = [active EXCEPT ![req[r].at] = @ - 1]
    /\ retries' = IF req[r].n > 0
                  THEN [retries EXCEPT ![req[r].snap] = @ - 1]
                  ELSE retries
    /\ UNCHANGED <<current, health, circuits, requests>>

\* The client was answered, in full or until the forwarder's panic.
LeaveAnswered(r) ==
    /\ Release(r)
    /\ \/ req[r].err = "none" /\ Closes(r, "answered", FALSE)
       \/ req[r].err \in {"cut_off", "client_lost"} /\ Closes(r, "aborted", FALSE)

\* Slip: an answer cut off part way counts as none.
UnansweredOrCutOff(r) == req[r].err \in {"dial", "lost", "5xx", "cancelled", "cut_off"}

Unanswered(r) == req[r].err \in {"dial", "lost", "5xx", "cancelled"}

\* Slip: the release of the backend is not deferred, and a return skips it.
LeaveHolding(r) ==
    /\ At(r, "unwind")
    /\ Unanswered(r) /\ req[r].gone
    /\ Closes(r, "gone", FALSE)
    /\ retries' = IF req[r].n > 0 THEN [retries EXCEPT ![req[r].snap] = @ - 1] ELSE retries
    /\ UNCHANGED <<current, health, circuits, requests, active>>

\* Nobody is left to answer.
LeaveGone(r) ==
    /\ Release(r)
    /\ Unanswered(r) /\ req[r].gone
    /\ Closes(r, "gone", FALSE)

\* Slip: every request is offered to the next backend.
AlwaysRetryable(r) == TRUE

\* retryable: idempotent, or no connection was ever made.
Retryable(r) == req[r].idempotent \/ req[r].err = "dial"

MoreAttempts(r) == req[r].n + 1 < Attempts(req[r].snap)

LeaveUnretried(r) ==
    /\ Release(r)
    /\ Unanswered(r) /\ ~req[r].gone
    /\ \/ MoreAttempts(r) /\ ~Retryable(r) /\ Closes(r, "not_retryable", TRUE)
       \/ ~MoreAttempts(r) /\ Closes(r, "no_backend", TRUE)

TryAgain(r) ==
    /\ Release(r)
    /\ Unanswered(r) /\ ~req[r].gone
    /\ MoreAttempts(r) /\ Retryable(r)
    /\ req' = [req EXCEPT ![r].pc = "scan", ![r].n = @ + 1,
                          ![r].at = Nobody, ![r].err = "none"]

\* Slip: the request leaves the load of the settings of now.
FinishElsewhere(r) ==
    /\ At(r, "closing")
    /\ req' = [req EXCEPT ![r].pc = "done"]
    /\ requests' = [requests EXCEPT ![current] = @ - 1]
    /\ UNCHANGED <<current, health, circuits, retries, active>>

\* The deferred requestFinished.
Finish(r) ==
    /\ At(r, "closing")
    /\ req' = [req EXCEPT ![r].pc = "done"]
    /\ requests' = [requests EXCEPT ![req[r].snap] = @ - 1]
    /\ UNCHANGED <<current, health, circuits, retries, active>>

\* The request's place is free for the next one.
Leave(r) ==
    /\ At(r, "done")
    /\ req' = [req EXCEPT ![r] = Fresh]
    /\ UNCHANGED <<current, health, circuits, requests, retries, active>>

-----------------------------------------------------------------------------
(* What happens around the requests.                                       *)

\* Nothing reads the request's context once it is leaving.
HangUp(r) ==
    /\ Impatient
    /\ req[r].pc \notin {"out", "closing", "done"}
    /\ ~req[r].gone
    /\ req' = [req EXCEPT ![r].gone = TRUE]
    /\ UNCHANGED <<current, health, circuits, requests, retries, active>>

\* Handler.Reload: the next snapshot, with a new breaker and a new budget.
Reload ==
    /\ current < Len(Configs)
    /\ current' = current + 1
    /\ UNCHANGED <<req, health, circuits, requests, retries, active>>

\* The checker, which knows every address here, records an active probe; only a
\* faulty backend fails one.
Probe(b) ==
    /\ b \in Probed
    /\ \E succeeded \in BOOLEAN :
          /\ succeeded \/ b \in Faulty
          /\ health' = [health EXCEPT ![b] = AfterOutcome(@, succeeded, Health)]
    /\ UNCHANGED <<current, req, circuits, requests, retries, active>>

\* The clock the open periods are measured by.
Tick ==
    /\ circuits' = [i \in Snapshots |-> [b \in Addrs |-> AfterTick(circuits[i][b])]]
    /\ UNCHANGED <<current, req, health, requests, retries, active>>

-----------------------------------------------------------------------------
\* What the goroutine serving a request does next.
Serve(r) ==
    \/ RefuseBody(r) \/ Start(r)
    \/ Scan(r) \/ PlaceFirst(r) \/ PlaceRetry(r) \/ NoBackend(r)
    \/ GrantRetry(r) \/ RefuseRetry(r) \/ TakeBack(r)
    \/ DialFails(r) \/ Send(r) \/ LoseAnswer(r) \/ CancelAttempt(r) \/ BreakBody(r)
    \/ Answer(r) \/ Answer5xx(r) \/ Complete(r) \/ CutOff(r) \/ LoseClient(r)
    \/ Credit(r) \/ CloseCircuit(r) \/ Blame(r) \/ Excuse(r) \/ TripCircuit(r)
    \/ LeaveAnswered(r) \/ LeaveGone(r) \/ LeaveUnretried(r) \/ TryAgain(r)
    \/ Finish(r) \/ Leave(r)

Next ==
    \/ \E r \in Requests : Arrive(r) \/ Serve(r) \/ HangUp(r)
    \/ \E b \in Addrs : Probe(b)
    \/ Reload
    \/ Tick

Spec == Init /\ [][Next]_vars

\* Nothing bounds how long a backend takes to read the request's body or to go on
\* with an answer it has begun: ResponseHeaderTimeout covers neither.  Only the
\* end of the client's context does.
Stalls(r) ==
    /\ req[r].at \in Faulty
    /\ ~req[r].gone
    /\ At(r, "streaming") \/ (At(r, "sent") /\ req[r].body # "none")

\* Every other wait of a request ends by the connect, response, read and write
\* timeouts, so its goroutine goes on; clients keep coming and the clock runs.
Fairness ==
    /\ \A r \in Requests : WF_vars(Serve(r) /\ ~Stalls(r)) /\ WF_vars(Arrive(r))
    /\ WF_vars(Tick)

LiveSpec == Spec /\ Fairness

\* No backend stalls for ever.
ExchangesEnd == \A r \in Requests : WF_vars(Serve(r))

EndingSpec == LiveSpec /\ ExchangesEnd

=============================================================================
