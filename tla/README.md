# A TLA+ development of ege-balancer

ege-balancer is an HTTP load balancer in Go: one process that accepts
connections, picks a backend for each request, forwards it with
`httputil.ReverseProxy`, retries on another backend when the failure policy
allows, watches the backends' health, and takes a new configuration on SIGHUP
while requests are in flight.  Beside it the repository has a mock backend, a
load generator and a demo console.  This directory models all of these in TLA+,
checks the models with TLC, and proves what matters most with TLAPS.

    tlc -workers 2 -config CoreRetry.cfg MCProxyCore     # one run
    tlapm ProxyCoreProofs.tla                            # one module of proofs

`PROJECT.json` lists every run, the line of source each definition stands for,
the mutation each property must notice, the hazards and the findings.


## 1. Inventory

Paths are relative to `src/internal/` unless they begin with `cmd/`.

| component | state | operations | status |
|---|---|---|---|
| forwarding core, `proxy/proxy.go`, `proxy/idempotency.go` | `current` (atomic pointer to an immutable `settings`), locals of each request | `ServeHTTP`, `replayableBody`, `available`, `place`, `try`, `serve`, `succeeded`, `failed`, `Reload` | modelled |
| retry budget, `proxy/retrybudget.go` | atomics `requests`, `retries` | `requestStarted/Finished`, `tryRetry`, `retryFinished`, `limit` | modelled |
| circuit breaker, `proxy/breaker.go` | map address → (failures, openedUntil, probing), mutex | `allow`, `recordSuccess`, `recordFailure` | modelled |
| health checker, `health/health.go` | map address → (healthy, failures, successes), settings, context of the loops, RWMutex | `Start`, `Reload`, `IsHealthy`, `ReportSuccess/Failure`, one probe goroutine per backend | modelled |
| application, `app/app.go`, `config/reload.go` | running configuration, pool | `Run`, `Reload` of handler, checker and pool, `RequiresRestart` | modelled |
| strategies, `balancer/` | round-robin counter, credits, connection counters | `Select`, `SelectRetry`, `MergeBackends`, `Acquire/Release` | modelled |
| consistent hashing, `balancer/consistenthash.go`, `proxy/hashing.go` | none of its own | `SelectFor`, `Home`, `room`, `choose` | modelled |
| sticky sessions, `proxy/sticky.go` | the cookie in the client | `read`, `renew`, `place` | modelled |
| rate limiter, `proxy/ratelimit.go` | map client → (tokens, lastSeen), mutex | `allow`, `setRate`, `sweep` | modelled |
| servers, `server/` | slots of the limit listener, phase | `Accept`, `Close`, `Run`, `shutdown` | modelled |
| readiness and status, `observability/probes.go`, `pool.go` | pool pointer, draining flag | `ReadyHandler`, `anyHealthy`, `Drain`; `/status` | partly: `/status` only reports |
| signals and entry point, `cmd/lb` | two channels with one place each | `reloadOn`; flags, probe command | partly: flags and probe are I/O |
| configuration, `config/` | a value | `Load`: defaults, validation | partly: the text itself is not |
| mock backend, `cmd/mockbackend` | workers and queue, faults, clock, LRU cache | `admit`, `serve`, `hang`, faults, shutdown, `seen` | partly: no latency sampling, cold start or scheduled pause |
| demo console, `cmd/demo` | the file, the stream, the book of faults | the menu's choices, reset, leave | partly: what is only printed is left out |
| load generator, `cmd/loadgen` | samples, two readings of the counters | `run`, `drive`, `distribution`, `percentile` | partly: sessions and printing are left out |
| request validation, identifiers, buffers | none across steps | | not modelled |
| metrics, logging | Prometheus counters | | not modelled: nothing reads them |

**How they interact.**  A connection takes a slot of the limit listener and is
served by `net/http`.  A request passes the rate limiter and the validation, and
reaches `Core.ServeHTTP`, which loads `current` once and takes the pool, the
strategy, the failure policy, the breaker and the budget from the snapshot.  For
each attempt it asks the health checker and the breaker about every backend it
has not tried, lets the sticky session or the strategy choose, asks the budget
if this is a retry, and forwards.  The outcome goes to the checker (shared by all
snapshots) and to the breaker (of the request's snapshot).  Meanwhile every probe
loop reports to the checker, and a signal, passed on by `reloadOn`, makes
`App.Reload` replace first the handler's snapshot, then the checker's backends,
then the pool that readiness reads.  The console edits the file, signals, and
polls `/status` until a reload has been counted.

**What is hard.**  Nothing is serialised above single atomic operations and
short critical sections, so:

* a decision and the action it leads to are separate steps: `available` reads
  health and breaker one backend after another; `tryRetry` adds, compares and
  takes back in three atomic operations; least connections and the bound of
  consistent hashing read counters that move before `Acquire`; the rate limiter
  reads the time before it takes its lock; readiness asks one backend after
  another while a reload forgets them;
* an attempt can end by a dial failure, a lost answer, a 5xx, an answer cut off
  part way (the forwarder panics), a client that hangs up at any point, or one
  that stops reading; each way out must release the backend, the retry
  and the place in the load, once;
* a failure may be the client's: its hang-up cancels the attempt, which must not
  count against the backend; and where there are no retries its body is streamed,
  so that a body it breaks off breaks the exchange;
* a request outlives reloads, and its outcome arrives at a checker that has
  other thresholds, or no longer knows the backend, or knows it again;
* probe loops of a replaced configuration are cancelled, not joined, and may
  still record;
* signals are coalesced, and one may arrive while its predecessor is being
  applied or the file rewritten;
* a shutdown races the connections being accepted, and waits for an accept loop
  that may wait for a slot;
* answers to several requests of one client set its cookie in any order;
* the console drives a stack that answers late, or not at all.

**What makes each component correct.**

* Core: no second effect of a non-idempotent request; one response per request;
  exact connection counters; everything reserved is given back where it was
  taken; a backend is blamed for no hang-up; what an attempt did is told to the
  breaker it was admitted by; failing probes turn no request away while there is
  something left to try; a request ends unless its exchange stalls for ever.
* Budget: retries in flight capped by the load.
* Breaker: opens on unbroken runs of failures, shuts out for a whole period,
  then admits one probe at a time.
* Checker: one live loop per known backend; health decided by unbroken runs, by
  nothing else, and across reloads; it follows a backend that settles; cancelled
  loops return.
* Application: all parts hold one valid configuration between reloads; no
  hang-up is lost; the admin server outlives the traffic server; never half
  alive, unless the traffic server cannot finish its shutdown.
* Strategies: rounds are fair, credits stay bounded, a placement misses its
  bound only by what moved meanwhile.
* Sticky sessions: a client is moved only from a backend that was lost.
* Rate limiter: nobody exceeds the burst and what time refills; the sweep is
  not noticed.
* Servers: slots come back exactly once; drained means drained.
* Configuration: what is accepted can be run.
* Tools: the console leaves nothing behind, the generator measures each request
  of its window once.


## 2. Modules

| module | models |
|---|---|
| `RetryBudget`, `RetryBudgetPeak` | the two counters, each atomic operation a step; + history: the highest load so far |
| `Circuit`, `Breaker`, `BreakerHistory` | one backend's record and each operation on it; a breaker with a clock and any caller; + history and the properties |
| `HealthState`, `HealthChecker` | one backend's record; probe loops of every configuration, reloads, shutdown, reports of the proxy |
| `HealthHistory`, `HealthProperties` | + history: the unbroken run of outcomes since a backend became known; liveness |
| `ProxyCore`, `ProxyCoreProperties` | `Core.ServeHTTP` for concurrent requests, over `Circuit`, `HealthState` and the budget; its properties and refinements |
| `BreakerUse` | abstract specification: how the requests of one snapshot may use its breaker |
| `Lifecycle`, `Reload`, `Application`, `ApplicationProperties` | the two servers and what ends them; signal, relay, file and the parts of a reload; both with readiness; the properties |
| `Server`, `ServerProperties` | slots, accept loop, connections, graceful shutdown |
| `RateLimiter`, `RateLimiterHistory` | buckets, the time read early, rates, the sweep; + history: the allowance of each client, and a bucket that is never swept |
| `Turns` | round robin and smooth weighted round robin, over changing candidates and weights |
| `Placement` | consistent hashing with its bound and least connections, one counter read at a time |
| `Sticky` | the cookie of one client over attempts, reloads and concurrent requests |
| `Configuration` | defaults and validation |
| `MockBackend`, `SessionCache` | admission, faults, clock, shutdown; the LRU cache |
| `Console`, `LoadGenerator` | the demo console; a run of the load generator and its figures |
| `MC*` | constants for TLC; `MCParts` and `MCTools` put parts that share no state into one run |
| `*Proofs` | theorems: `ProxyCoreProofs`, `HealthProofs`, `ApplicationProofs`, `RateLimiterProofs`; `GuardsProofs` for the budget, the breaker, the server and the configuration, `StrategiesProofs` for turns, credits, placement and sticky sessions, `ToolsProofs` for the console, the generator and the cache |
| `Sums` | lemmas: what the models add up over finite sets, and induction over these |

`Circuit` and `HealthState` hold what one record does; both the component's own
module and `ProxyCore` are built from them, so that the core and the component
cannot disagree.  `RetryBudget` and `BreakerUse` serve as the abstract
specifications of how the core may use its budget and its breaker:
`BudgetsRespected` and `BreakersRespected` say that the core implements an
instance of each for every snapshot, under a refinement mapping from the
requests' places in the code.  `BreakerUse` takes `Breaker`'s operations and adds
who may call which: a request asks, chooses an admitted backend if there is one,
and reports the outcome of its attempt, once, for the backend it was at, to the
breaker it asked.  An outcome told to the breaker of another snapshot is a step
of neither breaker's users.
`Application` composes `Lifecycle` and
`Reload` over the variables they share.

### Correspondence

`PROJECT.json` maps each definition to its lines.  The main points:

* **The core's steps.**  A request's `pc` is its place in `ServeHTTP`.  A step is
  one access to shared state with the local work around it: `Scan` is one turn
  of the loop in `available` (`IsHealthy`, then `allow`), `PlaceRetry` and
  `GrantRetry`/`RefuseRetry`/`TakeBack` are the atomic operations of `tryRetry`,
  `Credit` and `CloseCircuit` the two calls of `succeeded`, `Blame` and
  `TripCircuit` those of `failed`, `LeaveX`/`TryAgain` the deferred releases with
  what `ServeHTTP` does next, `Finish` the deferred `requestFinished`.
* **Steps taken together.**  `Scan` does `IsHealthy` and `allow` of the same
  backend in one step, `PlaceFirst` and `GrantRetry` include `Acquire`, and the
  two releases of an attempt are one step.  In each case the second access
  either commutes with all that others do or is of another variable nobody
  compares with the first.
* **Bodies.**  With retries a body is read before the first attempt, and one that
  cannot be read ends the request.  Without, it is streamed: a connected client
  that sends it malformed, or not in time, fails the attempt (`BreakBody`),
  before the answer or in the middle of it.
* **Panics.**  An answer cut off part way makes `ReverseProxy` panic; the model
  takes the deferred functions in their order, so `CutOff` leads to `failed`
  and `LoseClient` to `unwind`, and both to `LeaveAnswered`.
* **Strategy and pin** are any member of the candidates in the core: what holds
  there holds under every algorithm of `balancer/` and every cookie.  The
  algorithms have modules of their own.
* **The transport** is external: an attempt fails to dial, is sent, loses its
  answer, is answered with a 5xx or another status, completes or is cut off.
  `net/http`'s own retry of an idempotent request on a stale pooled connection
  stays inside `dial`/`sent`.  A faulty backend also may stall.  In `Server`,
  what `net/http` does with a connection is external too, and modelled as the
  code relies on it: `Serve` tracks what `Accept` returned, `Shutdown` waits for
  `Serve`, then closes idle connections until none is left.
* **Time** is a clock of ticks where a period matters (breaker, rate limiter,
  mock backend, faults); elsewhere a timeout is an event that may happen
  whenever its wait goes on.  In the mock backend ticks are long beside what
  needs no waiting.
* **Reload.**  The file is written in two steps, so that it can be read
  unfinished.  Parts are given the new version one after another; `given` holds
  the version of each, and `Files` what a version says.
* **Placement.**  The bound is computed exactly, where the code multiplies
  floats.  A key is the order its hashes put the backends in.  Weights do not
  change while a request is placed.
* **Sticky.**  A token is the backend it names: made from a secret and an
  address, it means the same under every configuration.
* **Rate limiter.**  Tokens are counted in whole shares, `TicksPerSecond` to a
  token; a caller's time may be up to `MaxDelay` ticks old when it gets the lock.
* **Configuration.**  A setting is a word or a number that is absent, at a
  boundary or beyond it; durations are numbers, and names are well formed or not.
* **Console.**  Of the file only what the console may change; whatever it asks
  of the stack may fail, and a stack that fails is bounded by `MaxMishaps`.
  File reads and writes succeed.  A service is asked for one kind of fault,
  those in `Freezing` for a freeze, which the backend never shortens, the others
  for one whose latest end counts, as every kind's does in the book.
* **Load generator.**  One counter stands for those the balancer shows.
* **Bounds in the modules.**  `CounterCap` caps the streaks of the checker at the
  largest threshold, above which the code compares no further; an open circuit
  counts down to the end of its period.  In `HealthChecker` one outcome of each kind
  waits to be reported per backend.  `moves` in `Placement` stops one above the
  number of requests, where the property claims nothing more.  `Injections`,
  `MaxEdits`, `MaxMishaps`, `MaxSends` and `MaxSorted` bound what an operator or a
  run does.  The first two hide no behaviour: a streak beyond the threshold acts as
  one at it, and a second equal report acts as the first reported again.


## 3. Runs

All states are explored; the numbers are distinct states.

| run | shows | bounds, and why they are enough |
|---|---|---|
| `core_retry` | `AtMostOnceUnlessIdempotent`, `PoolExhausted`, `TypeOK` | 2 requests, 3 backends that all fail, no breaker, 3 retries each, one retry in flight: each combination of failures, contention for the budget, a request that runs out of backends (2.9 M) |
| `core_reload` | `AnsweredOnce`, `ActiveExact`, `OnlyTheFaultyAreBlamed`, `BudgetsRespected`, `BreakersRespected` | 2 requests across a reload from the breaker, whose only backend never fails, to retries with a second backend that does; bodies that break off, streamed before the reload (so that circuits open) and buffered after it; clients hang up anywhere.  An outcome that comes after the reload still belongs to the breaker before it; that several snapshots have a breaker is covered by the theorem `BreakersUsedAsMeant` only (1.7 M) |
| `core_live` | `EveryRequestEnds` | 2 requests, 2 backends of which one fails or stalls, hang-ups, bodies of known and unknown length (450 k) |
| `application` | `PartsAgree`, `AdminOutlivesTraffic`, `SteadyIsReady`, `HangUpsAreHeeded`, `NeverHalfAlive` | 3 files, one invalid, one that leaves a single backend and changes the algorithm; that backend changes its health, so that readiness is refused; a signal, a broken server, requests for readiness at any time (153 k) |
| `parts` | the properties of the budget, breaker, limiter, checker, server, strategies, sticky sessions, configuration, mock backend and cache | see below; a behaviour follows one part (130 k) |
| `tools` | `QuitRestores`, `ConfirmedIsApplied`, `NothingLeftBehind`; `ReportCountsTheRun`, `FiguresHold` | 2 backends, 3 changes of the file (one that is given up on may land during the next), 1 failing request of the stack, an interrupt anywhere, one backend that is asked to freeze, faults of 1 or 2 ticks; 2 drivers with 2 requests; 4 latencies in 2 bands (5.2 M) |

In `parts`:

| part | properties | bounds |
|---|---|---|
| budget | `RetriesWithinPeak` | 4 requests at 50 %: limits 1, 1, 1, 1, 2, so that the minimum and the share both decide |
| breaker | `TrippedByAnUnbrokenRun`, `OneProbePerOutcome`, `ShutOutForThePeriod` | 2 backends, threshold 3 (runs that are broken), a period of 2 ticks (asking too early) |
| limiter | `WithinTheRate`, `SweepUnseen` | 2 clients, rates 1, off, 2, 1; 2 ticks a second, a reading up to 1 tick old, a sweep whenever a bucket is tracked |
| health | `OneLoopEach`, `RunsDecide`, `OnlyRunsDecide`, `FollowsTheBackend`, `LoopsReturn` | 1 backend, 4 configurations: a threshold falls under a streak, the backend is dropped and comes back while probes of its first time may be pending.  Backends share nothing but the reloads |
| server | `SlotsExact`, `DrainedMeansDrained`, `ShutdownEnds` | 4 connections, 3 slots: one waits in the queue, one for a slot |
| turns | `RoundsAreFair`, `CreditsBounded` | 3 backends, every subset of them as candidates at every turn, a counter of 2 bits that wraps; weights 1, 2, 3 become 3, 0, 1; the credits add up to zero and stay within the heaviest weight times the other backends |
| placement | `PlacedByLoad` | 2 requests that come and go, 2 backends of weights 1 and 2, a factor of 100 % (no slack), a key whose order is not the pool's |
| sticky | `PinsHold` | 2 concurrent requests of a client, 3 configurations: a backend leaves, returns, retries and stickiness go |
| config | `AcceptedIsUsable` | each setting of a valid file replaced by each of its other classes of value, under each policy and algorithm |
| mock | `NothingHeldForGood` | 3 requests, 1 worker, a queue of 1, 1 fault injected in all; one request with a body |
| cache | `RemembersTheLatest` | 3 sessions, 2 remembered |

Symmetry over requests is used in `core_retry` and `core_reload` only; the
requests appear nowhere asymmetrically.  Deadlock is checked in the core's runs
and in `health_reload`.  The application, the mock backend and the tools end by
design, and so do the parts they share a run with.

### Runs that must fail: findings

Each checks one statement the repository makes and the code does not keep.

* `core_probe`, **ProbesReport**.  `available` calls `allow` for every untried
  backend, and `allow` marks the probe of an elapsed circuit as taken even if
  another backend is then chosen.  Nobody reports, and `allow` refuses the
  backend from then on as long as another backend is fit.  `breaker.go:12`: "After
  the open period one request is let through as a probe: if it succeeds the
  backend is taken back, otherwise the backend is shut out for another period."
* `core_shutout`, **TrippedAreShutOut**.  When no backend is both healthy and
  admitted by its circuit, `available` returns all that were not tried
  (`proxy.go:383`), the tripped ones included.  With every circuit open and every
  backend healthy, traffic goes on to backends whose open period is running.
  `breaker.go:10`: the breaker "keeps a backend that fails repeatedly out of
  selection for a while, independently of health checking"; `proxy.go:361`: "healthy,
  not tripped by the circuit breaker"; the design document v1.8, line 585: "While
  Open, and while a half-open probe is in flight, the backend is excluded from
  selection".  The exception the comment makes (`proxy.go:364`) is for a pool that
  *health checking* has emptied; that side of it is `PoolExhausted`.
* `core_judge`, **JudgedByItsSnapshot**.  `ModifyResponse` reads `retryOn5xx` from the
  settings of now.  `proxy.go:210`: "One snapshot for the whole request: a
  reload part way through must not change the rules this request is being judged
  by."
* `health_reload`, **ReloadsKeepTheHealthy**.  A probe cancelled by a reload is
  recorded as a failure; two quick reloads take a backend that never failed out of
  the pool.  `health.go:75`: "Backends that survive the change keep their health
  and their streak."
* `server_grace`, **GraceIsKept**.  With the connection limit reached as the
  shutdown begins, the accept loop waits for a slot and `Shutdown` for the accept
  loop; the grace ends only the second of these waits, and closes nothing.
  `server.go:17`: "how long in-flight requests may take to finish once a shutdown
  has been requested"; `server.go:104`: "forcing the remaining connections closed
  if they outlast the grace period".
* `app_restart`, **WarnedOfWhatRuns**.  `Reload` records what it was given as what
  runs, settings it could not apply included; the next reload compares with
  those.  `config/reload.go:5`: "the settings that differ between the running
  configuration and a newly read one but cannot be applied while serving".

### Fairness

* `ProxyCore`: weak fairness of each request's goroutine, except in an exchange
  that stalls (`Stalls`).  The dial, response, read and write timeouts end every
  other wait, so some step is always taken at last; which one is left open.  No
  timeout covers a backend that reads a body or goes on with an answer too
  slowly: `ResponseHeaderTimeout` ends the wait for headers only, once the request
  is written, and only the end of the client's context ends such an exchange.
  `EveryRequestEnds` therefore says: a request is over at last, or it stalls for
  ever.  `core_probe` assumes besides that no exchange stalls for ever
  (`EndingSpec`), and that clients and the clock go on (`Arrive`, `Tick`), so that
  its counterexample rests on neither; `core_live` needs none of these.  Nothing is
  assumed of clients hanging up, backends recovering, probes or reloads.
* `HealthChecker`: weak fairness of each probe goroutine (the probe timeout ends
  `client.Do`, tickers fire), and strong fairness of `LoopReturns`, because a Go
  `select` with two ready cases picks one at random: the ticker cannot win for
  ever.  One condition serves all loops, since none that has returned comes back.
* `Application`: weak fairness of the goroutines that relay and apply reloads
  and that drain and shut down the servers.  The admin server's shutdown ends,
  by its grace; the traffic server's need not, since with the connection limit
  reached it outlasts the grace (`GraceIsKept`), and `NeverHalfAlive` says what
  holds then: the process is draining, and nothing else.  There is strong
  fairness of the two `select`s that leave their loop on the context, for the
  same reason as above.  Not fair: the operator, the signals, what breaks, and
  how health turns.
* `Server`: goroutines run, the grace passes, and connections without a request
  are closed by a timeout (`validateTimeouts` makes them positive); `Accept` does
  not fail for ever.  `RequestsEnd` (no client keeps a request going for ever) is
  assumed in `parts` and not in `server_grace`.
* `MockBackend`: its goroutines run, clocks tick, and the client gives up at last,
  as the balancer's response timeout makes it.
* The tools' properties are safety; no fairness is assumed of an operator.


## 4. Proofs

Every theorem holds for all values of the constants that satisfy the named
assumptions: any number of requests, backends, connections, clients, drivers,
configurations and reloads, any thresholds, limits, weights, rates and periods.
Every safety property that a passing run checks, the two refinements included, is
proved; what the runs add is liveness, and that the properties are not vacuous
(each has a mutation of the code that breaks it).

| module | theorems | state |
|---|---|---|
| `ProxyCoreProofs` | `TypeCorrect`, `AtMostOnce`, `OneResponse`, `LoadCounted`, `EveryBackendTried`, `CleanRecord` | `TypeOK`, `AtMostOnceUnlessIdempotent`, `AnsweredOnce`, `ActiveExact`, `PoolExhausted`, `OnlyTheFaultyAreBlamed` |
| | `BudgetsCounted`, `BudgetsUsedAsMeant`, `BreakersUsedAsMeant` | exact budgets; the refinements `BudgetsRespected` and `BreakersRespected` |
| `HealthProofs` | `TypeCorrect`, `WatchedOnce`, `DecidedByRuns`, `DecidedByRunsOnly` | types, `OneLoopEach`, `RunsDecide`, `OnlyRunsDecide` |
| `ApplicationProofs` | `ApplicationTypes`, `PartsAgreeAlways`, `NeverGoesBack`, `AdminIsLast`, `SteadyIsSeen` | types, the safety of `application`, and `NeverBack` |
| `GuardsProofs` | `BudgetTypeCorrect`, `CountersExact`, `RetriesCapped` | types, exact counters, `RetriesWithinPeak` |
| | `BreakerTypeCorrect`, `TripsOnRuns`, `SingleProbe`, `ShutOut` | types and the three properties of the breaker |
| | `ServerTypes`, `SlotsAreExact`, `DrainedIsDrained` | types, `SlotsExact`, `DrainedMeansDrained` |
| | `ConfigurationsAreUsable` | `AcceptedIsUsable` |
| `RateLimiterProofs` | `LimiterTypes`, `RateIsKept`, `SweepingIsUnseen` | types, `WithinTheRate`, `SweepUnseen` |
| `StrategiesProofs` | `RoundsStayFair`, `CreditsStayBounded`, `PlacementsAreByLoad` | `RoundsAreFair`, `CreditsBounded`, `PlacedByLoad` |
| | `PinsAreHeld`, from `MovedIsLost` and `AnswersDoPin` | `PinsHold` |
| `ToolsProofs` | `QuitLeavesTheFile`, `AppliedWhenConfirmed`, `NothingStays` | `QuitRestores`, `ConfirmedIsApplied`, `NothingLeftBehind` |
| | `ReportIsOfTheRun`, `FiguresAlwaysHold`, `CacheRemembers` | `ReportCountsTheRun`, `FiguresHold`, `RemembersTheLatest` |

Each rests on an inductive invariant stronger than the property.

* **Core.**  `IInv` has a part for each request (`Sound`) and one for the shared
  counters (`Exact`).  `Sound` says what a request's record must be at each place
  in the code.  `SentOnce`: a non-idempotent request with a backend in `seen` is
  past the point of another attempt unless that attempt's error is `dial`, and a
  `dial` error means this attempt sent nothing.  `RepliedOnce`: no reply has begun
  wherever an error page or another attempt is still possible.
  `BlamesTheFaulty`: an attempt that has failed has lost its client, is at a
  faulty backend or has a broken body that was streamed; the check of `gone` before
  `Blame` leaves the last two.  `CleanRecord` is an action property: by
  `HealthStep` and `CircuitStep` only `Blame` and `TripCircuit` add to a failure count,
  of the backend and the breaker of their own request.
  `TriesOthers`: each attempt is at a backend that none before it was at, so the
  backends tried count the attempts; hence `PoolExhausted`, which is about
  snapshots without a breaker.
  `Exact`: the two counters of each snapshot's budget and the load of each backend
  are the numbers of requests at the places between adding and taking back.  Its
  proof rests on one fact per step, `Balanced`: a step of one request changes each
  counter by what that request itself begins or stops to add, whatever the others
  do.  That covers each way out of an attempt, panics included.
  For the refinements, a step takes each snapshot's budget through at most one of
  the budget's own steps.  For the breakers, a step of a request is a step of
  `BreakerUse` for the snapshot it started with (`UseStep`, one lemma for each form
  of step), and leaves the users of every other snapshot as they are (`UseElsewhere`).
* **Budget.**  That retries stay within the peak limit does not follow from the
  exact counters: a granted ticket was within the limit *when compared*, but
  others may be granted later.  The strengthening is that the tickets still
  being compared, together with those holding a retry, ration the counter: for
  every L from the limit at the peak on, the holders and the askers with a ticket up
  to L are no more than L (`TicketsRation`).
* **Breaker.**  The history variables (run, probes, age of the last failure)
  are tied to the record of each backend; the three properties then follow state by
  state.
* **Checker.**  `OneLoopEach` needs that no loop exists for a generation to come.
  `RunsDecide` needs that each streak in the record is the capped length of the
  run in the history, across the reloads that keep a record and those that
  begin a new one.
* **Rate limiter.**  The history gives each client the allowance the rate entitles
  it to.  The invariant is that it covers all the bucket can pay out: the tokens
  now in it and those its age refills, up to the burst.  Readings that
  are late take the lock in any order, so the age may be one of the past: what
  counts for the sweep is the age less the greatest delay, and a bucket that old
  has a full allowance.
* **Sweep.**  `Alike`: a bucket that is kept is that of the limiter that never
  sweeps, and where one was swept, what the other lacks is old enough to be full for
  any caller there can be.  Each change of the rate may raise what is missing from a
  bucket, and late readings may make an idle bucket look younger; `Debt`, the idle
  time less a second and the delay, is the room left for both, and `Solvent` says
  that a bucket has not used it up.  `LimiterAssumption` asks that this room be
  enough for every rate there will be, since a debt made under a high rate is paid
  back slowly under a low one: with the ten minutes of the code and readings a few
  milliseconds late, it is.
* **Server.**  `Orderly` ties the phase of the shutdown to the acceptor and the
  connections: from the moment the acceptor has returned none is queued or
  accepted without being tracked, which is what lets the last poll decide.
* **Configuration.**  A configuration in use has passed validation, and each of its
  settings is among the values that the defaults leave (`Fits`).
* **Application.**  `Staged` says which parts have the version the reloader is
  carrying, at each of its stages; `TrafficFirst` orders the two servers through
  every way of ending; `SteadyLeft` says that a backend steady since the request
  for readiness began is still to be asked, under the pool the request read.
* **Turns.**  Every index below the number of candidates is some candidate's, so
  each turn finds a backend, and two turns of the counter less than a round apart
  leave different remainders.
* **Credits.**  That every credit is within its bound is not inductive by itself.
  The invariant (`Credits`) is about *sets* of backends: the credits of k of the n
  backends add up to at most k(n − k) times the heaviest weight.  A charge lets every
  candidate gain its weight and takes the total from the richest; `ChargeArithmetic` is
  the case of a set that gains without the richest, whose credit bounds the
  others' from above.  With k = 1 and k = n − 1 this is `CreditsBounded`.  The
  bound one would expect, the sum of the weights, is false: TLC finds a credit
  beyond it with five backends of weights 1, 1, 1, 3, 3 and changing candidates.
* **Placement.**  The invariant (`Placing`) says what a request knows of counters it
  read one by one, m moves of them later: the sum it has so far, which backends were
  full, the counter read first.  By `Shift`, each `Acquire` or `Release` of another
  request weakens all this by one.  That a request which finds no room has seen a move
  rests on `SomeRoom`: the bounds of the candidates add up to more than the
  requests in flight.  This needs a factor of 100 % at least, and counters that are never
  negative, hence `CountersExact` in the invariant.
* **Sticky.**  `Pinning`: the cookie of an answer under way names the backend that
  gives it, and is there only if another was pinned or none.
* **Console.**  While nothing has failed, three things are known wherever the
  console is: how far the reload of the last change has come (`ReloadKnown`),
  that the usual limit is in the file or kept by the choice that lowered it
  (`LimitKnown`), and that every fault but a freeze is in the book for as long
  as it goes on, at least (`FaultsKnown`).  `QuitRestores` is proved without
  that condition (`QuitIsRestoring`).
* **Load generator.**  `Tallied`: the requests of the window are those recorded and
  those under way that will be, summed over the drivers; `Moving` and `Reported` tie
  the counters to the readings.  `FiguresHold` rests on two facts about an ascending run:
  each number is in exactly one band, and the members up to a rank are at least
  as many as the rank and those below it fewer.
* **Cache.**  The history has each session once, the latest first; the list is its
  beginning, as far as there is room, and the map holds what the list holds.

`Sums` stands under the proofs of the strategies and the tools.  The library's
induction theorems take an operator as a parameter, which the installed provers
cannot instantiate; `Counting` and `Gathering` state induction over naturals and
over finite sets with a *set* in the place of the property, and from them come
the lemmas on `SumFunctionOnSet`: how a sum grows by a member, changes with one
value, is bounded by another.

Model-checked only: the liveness properties `EveryRequestEnds`,
`FollowsTheBackend`, `LoopsReturn`, `HangUpsAreHeeded`, `NeverHalfAlive`,
`ShutdownEnds` and `NothingHeldForGood`, since liveness under fairness needs
`ENABLED`, which is beyond the prover; and the six findings, which are
counterexamples.  The mock backend, whose only property is one of liveness, has no
theorem.


## 5. Observations

Seen while modelling, and not given a run of their own.

* Without retries a request's body is streamed (`proxy.go:399`).  When a connected
  client sends it malformed, or lets the read timeout pass, the exchange fails and
  `serve` counts it against the backend (`proxy.go:318`, `proxy.go:336`): the two tests
  of `r.Context().Err()` tell hang-ups apart and nothing else.  The comments there
  speak of hang-ups only, so this is no finding; `OnlyTheFaultyAreBlamed` says
  exactly how far it goes.
* An exchange in which the backend stalls after its headers, or while it reads the
  body, is ended by nothing but the client (`proxy.go:493`).
* A retry budget of `.nan` percent passes the validation (`validate.go:54`: neither
  comparison holds) and `limit` then converts a NaN to an integer, which Go leaves
  to the implementation.  The model's settings are numbers; `AcceptedIsUsable` does
  not speak of this one.
* Additions about to be taken back count against concurrent calls: `tryRetry`
  (`retrybudget.go:41`) may refuse although the budget is not spent, and so may
  `admit` of the mock backend.
* A request of the mock backend waits for a freeze as it was when it looked
  (`clock.go:106`): neither thawing nor the shutdown wakes it, though
  `cmd/mockbackend/main.go:91` thaws so that requests can drain.
* The round-robin turn jumps when the counter wraps at 2^64, unless the pool
  divides it; `RoundsAreFair` is stated up to the wrap.
* When the load generator could not read the counters before its window, it
  reports everything since the balancer started (`metrics.go:99`);
  `ReportCountsTheRun` holds of readings that succeeded.
* `percentile` takes the rank above the nearest one when the share is a whole
  number of answers (`result.go:285`); `FiguresHold` allows either.
* The console's `reset` and `leave` clear only what the status document names, and
  forget the whole book: with a status that cannot be read, faults go on unseen.
  A demonstration of the rate limit whose signal fails leaves the limit lowered,
  and the stream stopped.  `NothingLeftBehind` is therefore stated of runs in
  which nothing failed; `QuitRestores` needs no such condition.
* `Pool.Reload` counts the reload before `SetSticky` is called, so for a moment
  the status says the new configuration is in force with the old sticky mode;
  `ConfirmedIsApplied` makes the exception.
* The mock backend never shortens a freeze (`clock.go:80`), while the console's
  book lets the end of the latest one asked for count (`cmd/demo/faults.go:191`).
  After a freeze and a shorter one the book is empty too early, and quitting clears
  nothing, where `cmd/demo/README.md:72` says "quitting clears the ones the console
  started".  `stack.fault` in `Console` does as the backend does (`InForce`);
  `NothingLeftBehind` is stated of every fault but a freeze.
* A reload the console has given up on may land during the next change and be taken
  for it, since both only raise a counter (`environment.go:159`); this needs a
  failure, which `ConfirmedIsApplied` excludes.


## 6. Plan

1. *(done)* budget, breaker, checker, core; then the application, the servers,
   the rate limiter, the strategies, sticky sessions, the configuration, and the
   programs beside the balancer; the proofs above.
2. *(done)* the rest of the safety: the refinements of the core and its counters,
   the sweep, the credits and placements of the strategies, the configuration, the
   cache, the console and the generator.
3. The core over a checker that a reload changes: in `ProxyCore` the checker knows
   every address throughout and has one set of thresholds, in `HealthChecker` the
   proxy reports anything.  Each is checked against the other's interface, and
   the two together are not.
4. Safety of the mock backend worth a run and a theorem: its workers and places in
   the queue are taken and given back once each.


## 7. What is not modelled, and what is assumed

* Metrics and log lines: nothing reads them.  Reason labels (`proxy/reason.go`)
  feed the metrics only.
* Request validation, request identifiers and buffer pools: checks and helpers
  without state across requests.
* `/status`, the collector, flags and the probe command: they report or parse.
* In the configuration: YAML, the form of addresses and header names, durations
  as text, warnings.
* In the mock backend: latency sampling, cold starts and scheduled pauses, which
  only draw how long an answer takes.
* In the console: the stream's requests, what a measurement prints, and how lines
  of the file are rewritten.  In the load generator: sessions and their cookies,
  the kinds of failure, the count of the client's own retries.
* Contents of headers and bodies, the wording of answers, TLS, WebSocket upgrades
  and other hijacked connections.
* `limit()` multiplies floats; the model takes `budget_percent` to be an integer,
  for which the truncation is exact division, and never a NaN.  The load bound of
  consistent hashing is computed exactly likewise.
* What validation guarantees (a positive budget, thresholds of at least one,
  positive timeouts, a load factor of none or 100 % at least) is assumed by name
  where it is used: `BudgetAssumption`, `CircuitAssumption`, `CheckerAssumption`,
  `CoreAssumption`, `PlacementAssumption`, `ServerAssumption`, `StickyAssumption`,
  `CacheAssumption`; `AcceptedIsUsable` says that `Load` gives it.
* Of its own a proof assumes little more: sets of requests, clients, connections,
  drivers and backends are finite where something is counted over them; no
  two backends have the same place in a key's order (`PlacementAssumption`); the
  width of the round-robin counter makes a number of turns (`TurnsAssumption`); the
  bands of the distribution ascend (`LoadAssumption`); the files of
  `Configuration` are made of its kinds of value (`ConfigurationAssumption`); a
  bucket is kept idle for long enough to be full under any rate
  (`LimiterAssumption`).
* That a body of unknown length over the limit is forwarded when there are no
  retries is a single condition in `replayableBody`: `TooLarge` has it, no run is
  spent on it.
