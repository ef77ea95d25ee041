--------------------------- MODULE LoadGenerator ---------------------------
(***************************************************************************)
(* A run of the load generator (cmd/loadgen): drivers send one request     *)
(* after another through a warm-up that is discarded and a window that is  *)
(* measured, each into samples of its own; the balancer's counters are     *)
(* read at both ends of the window, and the whole is summarised.           *)
(*                                                                         *)
(* One counter stands for those the balancer shows, and counts every       *)
(* connection a request takes; of an answer only that it came is kept.     *)
(* The figures of the report are operators on a sorted run, which grows on *)
(* its own here.                                                           *)
(***************************************************************************)
EXTENDS Integers, Sequences, FiniteSets, Functions

CONSTANTS
    Drivers,      \* the workers
    MaxSends,     \* bound: the requests of a driver
    CountedBefore,      \* what the balancer had counted before the run
    Unread,       \* counters that could not be read
    Bands,        \* the upper bounds of the histogram, in order
    MaxSorted     \* bound: the answers of a sorted run

ASSUME LoadAssumption ==
    /\ IsFiniteSet(Drivers)
    /\ {MaxSends, CountedBefore, MaxSorted} \subseteq Nat /\ Unread \notin Nat
    /\ Bands \in Seq(Nat) /\ Bands # <<>>
    /\ \A i, j \in DOMAIN Bands : i < j => Bands[i] < Bands[j]

VARIABLES
    clock,    \* "warming", "measuring" from measureFrom on, "over" once done is set
    driver,   \* where each driver is, and with what request
    samples,  \* what each driver has recorded of the window
    counter,  \* the balancer's
    report,   \* where run is, and what it reports
    begun,    \* history: the requests begun into the samples kept
    sorted    \* latencies in order

loadVars == <<clock, driver, samples, counter, report, begun, sorted>>

LoadInit ==
    /\ clock = "warming"
    /\ driver = [d \in Drivers |-> [at |-> "free", kept |-> FALSE, connections |-> 0, sends |-> 0]]
    /\ samples = [d \in Drivers |-> [answered |-> 0, failed |-> 0]]
    /\ counter = CountedBefore
    /\ report = [at |-> "waiting", before |-> Unread, moved |-> 0, requests |-> 0, failures |-> 0]
    /\ begun = 0
    /\ sorted = <<>>

Total(kind) == SumFunctionOnSet([d \in Drivers |-> samples[d][kind]], Drivers)

Drive(d, from, to) ==
    /\ driver[d].at = from
    /\ driver' = [driver EXCEPT ![d] = to]

-----------------------------------------------------------------------------
(* The drivers *)

\* done is read first, and the time after it.
NotDone(d) ==
    /\ clock # "over" /\ driver[d].sends < MaxSends
    /\ Drive(d, "free", [driver[d] EXCEPT !.at = "going on", !.sends = @ + 1])
    /\ UNCHANGED <<clock, samples, counter, report, begun, sorted>>

Send(d) ==
    /\ Drive(d, "going on", [driver[d] EXCEPT !.at = "sent", !.kept = clock # "warming",
                                             !.connections = 0])
    /\ begun' = IF clock = "warming" THEN begun ELSE begun + 1
    /\ UNCHANGED <<clock, samples, counter, report, sorted>>

\* The request reaches the balancer, on a second connection when the client sends
\* it again by itself.
Reach(d) ==
    /\ driver[d].connections < 2
    /\ Drive(d, "sent", [driver[d] EXCEPT !.connections = @ + 1])
    /\ counter' = counter + 1
    /\ UNCHANGED <<clock, samples, report, begun, sorted>>

\* An answer, or a failure of which an answer cut off is one; what is recorded
\* during the warm-up is recorded for nobody.
Record(d) ==
    /\ Drive(d, "sent", [driver[d] EXCEPT !.at = "free", !.kept = FALSE, !.connections = 0])
    /\ \E answered \in BOOLEAN :
          /\ answered => driver[d].connections > 0
          /\ samples' = IF ~driver[d].kept THEN samples
                        ELSE [samples EXCEPT
                                 ![d].answered = IF answered THEN @ + 1 ELSE @,
                                 ![d].failed = IF answered THEN @ ELSE @ + 1]
    /\ UNCHANGED <<clock, counter, report, begun, sorted>>

\* Slip: a request under way is dropped when the time is up.
CutOffAt(d) ==
    /\ clock = "over" /\ driver[d].at \in {"free", "sent"}
    /\ Drive(d, driver[d].at, [driver[d] EXCEPT !.at = "done"])
    /\ UNCHANGED <<clock, samples, counter, report, begun, sorted>>

DriveReturns(d) ==
    /\ clock = "over"
    /\ Drive(d, "free", [driver[d] EXCEPT !.at = "done"])
    /\ UNCHANGED <<clock, samples, counter, report, begun, sorted>>

Passes ==
    /\ clock # "over"
    /\ clock' = IF clock = "warming" THEN "measuring" ELSE "over"
    /\ UNCHANGED <<driver, samples, counter, report, begun, sorted>>

-----------------------------------------------------------------------------
(* run *)

\* Once the warm-up is over; a failure is reported, and leaves none.
ReadBefore ==
    /\ report.at = "waiting" /\ clock # "warming"
    /\ \E before \in {counter, Unread} :
          report' = [report EXCEPT !.at = "joining", !.before = before]
    /\ UNCHANGED <<clock, driver, samples, counter, begun, sorted>>

\* What is missing from the earlier snapshot started at zero, all of it when there
\* is no earlier snapshot; nothing moved when there is no later one.
since(before, after) ==
    IF after = Unread THEN 0
    ELSE LET delta == after - (IF before = Unread THEN 0 ELSE before)
         IN  IF delta > 0 THEN delta ELSE 0

\* wg.Wait, the second reading, merge and summarise.
Summarise ==
    /\ report.at = "joining" /\ \A d \in Drivers : driver[d].at = "done"
    /\ \E after \in {counter, Unread} :
          report' = [report EXCEPT !.at = "done", !.moved = since(report.before, after),
                                   !.requests = Total("answered"),
                                   !.failures = Total("failed")]
    /\ UNCHANGED <<clock, driver, samples, counter, begun, sorted>>

-----------------------------------------------------------------------------
(* The figures of a sorted run *)

\* A band holds what took at most its bound and more than the one below; the last
\* one is open.
InBand(k, took) ==
    /\ k > 1 => took > Bands[k - 1]
    /\ k <= Len(Bands) => took <= Bands[k]

distribution(s) ==
    [k \in 1..(Len(Bands) + 1) |-> Cardinality({i \in DOMAIN s : InBand(k, s[i])})]

\* Slip: the rank below.
RankBelow(s, q) ==
    IF s = <<>> THEN 0 ELSE IF q >= 100 THEN s[Len(s)]
    ELSE LET rank == (q * Len(s)) \div 100 IN s[IF rank = 0 THEN 1 ELSE rank]

\* The q-th percentile, with ranks from zero in the code and from one here.
percentile(s, q) ==
    IF s = <<>> THEN 0 ELSE IF q <= 0 THEN s[1] ELSE IF q >= 100 THEN s[Len(s)]
    ELSE s[(q * Len(s)) \div 100 + 1]

Longer ==
    /\ Len(sorted) < MaxSorted
    /\ \E took \in 0..(Bands[Len(Bands)] + 1) :
          /\ sorted # <<>> => took >= sorted[Len(sorted)]
          /\ sorted' = Append(sorted, took)
    /\ UNCHANGED <<clock, driver, samples, counter, report, begun>>

LoadNext ==
    \/ Passes \/ ReadBefore \/ Summarise
    \/ \E d \in Drivers : NotDone(d) \/ Send(d) \/ Reach(d) \/ Record(d) \/ DriveReturns(d)

ReportNext == Longer

-----------------------------------------------------------------------------
(* Properties *)

\* However the warm-up, the end and the answers interleave, every request begun in
\* the window is counted once, as an answer or as a failure (run: "every request
\* sent is also measured"), and what is said to have moved happened during the run
\* when the counters were read before the window (since).
ReportCountsTheRun ==
    report.at = "done" =>
        /\ report.requests + report.failures = begun
        /\ report.before # Unread => report.moved <= counter - CountedBefore

\* Every answer is in one band of the histogram (distribution); at least a
\* percentile's share of the answers took no longer than it, and at most that share
\* took less (percentile).
FiguresHold ==
    /\ SumFunctionOnSet(distribution(sorted), DOMAIN distribution(sorted)) = Len(sorted)
    /\ \A q \in {1, 25, 50, 95, 99} : sorted # <<>> =>
          LET p == percentile(sorted, q)
          IN  /\ 100 * Cardinality({i \in DOMAIN sorted : sorted[i] <= p}) >= q * Len(sorted)
              /\ 100 * Cardinality({i \in DOMAIN sorted : sorted[i] < p}) <= q * Len(sorted)

=============================================================================
