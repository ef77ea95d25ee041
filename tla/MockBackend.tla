---------------------------- MODULE MockBackend ----------------------------
(***************************************************************************)
(* The backend of the demonstrations (cmd/mockbackend): requests wait out  *)
(* a freeze, queue for a worker, meet a fault or are served, and are       *)
(* counted by how they ended; the admin port puts faults in force and      *)
(* clears them; a signal ends the process.                                 *)
(*                                                                         *)
(* Time passes in ticks that are long beside everything that needs no      *)
(* waiting.  Pauses by schedule are left out: they stop requests as        *)
(* freezes do.                                                             *)
(***************************************************************************)
LOCAL INSTANCE Integers
LOCAL INSTANCE FiniteSets
LOCAL INSTANCE FiniteSetsExt

CONSTANTS
    Jobs,        \* requests
    WithBody,    \* those that carry a body
    Workers,     \* profile.capacity, when there is a limit
    Queue,       \* profile.queue
    FaultTicks,  \* how long an injected fault lasts
    StopTicks,   \* the time main gives the shutdown
    Injections   \* bound: faults injected in all

ASSUME MockAssumption ==
    /\ WithBody \subseteq Jobs
    /\ Workers \in Nat \ {0} /\ Queue \in Nat
    /\ FaultTicks \in Nat \ {0} /\ StopTicks \in Nat \ {0} /\ Injections \in Nat

VARIABLES
    job,       \* where each request is, and when the timer it waits for fires, from now
    left,      \* the requests whose client has gone away
    taken,     \* len(server.slots)
    waiting,   \* server.waiting
    frozen,    \* clock.frozenUntil, from now
    hangs,     \* how long an injected hang is in force, from now
    injected,  \* how many faults were injected
    process    \* whether it runs, and what is left of the time for its shutdown

admin == <<frozen, hangs, injected>>
mockVars == <<job, left, taken, waiting, admin, process>>

MockInit ==
    /\ job = [j \in Jobs |-> [at |-> "out", timer |-> 0]]
    /\ left = {}
    /\ taken = 0 /\ waiting = 0
    /\ frozen = 0 /\ hangs = 0 /\ injected = 0
    /\ process = [is |-> "up", timer |-> 0]

At(j, stage) == job[j].at = stage
Goes(j, stage) == job' = [job EXCEPT ![j] = [at |-> stage, timer |-> 0]]
Keeps(slot, counted) == taken' = taken - slot /\ waiting' = waiting - counted
Served == UNCHANGED <<left, admin, process>>

\* Slip: the body is not read before the fault is met.
DoneUnread(j) == j \in left \ WithBody

\* The context of the request is done: net/http notices that a client has gone
\* only once the body has been read.
Done(j) ==
    /\ j \in left
    /\ j \in WithBody => job[j].at \in {"hanging", "serving", "served", "paused"}

-----------------------------------------------------------------------------
(* serve, up to the worker.                                                *)

Come(j) ==
    /\ At(j, "out") /\ process.is = "up"
    /\ Goes(j, "come") /\ Keeps(0, 0) /\ Served

\* clock.wait looks at the freeze, and waits for what is left of it now.
LookIn(j) ==
    /\ At(j, "come")
    /\ IF frozen > 0 THEN job' = [job EXCEPT ![j] = [at |-> "stalled", timer |-> frozen]]
                     ELSE Goes(j, IF Done(j) THEN "over" ELSE "taken in")
    /\ Keeps(0, 0) /\ Served

StallEnds(j) ==
    /\ At(j, "stalled")
    /\ \/ job[j].timer = 0 /\ Goes(j, "come")
       \/ Done(j) /\ Goes(j, "over")
    /\ Keeps(0, 0) /\ Served

\* admit: a worker that is free, and otherwise a place in the queue.
TakeFree(j) ==
    /\ At(j, "taken in")
    /\ IF taken < Workers THEN Goes(j, "working") /\ Keeps(-1, 0)
                          ELSE Goes(j, "turned to queue") /\ Keeps(0, 0)
    /\ Served

Enqueue(j) ==
    /\ At(j, "turned to queue")
    /\ Goes(j, IF waiting + 1 > Queue THEN "refused" ELSE "queued")
    /\ Keeps(0, -1) /\ Served

TurnAway(j) == At(j, "refused") /\ Goes(j, "over") /\ Keeps(0, 1) /\ Served

LeaveQueue(j) ==
    /\ At(j, "queued")
    /\ \/ taken < Workers /\ Goes(j, "given") /\ Keeps(-1, 0)
       \/ Done(j) /\ Goes(j, "quitting") /\ Keeps(0, 0)
    /\ Served

\* The deferred waiting.Add(-1).
Uncount(j) ==
    /\ \/ At(j, "given") /\ Goes(j, "working")
       \/ At(j, "quitting") /\ Goes(j, "over")
    /\ Keeps(0, 1) /\ Served

-----------------------------------------------------------------------------
(* serve, with a worker, which is given back on every way out.             *)

\* faults.choose, by a random draw: a hang in force is for a share of the requests.
MayHang == hangs > 0

\* The body is read before the fault is drawn.
Choose(j) ==
    /\ At(j, "working")
    /\ \/ Goes(j, "serving")
       \/ MayHang /\ Goes(j, "hanging")
    /\ Keeps(0, 0) /\ Served

\* hang: the client gives up, or stopping is closed.
HangEnds(j) ==
    /\ At(j, "hanging") /\ (Done(j) \/ process.is # "up")
    /\ Goes(j, "over") /\ Keeps(1, 0) /\ Served

\* sleep, as long as it takes.
Serve(j) ==
    /\ At(j, "serving")
    /\ \/ Goes(j, "served") /\ Keeps(0, 0)
       \/ Done(j) /\ Goes(j, "over") /\ Keeps(1, 0)
    /\ Served

\* clock.wait again.  Whatever the answer is, an error, half of it, a drip or all,
\* the request is over after it.
LookOut(j) ==
    /\ At(j, "served")
    /\ IF frozen > 0 THEN /\ job' = [job EXCEPT ![j] = [at |-> "paused", timer |-> frozen]]
                          /\ Keeps(0, 0)
                     ELSE Goes(j, "over") /\ Keeps(1, 0)
    /\ Served

PauseEnds(j) ==
    /\ At(j, "paused")
    /\ \/ job[j].timer = 0 /\ Goes(j, "served") /\ Keeps(0, 0)
       \/ Done(j) /\ Goes(j, "over") /\ Keeps(1, 0)
    /\ Served

\* Steps that take no time once they can be taken.
AtOnce(j) ==
    \/ LookIn(j) \/ StallEnds(j) \/ TakeFree(j) \/ Enqueue(j) \/ TurnAway(j) \/ LeaveQueue(j)
    \/ Uncount(j) \/ Choose(j) \/ HangEnds(j) \/ LookOut(j) \/ PauseEnds(j)

\* The client gives up, as the response timeout of the balancer makes it.
GoAway(j) ==
    /\ j \notin left /\ job[j].at \notin {"out", "over"}
    /\ left' = left \cup {j}
    /\ UNCHANGED <<job, taken, waiting, admin, process>>

-----------------------------------------------------------------------------
(* The admin port, time and the end of the process.                        *)

Inject ==
    /\ injected < Injections /\ injected' = injected + 1
    /\ \/ hangs' = FaultTicks /\ UNCHANGED frozen
       \/ frozen' = Max({frozen, FaultTicks}) /\ UNCHANGED hangs
    /\ UNCHANGED <<job, left, taken, waiting, process>>

Clear ==
    /\ hangs' = 0 /\ frozen' = 0
    /\ UNCHANGED <<job, left, taken, waiting, injected, process>>

\* SIGTERM: stop, thaw, and Shutdown, which waits for the requests.
Stop ==
    /\ process.is = "up"
    /\ process' = [is |-> "stopping", timer |-> StopTicks]
    /\ frozen' = 0
    /\ UNCHANGED <<job, left, taken, waiting, hangs, injected>>

AllOver == \A j \in Jobs : job[j].at \in {"out", "over"}

Busy == ENABLED (\E j \in Jobs : AtOnce(j))

\* run returns, all requests over or not.
Exit ==
    /\ process.is = "stopping" /\ (AllOver \/ (process.timer = 0 /\ ~Busy))
    /\ process' = [is |-> IF AllOver THEN "drained" ELSE "cut", timer |-> 0]
    /\ UNCHANGED <<job, left, taken, waiting, admin>>

Less(n) == IF n > 0 THEN n - 1 ELSE 0

MockTick ==
    /\ ~Busy /\ ~(process.is = "stopping" /\ (AllOver \/ process.timer = 0))
    /\ job' = [j \in Jobs |-> [job[j] EXCEPT !.timer = Less(@)]]
    /\ frozen' = Less(frozen) /\ hangs' = Less(hangs)
    /\ process' = [process EXCEPT !.timer = Less(@)]
    /\ UNCHANGED <<left, taken, waiting, injected>>

Running == process.is \in {"up", "stopping"}

MockNext ==
    /\ Running
    /\ \/ \E j \in Jobs : Come(j) \/ AtOnce(j) \/ Serve(j) \/ GoAway(j)
       \/ Inject \/ Clear \/ Stop \/ Exit \/ MockTick

MockFairness ==
    /\ WF_mockVars(Running /\ (MockTick \/ Exit))
    /\ \A j \in Jobs : WF_mockVars(Running /\ (AtOnce(j) \/ Serve(j)))
                       /\ WF_mockVars(Running /\ GoAway(j))

-----------------------------------------------------------------------------
\* A client that gives up on a request frees what the request holds, whatever the
\* fault it met: no request is held for good ("until its body has been read, the
\* server cannot notice the client going away", serve). A client that has gone
\* stays away and a request that is over stays so: were one held for good, there
\* would be a time from which there always is one.
NothingHeldForGood == []<>(Running => \A j \in left : At(j, "over"))

=============================================================================
