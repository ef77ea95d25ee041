------------------------------ MODULE Console ------------------------------
(***************************************************************************)
(* The demo console (cmd/demo): one operator's choices, each carried out   *)
(* against a stack that answers in its own time.  It edits the             *)
(* configuration file and has the balancer reload it, stops and starts     *)
(* backends, makes them misbehave for a while and keeps a book of it, and  *)
(* runs a stream of requests beside everything else.                       *)
(*                                                                         *)
(* Whatever the console asks of the stack may fail (the status document,   *)
(* docker, an admin port): a mishap, of which a behaviour has at most      *)
(* MaxMishaps.  Once the console is interrupted its context is cancelled   *)
(* and every such request fails.  The file itself can always be read and   *)
(* written, and the balancer has started with it.  Backends and book keep  *)
(* the kinds of faults apart, so a service is asked for one kind only: for *)
(* a freeze, which lasts in the backend until the latest of its ends (the  *)
(* clock of cmd/mockbackend), or for another, whose last end replaces what *)
(* was there, as every kind's does in the book.                            *)
(***************************************************************************)
LOCAL INSTANCE Integers

CONSTANTS
    Services,     \* the compose services of the backends
    Freezing,     \* those asked to freeze; the others are asked for another fault
    Algorithms,   \* the algorithms offered beside the weighted one
    Lasting,      \* for how long a fault may be asked, in ticks
    MaxEdits,     \* bound: the changes of configuration chosen
    MaxMishaps    \* bound: the requests that fail

ASSUME ConsoleAssumption ==
    /\ Freezing \subseteq Services
    /\ Lasting \subseteq Nat \ {0} /\ {MaxEdits, MaxMishaps} \subseteq Nat

VARIABLES
    file,         \* the configuration file: what the console may change of it
    balancer,     \* the balancer's reload, and what its status document says
    flow,         \* the background stream: the handle held, and its goroutines
    stack,        \* the services up, and the fault of each in ticks left
    book,         \* faultBook: how long each fault has left, as the console knows
    console,      \* where the console is
    interrupted,  \* its context has been cancelled
    mishaps, edits

consoleVars == <<file, balancer, flow, stack, book, console, interrupted, mishaps, edits>>

Baseline == [algorithm |-> "round_robin", heavy |-> FALSE, sticky |-> FALSE, limit |-> "usual"]

Asking == [at |-> "asking", next |-> "back", job |-> "change", applied |-> 0,
           previous |-> "usual", resumed |-> FALSE, known |-> {}, injected |-> {}]

ConsoleInit ==
    /\ file = Baseline
    /\ balancer = [live |-> Baseline, read |-> Baseline, doing |-> "waiting", hup |-> FALSE,
                   reloads |-> 0]
    /\ flow = [held |-> FALSE, ticking |-> 0, stopping |-> 0]
    /\ stack = [up |-> Services, fault |-> [s \in Services |-> 0]]
    /\ book = [s \in Services |-> 0]
    /\ console = Asking
    /\ interrupted = FALSE /\ mishaps = 0 /\ edits = 0

Here(place) == console.at = place

\* The loop of run: it ends when the context is done, and asks again otherwise.
\* What a choice kept for itself is forgotten.
Prompt == IF interrupted THEN "ending" ELSE "asking"
Go(place) == console' = IF place = Prompt THEN [Asking EXCEPT !.at = Prompt]
                        ELSE [console EXCEPT !.at = place]

\* One request of the stack.
Try(ok) ==
    IF ok \/ interrupted
    THEN ok = ~interrupted /\ UNCHANGED mishaps
    ELSE mishaps < MaxMishaps /\ mishaps' = mishaps + 1

\* services(mustStatus): a status that cannot be read names no service.
Reading(known) ==
    \/ known = Services /\ Try(TRUE)
    \/ known = {} /\ Try(FALSE)

-----------------------------------------------------------------------------
(* The stream *)

start == flow' = IF flow.held THEN flow
                 ELSE [flow EXCEPT !.held = TRUE, !.ticking = @ + 1]

halt(next) ==
    /\ console' = [console EXCEPT !.at = "halting", !.next = next,
                                  !.resumed = flow.held /\ next = "measuring"]
    /\ flow' = [held |-> FALSE, ticking |-> 0, stopping |-> flow.stopping + flow.ticking]

\* <-closed, after which the choice goes on.
Halted ==
    /\ Here("halting") /\ flow.stopping = 0
    /\ Go(IF console.next = "back" THEN Prompt ELSE console.next)
    /\ UNCHANGED <<file, balancer, flow, stack, book, interrupted, mishaps, edits>>

StreamEnds ==
    /\ flow.stopping > 0
    /\ flow' = [flow EXCEPT !.stopping = @ - 1]
    /\ UNCHANGED <<file, balancer, stack, book, console, interrupted, mishaps, edits>>

toggleTraffic ==
    /\ Here("asking")
    /\ IF flow.held THEN halt("back") ELSE start /\ Go(Prompt)
    /\ UNCHANGED <<file, balancer, stack, book, interrupted, mishaps, edits>>

measureDistribution ==
    /\ Here("asking")
    /\ halt("measuring")
    /\ UNCHANGED <<file, balancer, stack, book, interrupted, mishaps, edits>>

Measured ==
    /\ Here("measuring")
    /\ IF console.resumed THEN start ELSE UNCHANGED flow
    /\ Go(Prompt)
    /\ UNCHANGED <<file, balancer, stack, book, interrupted, mishaps, edits>>

-----------------------------------------------------------------------------
(* A change of configuration: the file is written, the balancer signalled,  *)
(* and its status polled until it has applied one more reload               *)

\* The keys are those of the file, each there once.
setScalar(content, key, value) == [content EXCEPT ![key] = value]
setBackendWeight(content) == [content EXCEPT !.heavy = TRUE]

applyConfig(content, job) ==
    /\ file' = content
    /\ console' = [console EXCEPT !.at = "counting", !.job = job]
    /\ UNCHANGED <<balancer, stack, book, interrupted>>

CountReloads ==
    /\ Here("counting")
    /\ \E ok \in BOOLEAN :
          /\ Try(ok)
          /\ console' = [console EXCEPT !.at = "signalling",
                                        !.applied = IF ok THEN balancer.reloads ELSE -1]
    /\ UNCHANGED <<file, balancer, flow, stack, book, interrupted, edits>>

\* What follows a reload, and what an error leads to instead.
AfterReload ==
    CASE console.job = "limit" -> "bursting"
      [] console.job \in {"reset", "quit"} -> "starting"
      [] OTHER -> Prompt
AfterError == IF console.job = "quit" THEN "confirming_quit" ELSE Prompt

Signal ==
    /\ Here("signalling")
    /\ \E ok \in BOOLEAN :
          /\ Try(ok)
          /\ IF ok THEN balancer' = [balancer EXCEPT !.hup = TRUE] /\ Go("confirming")
             ELSE UNCHANGED balancer /\ Go(AfterError)
    /\ UNCHANGED <<file, flow, stack, book, interrupted, edits>>

\* Slip: any answer of the status document is taken for the reload's.
ConfirmedByAny ==
    /\ Here("confirming") /\ ~interrupted
    /\ balancer.reloads >= console.applied
    /\ Go(AfterReload)
    /\ UNCHANGED <<file, balancer, flow, stack, book, interrupted, mishaps, edits>>

Confirmed ==
    /\ Here("confirming") /\ ~interrupted
    /\ balancer.reloads > console.applied
    /\ Go(AfterReload)
    /\ UNCHANGED <<file, balancer, flow, stack, book, interrupted, mishaps, edits>>

\* Five seconds are over: a warning, and no error.
Unconfirmed ==
    /\ Here("confirming") /\ Try(FALSE)
    /\ Go(AfterReload)
    /\ UNCHANGED <<file, balancer, flow, stack, book, interrupted, edits>>

\* setAlgorithm, and the weighted choice, which needs a first backend to favour.
changeAlgorithm ==
    /\ Here("asking") /\ edits < MaxEdits /\ edits' = edits + 1
    /\ \/ \E name \in Algorithms :
             applyConfig(setScalar(file, "algorithm", name), "change") /\ UNCHANGED mishaps
       \/ \E known \in {Services, {}} :
             /\ Reading(known)
             /\ IF known = {} THEN Go(Prompt) /\ UNCHANGED <<file, balancer, stack, book, interrupted>>
                ELSE applyConfig(setBackendWeight(setScalar(file, "algorithm", "weighted_round_robin")),
                                 "change")
    /\ UNCHANGED flow

\* An unreachable balancer is taken for one without sticky sessions.
toggleSticky ==
    /\ Here("asking") /\ edits < MaxEdits /\ edits' = edits + 1
    /\ \E ok \in BOOLEAN :
          /\ Try(ok)
          /\ applyConfig(setScalar(file, "sticky", ~(ok /\ balancer.live.sticky)), "change")
    /\ UNCHANGED flow

demonstrateRateLimit ==
    /\ Here("asking") /\ edits < MaxEdits /\ edits' = edits + 1
    /\ halt("lowering")
    /\ UNCHANGED <<file, balancer, stack, book, interrupted, mishaps>>

Lower ==
    /\ Here("lowering")
    /\ file' = setScalar(file, "limit", "low")
    /\ console' = [console EXCEPT !.at = "counting", !.job = "limit", !.previous = file.limit]
    /\ UNCHANGED <<balancer, flow, stack, book, interrupted, mishaps, edits>>

\* The bursts are over.
Raise ==
    /\ Here("bursting")
    /\ applyConfig(setScalar(file, "limit", console.previous), "change")
    /\ UNCHANGED <<flow, mishaps, edits>>

-----------------------------------------------------------------------------
(* Backends *)

\* A service that stops takes its faults with it; one that is up is left alone.
setBackendRunning(services, running) ==
    stack' = IF running THEN [stack EXCEPT !.up = @ \cup services]
             ELSE [up |-> stack.up \ services,
                   fault |-> [s \in Services |-> IF s \in services THEN 0 ELSE stack.fault[s]]]

changeBackend ==
    /\ Here("asking")
    /\ \E s \in Services, running, ok \in BOOLEAN :
          /\ Try(ok)
          /\ IF ok THEN setBackendRunning({s}, running) ELSE UNCHANGED stack
    /\ Go(Prompt)
    /\ UNCHANGED <<file, balancer, flow, book, interrupted, edits>>

\* What a fault asked of s for so long leaves in force.
InForce(s, lasts) == IF s \in Freezing /\ stack.fault[s] > lasts THEN stack.fault[s] ELSE lasts

\* The answer of the admin port may be lost where the fault was not; a service
\* that is down refuses.
misbehave ==
    /\ Here("asking")
    /\ \E s \in Services, lasts \in Lasting, ok, reached \in BOOLEAN :
          /\ ok => s \in stack.up /\ reached
          /\ reached => s \in stack.up /\ ~interrupted
          /\ IF s \in stack.up THEN Try(ok) ELSE UNCHANGED mishaps
          /\ stack' = IF reached THEN [stack EXCEPT !.fault[s] = InForce(s, lasts)] ELSE stack
          /\ IF ok THEN console' = [console EXCEPT !.at = "recording", !.injected = {<<s, lasts>>}]
             ELSE Go(Prompt)
    /\ UNCHANGED <<file, balancer, flow, book, interrupted, edits>>

add ==
    /\ Here("recording")
    /\ \E f \in console.injected :
          book' = [book EXCEPT ![f[1]] = f[2]]
    /\ Go(Prompt)
    /\ UNCHANGED <<file, balancer, flow, stack, interrupted, mishaps, edits>>

\* clearFaults: a service that is down has none, and a failure is not reported.
clearFaults(services) ==
    IF services = {} THEN UNCHANGED <<stack, mishaps>>
    ELSE \E cleared \in SUBSET services :
            /\ Try(cleared = services)
            /\ stack' = [stack EXCEPT !.fault = [s \in Services |->
                                                   IF s \in cleared THEN 0 ELSE @[s]]]

-----------------------------------------------------------------------------
(* Putting things back *)

reset ==
    /\ Here("asking") /\ edits < MaxEdits /\ edits' = edits + 1
    /\ halt("resetting")
    /\ UNCHANGED <<file, balancer, stack, book, interrupted, mishaps>>

\* restore, first half: what the status says now names the faults cleared later.
restore(job) ==
    \E known \in {Services, {}} :
        /\ Reading(known)
        /\ file' = Baseline
        /\ console' = [console EXCEPT !.at = "counting", !.job = job, !.known = known]

Resetting ==
    /\ Here("resetting")
    /\ restore("reset")
    /\ UNCHANGED <<balancer, flow, stack, book, interrupted, edits>>

\* restore, second half: docker compose start, of everything when it names nothing.
StartAll ==
    /\ Here("starting")
    /\ \E ok \in BOOLEAN :
          /\ Try(ok)
          /\ IF ok
             THEN /\ setBackendRunning(Services, TRUE)
                  /\ Go(IF console.job = "quit" THEN "confirming_quit" ELSE "clearing")
             ELSE UNCHANGED stack /\ Go(AfterError)
    /\ UNCHANGED <<file, balancer, flow, book, interrupted, edits>>

\* Slip: the faults are forgotten and left running.
ForgetFaults ==
    /\ Here("clearing")
    /\ book' = [s \in Services |-> 0]
    /\ Go(Prompt)
    /\ UNCHANGED <<file, balancer, flow, stack, interrupted, mishaps, edits>>

Clearing ==
    /\ Here("clearing")
    /\ clearFaults(console.known)
    /\ book' = [s \in Services |-> 0]
    /\ Go(Prompt)
    /\ UNCHANGED <<file, balancer, flow, interrupted, edits>>

leave ==
    /\ Here("asking")
    /\ halt("leaving")
    /\ UNCHANGED <<file, balancer, stack, book, interrupted, mishaps, edits>>

\* A fault the book still holds has every fault cleared.
LeaveFaults ==
    /\ Here("leaving")
    /\ IF \E s \in Services : book[s] > 0
       THEN /\ \/ clearFaults(Services)
               \/ (Try(FALSE) /\ UNCHANGED stack)
            /\ book' = [s \in Services |-> 0]
       ELSE UNCHANGED <<stack, book, mishaps>>
    /\ Go("leaving_file")
    /\ UNCHANGED <<file, balancer, flow, interrupted, edits>>

\* Slip: the file is restored when the balancer runs something else than it did.
LeaveWhatRuns ==
    /\ Here("leaving_file")
    /\ IF balancer.live # Baseline THEN restore("quit")
       ELSE Go("confirming_quit") /\ UNCHANGED <<file, mishaps>>
    /\ UNCHANGED <<balancer, flow, stack, book, interrupted, edits>>

LeaveFile ==
    /\ Here("leaving_file")
    /\ IF file # Baseline THEN restore("quit")
       ELSE Go("confirming_quit") /\ UNCHANGED <<file, mishaps>>
    /\ UNCHANGED <<balancer, flow, stack, book, interrupted, edits>>

\* The stack is taken down, or left running, and the console is gone.
Quit ==
    /\ Here("confirming_quit")
    /\ Go("left")
    /\ \/ UNCHANGED <<stack, mishaps>>
       \/ \E ok \in BOOLEAN :
             /\ Try(ok)
             /\ IF ok THEN setBackendRunning(Services, FALSE) ELSE UNCHANGED stack
    /\ UNCHANGED <<file, balancer, flow, book, interrupted, edits>>

\* run returns: the deferred halt, and nothing is put back.
EndInterrupted ==
    /\ Here("ending")
    /\ halt("gone")
    /\ UNCHANGED <<file, balancer, stack, book, interrupted, mishaps, edits>>

-----------------------------------------------------------------------------
(* Beside the console *)

Interrupt ==
    /\ ~interrupted /\ ~Here("left")
    /\ interrupted' = TRUE
    /\ UNCHANGED <<file, balancer, flow, stack, book, console, mishaps, edits>>

TimePasses ==
    /\ \E s \in Services : book[s] > 0 \/ stack.fault[s] > 0
    /\ LET less(left) == [s \in Services |-> IF left[s] > 0 THEN left[s] - 1 ELSE 0]
       IN  book' = less(book) /\ stack' = [stack EXCEPT !.fault = less(@)]
    /\ UNCHANGED <<file, balancer, flow, console, interrupted, mishaps, edits>>

\* The balancer takes the signal and reads the file.
LoadFile ==
    /\ balancer.hup /\ balancer.doing = "waiting"
    /\ balancer' = [balancer EXCEPT !.hup = FALSE, !.doing = "loaded", !.read = file]
    /\ UNCHANGED <<file, flow, stack, book, console, interrupted, mishaps, edits>>

\* Handler, checker and pool, whose status counts the reload ...
Apply ==
    /\ balancer.doing = "loaded"
    /\ balancer' = [balancer EXCEPT !.doing = "counted", !.reloads = @ + 1,
                                    !.live = [balancer.read EXCEPT !.sticky = balancer.live.sticky]]
    /\ UNCHANGED <<file, flow, stack, book, console, interrupted, mishaps, edits>>

\* ... before it tells the sticky mode.
SetSticky ==
    /\ balancer.doing = "counted"
    /\ balancer' = [balancer EXCEPT !.doing = "waiting", !.live = balancer.read]
    /\ UNCHANGED <<file, flow, stack, book, console, interrupted, mishaps, edits>>

Operator == toggleTraffic \/ measureDistribution \/ changeBackend \/ changeAlgorithm \/ misbehave
          \/ demonstrateRateLimit \/ toggleSticky \/ reset \/ leave
Carry == Halted \/ Measured \/ CountReloads \/ Signal \/ Confirmed \/ Lower \/ Raise \/ add
         \/ Resetting \/ StartAll \/ Clearing \/ LeaveFaults \/ LeaveFile \/ Quit \/ EndInterrupted
Beside == LoadFile \/ Apply \/ SetSticky \/ StreamEnds

ConsoleNext == Operator \/ Carry \/ Unconfirmed \/ Beside \/ Interrupt \/ TimePasses

-----------------------------------------------------------------------------
(* Properties *)

Untroubled == mishaps = 0 /\ ~interrupted
Resting == console.at \in {"asking", "left"}

\* However many requests failed, and even interrupted, a console left by its quit
\* leaves the file as it found it (leave: "restored without asking").
QuitRestores == Here("left") => file = Baseline

\* When nothing failed, the balancer runs what the file says once the console asks
\* again, but for the sticky mode it has still to tell (reload).
ConfirmedIsApplied ==
    Untroubled /\ Here("asking") =>
        \/ balancer.live = file
        \/ balancer.doing = "counted" /\ balancer.read = file

\* When nothing failed, no choice leaves anything behind: the limit is the usual one
\* again, and the book has never forgotten a fault that is still in force, so that
\* quitting finds it (demonstrateRateLimit: "leaves nothing behind"; reset, leave).
\* A freeze is left out: a second, shorter one replaces the entry of the first in the
\* book (faultBook.add) and not the freeze (clock.freeze), which outlives a quit then.
NothingLeftBehind ==
    Untroubled /\ Resting =>
        /\ file.limit = Baseline.limit
        /\ \A s \in Services \ Freezing : stack.fault[s] <= book[s]

=============================================================================
