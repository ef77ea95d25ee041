---------------------------- MODULE ToolsProofs -----------------------------
(***************************************************************************)
(* Proofs about the programs around the balancer.                          *)
(*                                                                         *)
(* The demo console, for every set of services, and of algorithms: what    *)
(* it leaves behind, and what it says is applied.  The report of the load  *)
(* generator, for every set of drivers and number of requests, and its     *)
(* figures, for every run of latencies and all bands.  The sessions a      *)
(* mock backend remembers, however many it has room for.                   *)
(***************************************************************************)
EXTENDS Console, LoadGenerator, SessionCache, Integers, Sequences, Sums

-----------------------------------------------------------------------------
(* The demo console.                                                       *)

\* The console by itself.
ConsoleSpec == ConsoleInit /\ [][ConsoleNext]_consoleVars

\* What the variables hold.
Limits == {"usual", "low"}
\* A configuration file, as far as the console changes it.
Contents == [algorithm : Algorithms \cup {"round_robin", "weighted_round_robin"},
             heavy : BOOLEAN, sticky : BOOLEAN, limit : Limits]
\* Where a halt leads.
Onward == {"back", "measuring", "lowering", "resetting", "leaving", "gone"}
\* What a change is applied for.
Jobs == {"change", "limit", "reset", "quit"}
\* Where the console is.
Stations == {"asking", "ending", "halting", "measuring", "counting", "signalling", "confirming",
             "lowering", "bursting", "recording", "resetting", "starting", "clearing",
             "leaving", "leaving_file", "confirming_quit", "left", "gone"}
\* All it keeps.
Choice == [at : Stations, next : Onward, job : Jobs, applied : Int, previous : Limits,
           resumed : BOOLEAN, known : SUBSET Services, injected : SUBSET (Services \X Nat)]

\* The balancer.
Balancers == [live : Contents, read : Contents, doing : {"waiting", "loaded", "counted"},
              hup : BOOLEAN, reloads : Nat]
\* The traffic the console sends.
Flows == [held : BOOLEAN, ticking : Nat, stopping : Nat]
\* How long each service has left of its faults.
Left == [Services -> Nat]
\* The services.
Stacks == [up : SUBSET Services, fault : Left]

\* The types of the variables.
ConsoleTypeOK ==
    /\ file \in Contents /\ balancer \in Balancers /\ flow \in Flows
    /\ stack \in Stacks /\ book \in Left /\ console \in Choice
    /\ interrupted \in BOOLEAN /\ mishaps \in Nat

\* What no step gives back: a request that failed, and the interruption.
Onwards == mishaps' \in Nat /\ (mishaps' = 0 => mishaps = 0)

\* Back at the prompt the console asks anew, or ends (main).
LEMMA GoPrompt ==
    ASSUME Go(Prompt)
    PROVE  /\ console' \in Choice /\ console'.at \in {"asking", "ending"}
           /\ console'.job = "change" /\ console'.injected = {}
<1>1. console' = [Asking EXCEPT !.at = Prompt] /\ Prompt \in {"asking", "ending"}
  BY DEF Go, Prompt
<1>2. Asking \in Choice
  BY DEF Asking, Choice, Stations, Onward, Jobs, Limits
<1>3. Asking.job = "change" /\ Asking.injected = {}
  BY DEF Asking
<1>4. Prompt \in Stations
  BY <1>1 DEF Stations
<1>5. console' \in Choice
  BY <1>1, <1>2, <1>4 DEF Choice
<1>6. console'.at = Prompt /\ console'.job = "change" /\ console'.injected = {}
  BY <1>1, <1>2, <1>3 DEF Choice
<1> QED
  BY <1>1, <1>5, <1>6

\* Elsewhere it goes on with what it keeps.
LEMMA GoOn ==
    ASSUME console \in Choice, NEW place \in Stations \ {"asking", "ending"}, Go(place)
    PROVE  /\ console' \in Choice /\ console' = [console EXCEPT !.at = place]
           /\ console'.at = place /\ console'.job = console.job /\ console'.next = console.next
           /\ console'.applied = console.applied /\ console'.previous = console.previous
           /\ console'.known = console.known /\ console'.injected = console.injected
<1>1. console' = [console EXCEPT !.at = place]
  BY DEF Go, Prompt
<1> QED
  BY <1>1 DEF Choice

\* The traffic is halted before the console goes on (halt).
LEMMA Halting ==
    ASSUME console \in Choice, flow \in Flows, NEW next \in Onward, halt(next)
    PROVE  /\ console' \in Choice /\ console'.at = "halting" /\ console'.job = console.job
           /\ console'.next = next /\ flow' \in Flows
<1>1. console' = [console EXCEPT !.at = "halting", !.next = next,
                                  !.resumed = (flow.held /\ next = "measuring")]
  BY DEF halt
<1>2. (flow.held /\ next = "measuring") \in BOOLEAN
  OBVIOUS
<1>3. flow' \in Flows
  BY DEF halt, Flows
<1> HIDE DEF Flows
<1> QED
  BY <1>1, <1>2, <1>3 DEF Choice, Stations

\* A change is written, and has to be counted and signalled (applyConfig).
LEMMA ConfigApplied ==
    ASSUME console \in Choice, NEW content \in Contents, NEW job \in Jobs, applyConfig(content, job)
    PROVE  /\ console' \in Choice /\ console'.at = "counting" /\ console'.job = job
           /\ file' = content /\ file' \in Contents
BY DEF applyConfig, Choice, Stations

\* The file the console starts from has the usual limit.
LEMMA BaselineIs == Baseline \in Contents /\ Baseline.limit = "usual"
BY DEF Baseline, Contents, Limits

\* A key of the file is set to something it may hold (setScalar).
LEMMA Rewritten ==
    ASSUME NEW c \in Contents, NEW key \in {"algorithm", "heavy", "sticky", "limit"},
           NEW v, key = "algorithm" => v \in Algorithms \cup {"round_robin", "weighted_round_robin"},
           key \in {"heavy", "sticky"} => v \in BOOLEAN, key = "limit" => v \in Limits
    PROVE  /\ setScalar(c, key, v) \in Contents
           /\ key # "limit" => setScalar(c, key, v).limit = c.limit
           /\ key = "limit" => setScalar(c, key, v).limit = v
BY DEF setScalar, Contents

\* So is the weight of a backend (setBackendWeight).
LEMMA Weighted ==
    ASSUME NEW c \in Contents
    PROVE  LET d == setBackendWeight(setScalar(c, "algorithm", "weighted_round_robin"))
           IN  d \in Contents /\ d.limit = c.limit
<1> DEFINE e == setScalar(c, "algorithm", "weighted_round_robin")
<1>1. e \in Contents /\ e.limit = c.limit
  BY Rewritten
<1> HIDE DEF e
<1>2. setBackendWeight(e) \in Contents /\ setBackendWeight(e).limit = e.limit
  BY <1>1 DEF setBackendWeight, Contents
<1> QED
  BY <1>1, <1>2 DEF e

\* What a request of the stack does to the count of mishaps.
LEMMA Tried ==
    ASSUME mishaps \in Nat, NEW ok \in BOOLEAN, Try(ok)
    PROVE  /\ Onwards
           /\ ok => (~interrupted /\ UNCHANGED mishaps)
           /\ ~ok => (interrupted \/ mishaps' # 0)
BY DEF Try, Onwards

\* The traffic starts (start).
LEMMA Started ==
    ASSUME flow \in Flows, start
    PROVE  flow' \in Flows
<1>1. CASE flow.held
  BY <1>1 DEF start
<1>2. CASE ~flow.held
  <2>1. flow' = [flow EXCEPT !.held = TRUE, !.ticking = flow.ticking + 1]
    BY <1>2 DEF start
  <2>2. flow.ticking + 1 \in Nat
    BY DEF Flows
  <2> QED
    BY <2>1, <2>2 DEF Flows
<1> QED
  BY <1>1, <1>2

\* Containers are started or stopped; one that stops forgets its faults (setBackendRunning).
LEMMA BackendsRun ==
    ASSUME stack \in Stacks, NEW services \in SUBSET Services, NEW running \in BOOLEAN,
           setBackendRunning(services, running)
    PROVE  /\ stack' \in Stacks
           /\ \A s \in Services : stack'.fault[s] \in {0, stack.fault[s]}
<1>1. CASE running
  BY <1>1 DEF setBackendRunning, Stacks, Left
<1>2. CASE ~running
  <2>1. stack' = [up |-> stack.up \ services,
                  fault |-> [s \in Services |-> IF s \in services THEN 0 ELSE stack.fault[s]]]
    BY <1>2 DEF setBackendRunning
  <2>2. [s \in Services |-> IF s \in services THEN 0 ELSE stack.fault[s]] \in Left
    BY DEF Stacks, Left
  <2> QED
    BY <2>1, <2>2 DEF Stacks, Left
<1> QED
  BY <1>1, <1>2

\* Faults are cleared: those of the services asked, unless a request failed (clearFaults).
LEMMA Cleared ==
    ASSUME stack \in Stacks, mishaps \in Nat, NEW services \in SUBSET Services,
           clearFaults(services)
    PROVE  /\ stack' \in Stacks /\ Onwards
           /\ \A s \in Services : stack'.fault[s] \in {0, stack.fault[s]}
           /\ \/ interrupted \/ mishaps' # 0
              \/ \A s \in services : stack'.fault[s] = 0
<1>1. CASE services = {}
  BY <1>1 DEF clearFaults, Onwards
<1>2. CASE services # {}
  <2>1. PICK cleared \in SUBSET services :
            /\ Try(cleared = services)
            /\ stack' = [stack EXCEPT !.fault = [s \in Services |->
                                                   IF s \in cleared THEN 0 ELSE @[s]]]
    BY <1>2, Zenon DEF clearFaults
  <2>2. (cleared = services) \in BOOLEAN
    OBVIOUS
  <2>3. Onwards /\ (cleared # services => (interrupted \/ mishaps' # 0))
    BY <2>1, <2>2, Tried, Zenon
  <2>4. [s \in Services |-> IF s \in cleared THEN 0 ELSE stack.fault[s]] \in Left
    BY DEF Stacks, Left
  <2>5. /\ stack' \in Stacks
        /\ stack'.fault = [s \in Services |-> IF s \in cleared THEN 0 ELSE stack.fault[s]]
    BY <2>1, <2>4 DEF Stacks
  <2>6. \A s \in Services : stack'.fault[s] = IF s \in cleared THEN 0 ELSE stack.fault[s]
    BY <2>5
  <2>7. CASE cleared = services
    BY <2>3, <2>5, <2>6, <2>7
  <2>8. CASE cleared # services
    BY <2>3, <2>5, <2>6, <2>8
  <2> QED
    BY <2>7, <2>8
<1> QED
  BY <1>1, <1>2

\* The file found at the start is written, and has to be applied (restore).
LEMMA Restored ==
    ASSUME console \in Choice, mishaps \in Nat, NEW job \in Jobs, restore(job)
    PROVE  /\ console' \in Choice /\ console'.at = "counting" /\ console'.job = job
           /\ file' = Baseline /\ file' \in Contents /\ Onwards
           /\ interrupted \/ mishaps' # 0 \/ console'.known = Services
<1>1. PICK known \in {Services, {}} :
          /\ Reading(known) /\ file' = Baseline
          /\ console' = [console EXCEPT !.at = "counting", !.job = job, !.known = known]
  BY Zenon DEF restore
<1>2. Onwards /\ (interrupted \/ mishaps' # 0 \/ known = Services)
  BY <1>1, Tried, Zenon DEF Reading
<1>3. known \in SUBSET Services
  OBVIOUS
<1>4. console' \in Choice /\ console'.at = "counting" /\ console'.job = job /\ console'.known = known
  BY <1>1, <1>3 DEF Choice, Stations
<1> QED
  BY <1>1, <1>2, <1>4, BaselineIs, Zenon

\* As time passes, faults run out no later than they are booked to.
LEMMA TimePassed ==
    ASSUME stack \in Stacks, book \in Left, TimePasses
    PROVE  /\ stack' \in Stacks /\ book' \in Left
           /\ \A s \in Services : stack'.fault[s] <= stack.fault[s]
           /\ \A s \in Services : stack.fault[s] <= book[s] => stack'.fault[s] <= book'[s]
<1> DEFINE less(left) == [s \in Services |-> IF left[s] > 0 THEN left[s] - 1 ELSE 0]
<1>1. book' = less(book) /\ stack' = [stack EXCEPT !.fault = less(@)]
  BY DEF TimePasses
<1>2. stack.fault \in Left
  BY DEF Stacks
<1>3. less(book) \in Left /\ less(stack.fault) \in Left
  BY <1>2 DEF Left
<1>4. stack' \in Stacks /\ stack'.fault = less(stack.fault)
  BY <1>1, <1>3 DEF Stacks
<1>5. \A s \in Services : book[s] \in Nat /\ stack.fault[s] \in Nat
  BY <1>2 DEF Left
<1> QED
  BY <1>1, <1>3, <1>4, <1>5

\* Every step keeps the types, and no step takes a mishap or the interruption back.
LEMMA ConsoleTypeStep ==
    ConsoleTypeOK /\ [ConsoleNext]_consoleVars => ConsoleTypeOK' /\ Onwards /\ (interrupted => interrupted')
<1> SUFFICES ASSUME ConsoleTypeOK, [ConsoleNext]_consoleVars
             PROVE  ConsoleTypeOK' /\ Onwards /\ (interrupted => interrupted')
  OBVIOUS
<1>t. /\ file \in Contents /\ balancer \in Balancers /\ flow \in Flows
      /\ stack \in Stacks /\ book \in Left /\ console \in Choice
      /\ interrupted \in BOOLEAN /\ mishaps \in Nat
  BY DEF ConsoleTypeOK
<1>k. UNCHANGED mishaps => Onwards
  BY <1>t DEF Onwards
<1>s. /\ \A p \in {"measuring", "lowering", "resetting", "leaving", "gone", "counting", "signalling",
                    "confirming", "bursting", "recording", "starting", "clearing", "leaving_file",
                    "confirming_quit", "left"} : p \in Stations \ {"asking", "ending"}
      /\ {"back", "measuring", "lowering", "resetting", "leaving", "gone"} \subseteq Onward
      /\ {"change", "limit", "reset", "quit"} \subseteq Jobs
  BY DEF Stations, Onward, Jobs
<1>g. \A p \in Stations \cup {Prompt} : Go(p) => console' \in Choice
  <2> SUFFICES ASSUME NEW p \in Stations \cup {Prompt}, Go(p)
               PROVE  console' \in Choice
    OBVIOUS
  <2>1. CASE p = Prompt
    BY <2>1, GoPrompt
  <2>2. CASE p # Prompt
    <3>1. console' = [console EXCEPT !.at = p] /\ p \in Stations
      BY <2>2 DEF Go
    <3> QED
      BY <3>1, <1>t DEF Choice
  <2> QED
    BY <2>1, <2>2
<1>1. CASE toggleTraffic
  <2>1. UNCHANGED <<file, balancer, stack, book, interrupted, mishaps>>
    BY <1>1 DEF toggleTraffic
  <2>2. CASE flow.held
    <3>1. console' \in Choice /\ flow' \in Flows
      BY <1>1, <1>t, <1>s, <2>2, Halting DEF toggleTraffic
    <3> QED
      BY <1>t, <1>k, <2>1, <3>1 DEF ConsoleTypeOK
  <2>3. CASE ~flow.held
    <3>1. console' \in Choice /\ flow' \in Flows
      BY <1>1, <1>t, <1>g, <2>3, Started DEF toggleTraffic
    <3> QED
      BY <1>t, <1>k, <2>1, <3>1 DEF ConsoleTypeOK
  <2> QED
    BY <2>2, <2>3
<1>2. CASE measureDistribution \/ leave \/ EndInterrupted \/ demonstrateRateLimit \/ reset
  <2>1. UNCHANGED <<file, balancer, stack, book, interrupted, mishaps>>
    BY <1>2 DEF measureDistribution, leave, EndInterrupted, demonstrateRateLimit, reset
  <2>2. \E next \in Onward : halt(next)
    BY <1>2, <1>s DEF measureDistribution, leave, EndInterrupted, demonstrateRateLimit, reset
  <2>3. console' \in Choice /\ flow' \in Flows
    BY <1>t, <2>2, Halting
  <2> QED
    BY <1>t, <1>k, <2>1, <2>3 DEF ConsoleTypeOK
<1>3. CASE changeBackend
  <2>1. PICK s \in Services, running \in BOOLEAN, ok \in BOOLEAN :
            Try(ok) /\ IF ok THEN setBackendRunning({s}, running) ELSE UNCHANGED stack
    BY <1>3 DEF changeBackend
  <2>2. Onwards
    BY <1>t, <2>1, Tried
  <2>3. stack' \in Stacks
    BY <1>t, <2>1, BackendsRun
  <2>4. console' \in Choice /\ UNCHANGED <<file, balancer, flow, book, interrupted>>
    BY <1>3, <1>g DEF changeBackend
  <2> QED
    BY <1>t, <2>2, <2>3, <2>4 DEF ConsoleTypeOK, Onwards
<1>4. CASE changeAlgorithm
  <2>1. CASE \E name \in Algorithms :
                applyConfig(setScalar(file, "algorithm", name), "change") /\ UNCHANGED mishaps
    <3>1. PICK name \in Algorithms :
                applyConfig(setScalar(file, "algorithm", name), "change") /\ UNCHANGED mishaps
      BY <2>1
    <3>2. setScalar(file, "algorithm", name) \in Contents
      BY <1>t, Rewritten
    <3>3. console' \in Choice /\ file' \in Contents
      BY <1>t, <1>s, <3>1, <3>2, ConfigApplied
    <3>4. UNCHANGED <<balancer, stack, book, interrupted, mishaps, flow>>
      BY <1>4, <3>1 DEF changeAlgorithm, applyConfig
    <3> QED
      BY <1>t, <1>k, <3>3, <3>4 DEF ConsoleTypeOK
  <2> DEFINE heavier == setBackendWeight(setScalar(file, "algorithm", "weighted_round_robin"))
  <2>2. CASE \E known \in {Services, {}} :
                /\ Reading(known)
                /\ IF known = {} THEN Go(Prompt) /\ UNCHANGED <<file, balancer, stack, book, interrupted>>
                   ELSE applyConfig(heavier, "change")
    <3>1. PICK known \in {Services, {}} :
                /\ Reading(known)
                /\ IF known = {} THEN Go(Prompt) /\ UNCHANGED <<file, balancer, stack, book, interrupted>>
                   ELSE applyConfig(heavier, "change")
      BY <2>2
    <3>2. Onwards /\ UNCHANGED flow
      BY <1>4, <1>t, <3>1, Tried DEF changeAlgorithm, Reading
    <3>3. CASE known = {}
      BY <1>t, <1>g, <3>1, <3>2, <3>3 DEF ConsoleTypeOK, Onwards
    <3>4. CASE known # {}
      <4>1. heavier \in Contents /\ applyConfig(heavier, "change")
        BY <1>t, <3>1, <3>4, Weighted
      <4>2. console' \in Choice /\ file' \in Contents
        BY <1>t, <1>s, <4>1, ConfigApplied
      <4>3. UNCHANGED <<balancer, stack, book, interrupted>>
        BY <4>1 DEF applyConfig
      <4> QED
        BY <1>t, <3>2, <4>2, <4>3 DEF ConsoleTypeOK, Onwards
    <3> QED
      BY <3>3, <3>4
  <2> QED
    BY <1>4, <2>1, <2>2 DEF changeAlgorithm
<1>5. CASE misbehave
  <2>1. PICK s \in Services, lasts \in Lasting, ok \in BOOLEAN, reached \in BOOLEAN :
          /\ IF s \in stack.up THEN Try(ok) ELSE UNCHANGED mishaps
          /\ stack' = IF reached THEN [stack EXCEPT !.fault[s] = InForce(s, lasts)] ELSE stack
          /\ IF ok THEN console' = [console EXCEPT !.at = "recording", !.injected = {<<s, lasts>>}]
             ELSE Go(Prompt)
    BY <1>5 DEF misbehave
  <2>2. Onwards
    BY <1>t, <1>k, <2>1, Tried
  <2>3. lasts \in Nat
    BY ConsoleAssumption
  <2>4. stack' \in Stacks
    <3>1. InForce(s, lasts) \in Nat
      BY <1>t, <2>3 DEF InForce, Stacks, Left
    <3> QED
      BY <1>t, <2>1, <3>1 DEF Stacks, Left
  <2>5. console' \in Choice
    <3>1. CASE ok
      <4>1. {<<s, lasts>>} \in SUBSET (Services \X Nat)
        BY <2>3
      <4> DEFINE put == {<<s, lasts>>}
      <4>2. put \in SUBSET (Services \X Nat)
        BY <4>1
      <4> HIDE DEF put
      <4>3. console' = [console EXCEPT !.at = "recording", !.injected = put]
        BY <2>1, <3>1 DEF put
      <4> QED
        BY <1>t, <1>s, <4>2, <4>3 DEF Choice
    <3>2. CASE ~ok
      BY <1>g, <2>1, <3>2
    <3> QED
      BY <3>1, <3>2
  <2>6. UNCHANGED <<file, balancer, flow, book, interrupted>>
    BY <1>5 DEF misbehave
  <2> QED
    BY <1>t, <2>2, <2>4, <2>5, <2>6 DEF ConsoleTypeOK, Onwards
<1>6. CASE toggleSticky
  <2>1. PICK ok \in BOOLEAN : /\ Try(ok)
                             /\ applyConfig(setScalar(file, "sticky", ~(ok /\ balancer.live.sticky)), "change")
    BY <1>6 DEF toggleSticky
  <2>2. (~(ok /\ balancer.live.sticky)) \in BOOLEAN
    OBVIOUS
  <2>3. setScalar(file, "sticky", ~(ok /\ balancer.live.sticky)) \in Contents
    BY <1>t, <2>2, Rewritten
  <2>4. console' \in Choice /\ file' \in Contents
    BY <1>t, <1>s, <2>1, <2>3, ConfigApplied
  <2>5. UNCHANGED <<balancer, stack, book, interrupted, flow>> /\ Onwards
    BY <1>6, <1>t, <2>1, Tried DEF toggleSticky, applyConfig
  <2> QED
    BY <1>t, <2>4, <2>5 DEF ConsoleTypeOK, Onwards
<1>10. CASE Halted
  <2>1. console.next \in Onward
    BY <1>t DEF Choice
  <2>2. (IF console.next = "back" THEN Prompt ELSE console.next) \in Stations \cup {Prompt}
    BY <2>1 DEF Onward, Stations
  <2>3. console' \in Choice
    BY <1>10, <1>g, <2>2 DEF Halted
  <2> QED
    BY <1>10, <1>t, <1>k, <2>3 DEF Halted, ConsoleTypeOK
<1>11. CASE Measured
  <2>1. flow' \in Flows
    BY <1>11, <1>t, Started DEF Measured
  <2>2. console' \in Choice /\ UNCHANGED <<file, balancer, stack, book, interrupted, mishaps>>
    BY <1>11, <1>g DEF Measured
  <2> QED
    BY <1>t, <1>k, <2>1, <2>2 DEF ConsoleTypeOK
<1>12. CASE CountReloads
  <2>1. PICK ok \in BOOLEAN :
          Try(ok) /\ console' = [console EXCEPT !.at = "signalling",
                                        !.applied = IF ok THEN balancer.reloads ELSE -1]
    BY <1>12 DEF CountReloads
  <2>2. (IF ok THEN balancer.reloads ELSE -1) \in Int
    BY <1>t DEF Balancers
  <2>3. console' \in Choice
    BY <1>t, <1>s, <2>1, <2>2 DEF Choice
  <2>4. Onwards
    BY <1>t, <2>1, Tried
  <2>5. UNCHANGED <<file, balancer, flow, stack, book, interrupted>>
    BY <1>12 DEF CountReloads
  <2> QED
    BY <1>t, <2>3, <2>4, <2>5 DEF ConsoleTypeOK, Onwards
<1>13. CASE Signal
  <2>1. PICK ok \in BOOLEAN :
          /\ Try(ok)
          /\ IF ok THEN balancer' = [balancer EXCEPT !.hup = TRUE] /\ Go("confirming")
             ELSE UNCHANGED balancer /\ Go(AfterError)
    BY <1>13 DEF Signal
  <2>2. Onwards
    BY <1>t, <2>1, Tried
  <2>3. balancer' \in Balancers
    BY <1>t, <2>1 DEF Balancers
  <2>4. AfterError \in Stations \cup {Prompt}
    BY <1>s DEF AfterError
  <2>5. console' \in Choice
    BY <1>g, <1>s, <2>1, <2>4
  <2>6. UNCHANGED <<file, flow, stack, book, interrupted>>
    BY <1>13 DEF Signal
  <2> QED
    BY <1>t, <2>2, <2>3, <2>5, <2>6 DEF ConsoleTypeOK, Onwards
<1>14. CASE Confirmed \/ Unconfirmed
  <2>1. Onwards
    BY <1>14, <1>t, <1>k, Tried DEF Confirmed, Unconfirmed
  <2>2. AfterReload \in Stations \cup {Prompt}
    BY <1>s DEF AfterReload
  <2>3. console' \in Choice /\ UNCHANGED <<file, balancer, flow, stack, book, interrupted>>
    BY <1>14, <1>g, <2>2 DEF Confirmed, Unconfirmed
  <2> QED
    BY <1>t, <2>1, <2>3 DEF ConsoleTypeOK, Onwards
<1>15. CASE Lower
  <2>1. file.limit \in Limits
    BY <1>t DEF Contents
  <2>2. console' \in Choice
    BY <1>15, <1>t, <1>s, <2>1 DEF Lower, Choice
  <2>3. file' \in Contents
    BY <1>15, <1>t, Rewritten DEF Lower, Limits
  <2> QED
    BY <1>15, <1>t, <1>k, <2>2, <2>3 DEF Lower, ConsoleTypeOK
<1>16. CASE Raise
  <2>1. console.previous \in Limits
    BY <1>t DEF Choice
  <2>2. setScalar(file, "limit", console.previous) \in Contents
    BY <1>t, <2>1, Rewritten
  <2>3. console' \in Choice /\ file' \in Contents
    BY <1>16, <1>t, <1>s, <2>2, ConfigApplied DEF Raise
  <2> QED
    BY <1>16, <1>t, <1>k, <2>3 DEF Raise, applyConfig, ConsoleTypeOK
<1>17. CASE add
  <2>1. PICK f \in console.injected : book' = [book EXCEPT ![f[1]] = f[2]]
    BY <1>17 DEF add
  <2>2. f \in Services \X Nat
    BY <1>t DEF Choice
  <2>3. book' \in Left
    BY <1>t, <2>1, <2>2 DEF Left
  <2>4. console' \in Choice
    BY <1>17, <1>g DEF add
  <2> QED
    BY <1>17, <1>t, <1>k, <2>3, <2>4 DEF add, ConsoleTypeOK
<1>18. CASE Resetting
  BY <1>18, <1>t, <1>s, Restored DEF Resetting, ConsoleTypeOK, Onwards
<1>19. CASE StartAll
  <2>1. PICK ok \in BOOLEAN :
          /\ Try(ok)
          /\ IF ok
             THEN /\ setBackendRunning(Services, TRUE)
                  /\ Go(IF console.job = "quit" THEN "confirming_quit" ELSE "clearing")
             ELSE UNCHANGED stack /\ Go(AfterError)
    BY <1>19 DEF StartAll
  <2>2. Onwards
    BY <1>t, <2>1, Tried
  <2>3. Services \in SUBSET Services /\ TRUE \in BOOLEAN
    OBVIOUS
  <2>4. stack' \in Stacks
    BY <1>t, <2>1, <2>3, BackendsRun
  <2>5. AfterError \in Stations \cup {Prompt}
    BY <1>s DEF AfterError
  <2>6. console' \in Choice
    BY <1>g, <1>s, <2>1, <2>5
  <2>7. UNCHANGED <<file, balancer, flow, book, interrupted>>
    BY <1>19 DEF StartAll
  <2> QED
    BY <1>t, <2>2, <2>4, <2>6, <2>7 DEF ConsoleTypeOK, Onwards
<1>f. [s \in Services |-> 0] \in Left
  BY DEF Left
<1>20. CASE Clearing
  <2>1. console.known \in SUBSET Services
    BY <1>t DEF Choice
  <2>2. stack' \in Stacks /\ Onwards
    BY <1>20, <1>t, <2>1, Cleared DEF Clearing
  <2>3. /\ console' \in Choice /\ book' = [s \in Services |-> 0]
        /\ UNCHANGED <<file, balancer, flow, interrupted>>
    BY <1>20, <1>g DEF Clearing
  <2> QED
    BY <1>t, <1>f, <2>2, <2>3 DEF ConsoleTypeOK, Onwards
<1>21. CASE LeaveFaults
  <2>1. stack' \in Stacks /\ Onwards
    <3>1. Services \in SUBSET Services /\ FALSE \in BOOLEAN
      OBVIOUS
    <3> QED
      BY <1>21, <1>t, <1>k, <3>1, Cleared, Tried DEF LeaveFaults
  <2>2. book' \in Left
    BY <1>21, <1>t, <1>f DEF LeaveFaults
  <2>3. console' \in Choice
    BY <1>21, <1>g, <1>s DEF LeaveFaults
  <2>4. UNCHANGED <<file, balancer, flow, interrupted>>
    BY <1>21 DEF LeaveFaults
  <2> QED
    BY <1>t, <2>1, <2>2, <2>3, <2>4 DEF ConsoleTypeOK, Onwards
<1>22. CASE LeaveFile
  <2>1. UNCHANGED <<balancer, flow, stack, book, interrupted>>
    BY <1>22 DEF LeaveFile
  <2>2. CASE file # Baseline
    <3>1. restore("quit")
      BY <1>22, <2>2 DEF LeaveFile
    <3> QED
      BY <1>t, <1>s, <2>1, <3>1, Restored DEF ConsoleTypeOK, Onwards
  <2>3. CASE file = Baseline
    <3>1. console' \in Choice /\ UNCHANGED <<file, mishaps>>
      BY <1>22, <1>g, <1>s, <2>3 DEF LeaveFile
    <3> QED
      BY <1>t, <1>k, <2>1, <3>1 DEF ConsoleTypeOK
  <2> QED
    BY <2>2, <2>3
<1>23. CASE Quit
  <2>1. console' \in Choice /\ UNCHANGED <<file, balancer, flow, book, interrupted>>
    BY <1>23, <1>g, <1>s DEF Quit
  <2>2. stack' \in Stacks /\ Onwards
    <3>1. Services \in SUBSET Services /\ FALSE \in BOOLEAN
      OBVIOUS
    <3> QED
      BY <1>23, <1>t, <1>k, <3>1, Tried, BackendsRun DEF Quit
  <2> QED
    BY <1>t, <2>1, <2>2 DEF ConsoleTypeOK, Onwards
<1>25. CASE LoadFile \/ Apply \/ SetSticky
  <2>1. balancer' \in Balancers
    <3>1. CASE LoadFile
      BY <1>t, <3>1 DEF LoadFile, Balancers
    <3>2. CASE Apply
      <4>1. balancer.reloads + 1 \in Nat
        BY <1>t DEF Balancers
      <4>2. [balancer.read EXCEPT !.sticky = balancer.live.sticky] \in Contents
        BY <1>t DEF Balancers, Contents
      <4>3. balancer' = [balancer EXCEPT !.doing = "counted", !.reloads = balancer.reloads + 1,
                                    !.live = [balancer.read EXCEPT !.sticky = balancer.live.sticky]]
        BY <3>2 DEF Apply
      <4> QED
        BY <1>t, <4>1, <4>2, <4>3 DEF Balancers
    <3>3. CASE SetSticky
      BY <1>t, <3>3 DEF SetSticky, Balancers
    <3> QED
      BY <1>25, <3>1, <3>2, <3>3
  <2>2. UNCHANGED <<file, flow, stack, book, console, interrupted, mishaps>>
    BY <1>25 DEF LoadFile, Apply, SetSticky
  <2> QED
    BY <1>t, <1>k, <2>1, <2>2 DEF ConsoleTypeOK
<1>26. CASE StreamEnds
  <2>1. flow' \in Flows
    BY <1>26, <1>t DEF StreamEnds, Flows
  <2> QED
    BY <1>26, <1>t, <1>k, <2>1 DEF StreamEnds, ConsoleTypeOK
<1>27. CASE Interrupt
  BY <1>27, <1>t, <1>k DEF Interrupt, ConsoleTypeOK
<1>28. CASE TimePasses
  <2>1. UNCHANGED <<file, balancer, flow, console, interrupted, mishaps>>
    BY <1>28 DEF TimePasses
  <2> QED
    BY <1>28, <1>t, <1>k, <2>1, TimePassed DEF ConsoleTypeOK
<1>29. CASE UNCHANGED consoleVars
  BY <1>29, <1>t, <1>k DEF consoleVars, ConsoleTypeOK
<1> QED
  BY <1>1, <1>2, <1>3, <1>4, <1>5, <1>6, <1>10, <1>11, <1>12, <1>13, <1>14,
     <1>15, <1>16, <1>17, <1>18, <1>19, <1>20, <1>21, <1>22, <1>23, <1>25, <1>26, <1>27,
     <1>28, <1>29 DEF ConsoleNext, Operator, Carry, Beside

\* The places of a change that is being applied.
Reloading == {"counting", "signalling", "confirming"}
\* The places of a quit after it has written the file.
Stored == Reloading \cup {"starting", "clearing"}

\* What a choice is about decides where a reload leads: bursts are fired at a lowered
\* limit, and backends are started for a reset or for the quit.
JobsAreDone ==
    /\ Here("bursting") => console.job = "limit"
    /\ Here("starting") => console.job \in {"reset", "quit"}
    /\ Here("clearing") => console.job = "reset"

\* From the moment the quit restores the file, the file is what it was.
QuitIsRestoring ==
    console.at \in {"confirming_quit", "left"} \/ (console.job = "quit" /\ console.at \in Stored)
        => file = Baseline

\* A quit that has restored the file leaves it alone (quit, restore).
LEMMA QuitStep ==
    ConsoleTypeOK /\ JobsAreDone /\ QuitIsRestoring /\ [ConsoleNext]_consoleVars
        => JobsAreDone' /\ QuitIsRestoring'
<1> SUFFICES ASSUME ConsoleTypeOK, JobsAreDone, QuitIsRestoring, [ConsoleNext]_consoleVars
             PROVE  JobsAreDone' /\ QuitIsRestoring'
  OBVIOUS
<1>t. file \in Contents /\ flow \in Flows /\ console \in Choice /\ mishaps \in Nat
  BY DEF ConsoleTypeOK
<1>j. {"change", "limit", "reset", "quit"} \subseteq Jobs
  BY DEF Jobs
<1>e. console'.at \in {"asking", "ending", "halting", "measuring", "lowering", "recording", "resetting",
                      "leaving", "leaving_file", "gone"}
        => JobsAreDone' /\ QuitIsRestoring'
  BY DEF JobsAreDone, QuitIsRestoring, Here, Stored, Reloading
<1>p. Go(Prompt) => JobsAreDone' /\ QuitIsRestoring'
  BY <1>e, GoPrompt
<1>h. \A next \in Onward : halt(next) => JobsAreDone' /\ QuitIsRestoring'
  BY <1>e, <1>t, Halting
<1>c. (console'.at = "counting" /\ (console'.job \in {"change", "limit"} \/ file' = Baseline))
        => JobsAreDone' /\ QuitIsRestoring'
  BY DEF JobsAreDone, QuitIsRestoring, Here, Stored, Reloading
<1>u. UNCHANGED <<file, console>> => JobsAreDone' /\ QuitIsRestoring'
  BY DEF JobsAreDone, QuitIsRestoring, Here
<1>g. \A p \in Stations \ {"asking", "ending"} :
          Go(p) => console'.at = p /\ console'.job = console.job
  BY <1>t, GoOn
<1>1. CASE toggleTraffic \/ measureDistribution \/ leave \/ EndInterrupted \/ demonstrateRateLimit \/ reset
  <2>1. Go(Prompt) \/ (\E next \in Onward : halt(next))
    BY <1>1 DEF toggleTraffic, measureDistribution, leave, EndInterrupted, demonstrateRateLimit, reset,
                Onward
  <2> QED
    BY <1>p, <1>h, <2>1
<1>2. CASE changeBackend \/ Measured \/ add \/ Clearing
  <2>1. Go(Prompt)
    BY <1>2 DEF changeBackend, Measured, add, Clearing
  <2> QED
    BY <1>p, <2>1
<1>3. CASE misbehave
  <2>1. Go(Prompt) \/ \E put : console' = [console EXCEPT !.at = "recording", !.injected = put]
    BY <1>3, Zenon DEF misbehave
  <2>2. Go(Prompt) \/ console'.at = "recording"
    BY <1>t, <2>1 DEF Choice
  <2> QED
    BY <1>p, <1>e, <2>2
<1>4. CASE changeAlgorithm
  <2>1. Go(Prompt) \/ \E content : applyConfig(content, "change")
    BY <1>4, Zenon DEF changeAlgorithm
  <2>2. Go(Prompt) \/ console' = [console EXCEPT !.at = "counting", !.job = "change"]
    BY <2>1, Zenon DEF applyConfig
  <2>3. Go(Prompt) \/ (console'.at = "counting" /\ console'.job = "change")
    BY <1>t, <2>2 DEF Choice
  <2> QED
    BY <1>p, <1>c, <2>3
<1>5. CASE toggleSticky \/ Raise
  <2>1. \E content : applyConfig(content, "change")
    BY <1>5, Zenon DEF toggleSticky, Raise
  <2>2. console' = [console EXCEPT !.at = "counting", !.job = "change"]
    BY <2>1, Zenon DEF applyConfig
  <2>3. console'.at = "counting" /\ console'.job = "change"
    BY <1>t, <2>2 DEF Choice
  <2> QED
    BY <1>c, <2>3
<1>6. CASE Lower
  <2>1. console' = [console EXCEPT !.at = "counting", !.job = "limit", !.previous = file.limit]
    BY <1>6 DEF Lower
  <2>2. console'.at = "counting" /\ console'.job = "limit"
    BY <1>t, <2>1 DEF Choice
  <2> QED
    BY <1>c, <2>2
<1>7. CASE Halted
  <2>1. CASE console.next = "back"
    BY <1>7, <1>p, <2>1 DEF Halted
  <2>2. CASE console.next # "back"
    <3>1. /\ console.next \in Stations \ {"asking", "ending"} /\ Go(console.next)
          /\ console.next \in {"measuring", "lowering", "resetting", "leaving", "gone"}
      BY <1>7, <1>t, <2>2 DEF Halted, Choice, Onward, Stations
    <3> QED
      BY <1>e, <1>g, <3>1
  <2> QED
    BY <2>1, <2>2
<1>8. CASE CountReloads
  <2>1. PICK n : console' = [console EXCEPT !.at = "signalling", !.applied = n]
    BY <1>8, Zenon DEF CountReloads
  <2>2. console'.at = "signalling" /\ console'.job = console.job /\ console.at = "counting"
    BY <1>8, <1>t, <2>1 DEF Choice, CountReloads, Here
  <2>3. file' = file
    BY <1>8 DEF CountReloads
  <2> QED
    BY <2>2, <2>3 DEF JobsAreDone, QuitIsRestoring, Here, Stored, Reloading
<1>9. CASE Signal
  <2>1. Here("signalling") /\ file' = file
    BY <1>9 DEF Signal
  <2>2. Go("confirming") \/ Go(AfterError)
    BY <1>9 DEF Signal
  <2>3. CASE Go("confirming")
    <3>1. console'.at = "confirming" /\ console'.job = console.job
      BY <1>g, <2>3 DEF Stations
    <3> QED
      BY <2>1, <3>1 DEF JobsAreDone, QuitIsRestoring, Here, Stored, Reloading
  <2>4. CASE Go(AfterError) /\ console.job = "quit"
    <3>1. console'.at = "confirming_quit" /\ console'.job = console.job
      BY <1>g, <2>4 DEF Stations, AfterError
    <3> QED
      BY <2>1, <2>4, <3>1 DEF JobsAreDone, QuitIsRestoring, Here, Stored, Reloading
  <2>5. CASE Go(AfterError) /\ console.job # "quit"
    BY <1>p, <2>5 DEF AfterError
  <2> QED
    BY <2>2, <2>3, <2>4, <2>5
<1>10. CASE Confirmed \/ Unconfirmed
  <2>1. Here("confirming") /\ file' = file /\ Go(AfterReload)
    BY <1>10 DEF Confirmed, Unconfirmed
  <2>2. CASE console.job = "limit"
    <3>1. console'.at = "bursting" /\ console'.job = "limit"
      BY <1>g, <2>1, <2>2 DEF Stations, AfterReload
    <3> QED
      BY <3>1 DEF JobsAreDone, QuitIsRestoring, Here, Stored, Reloading
  <2>3. CASE console.job \in {"reset", "quit"}
    <3>1. console'.at = "starting" /\ console'.job = console.job
      BY <1>g, <2>1, <2>3 DEF Stations, AfterReload
    <3> QED
      BY <2>1, <2>3, <3>1 DEF JobsAreDone, QuitIsRestoring, Here, Stored, Reloading
  <2>4. CASE console.job \notin {"limit", "reset", "quit"}
    <3>1. Go(Prompt)
      BY <2>1, <2>4 DEF AfterReload
    <3> QED
      BY <1>p, <3>1
  <2> QED
    BY <2>2, <2>3, <2>4
<1>11. CASE Resetting
  BY <1>11, <1>t, <1>j, <1>c, Restored DEF Resetting
<1>12. CASE StartAll
  <2>1. Here("starting") /\ file' = file
    BY <1>12 DEF StartAll
  <2>2. Go(IF console.job = "quit" THEN "confirming_quit" ELSE "clearing") \/ Go(AfterError)
    BY <1>12, Zenon DEF StartAll
  <2>3. CASE console.job = "quit"
    <3>1. console'.at = "confirming_quit" /\ console'.job = "quit"
      BY <1>g, <2>2, <2>3 DEF Stations, AfterError
    <3> QED
      BY <2>1, <2>3, <3>1 DEF JobsAreDone, QuitIsRestoring, Here, Stored, Reloading
  <2>4. CASE console.job # "quit" /\ Go("clearing")
    <3>1. console'.at = "clearing" /\ console'.job = console.job
      BY <1>g, <2>4 DEF Stations
    <3> QED
      BY <2>1, <2>4, <3>1 DEF JobsAreDone, QuitIsRestoring, Here, Stored, Reloading
  <2>5. CASE console.job # "quit" /\ Go(Prompt)
    BY <1>p, <2>5
  <2> QED
    BY <2>2, <2>3, <2>4, <2>5 DEF AfterError
<1>13. CASE LeaveFaults
  <2>1. Go("leaving_file") /\ "leaving_file" \in Stations \ {"asking", "ending"}
    BY <1>13 DEF LeaveFaults, Stations
  <2> QED
    BY <1>g, <1>e, <2>1
<1>14. CASE LeaveFile
  <2>1. CASE file # Baseline
    <3>1. restore("quit")
      BY <1>14, <2>1 DEF LeaveFile
    <3> QED
      BY <1>t, <1>j, <1>c, <3>1, Restored
  <2>2. CASE file = Baseline
    <3>1. Go("confirming_quit") /\ file' = file /\ "confirming_quit" \in Stations \ {"asking", "ending"}
      BY <1>14, <2>2 DEF LeaveFile, Stations
    <3>2. console'.at = "confirming_quit"
      BY <1>g, <3>1
    <3> QED
      BY <2>2, <3>1, <3>2 DEF JobsAreDone, QuitIsRestoring, Here, Stored, Reloading
  <2> QED
    BY <2>1, <2>2
<1>15. CASE Quit
  <2>1. Go("left") /\ file' = file /\ Here("confirming_quit") /\ "left" \in Stations \ {"asking", "ending"}
    BY <1>15 DEF Quit, Stations
  <2>2. console'.at = "left"
    BY <1>g, <2>1
  <2> QED
    BY <2>1, <2>2 DEF JobsAreDone, QuitIsRestoring, Here, Stored, Reloading
<1>16. CASE Beside \/ Interrupt \/ TimePasses \/ UNCHANGED consoleVars
  <2>1. UNCHANGED <<file, console>>
    BY <1>16 DEF Beside, LoadFile, Apply, SetSticky, StreamEnds, Interrupt, TimePasses, consoleVars
  <2> QED
    BY <1>u, <2>1
<1> QED
  BY <1>1, <1>2, <1>3, <1>4, <1>5, <1>6, <1>7, <1>8, <1>9, <1>10, <1>11, <1>12, <1>13, <1>14, <1>15,
     <1>16 DEF ConsoleNext, Operator, Carry

\* So the file is restored at every place of a quit after that.
LEMMA QuitInvariant == ConsoleSpec => [](ConsoleTypeOK /\ JobsAreDone /\ QuitIsRestoring)
<1> DEFINE I == ConsoleTypeOK /\ JobsAreDone /\ QuitIsRestoring
<1>1. ConsoleInit => I
  <2> SUFFICES ASSUME ConsoleInit PROVE I
    OBVIOUS
  <2>1. file = Baseline /\ file \in Contents
    BY BaselineIs DEF ConsoleInit
  <2>2. balancer \in Balancers
    BY BaselineIs DEF ConsoleInit, Balancers
  <2>3. flow \in Flows
    BY DEF ConsoleInit, Flows
  <2>4. stack \in Stacks /\ book \in Left
    BY DEF ConsoleInit, Stacks, Left
  <2>5. console \in Choice /\ console.at = "asking" /\ console.job = "change"
    BY DEF ConsoleInit, Asking, Choice, Stations, Onward, Jobs, Limits
  <2>6. interrupted \in BOOLEAN /\ mishaps \in Nat
    BY DEF ConsoleInit
  <2>7. ConsoleTypeOK
    BY <2>1, <2>2, <2>3, <2>4, <2>5, <2>6 DEF ConsoleTypeOK
  <2>8. JobsAreDone /\ QuitIsRestoring
    BY <2>5 DEF JobsAreDone, QuitIsRestoring, Here, Stored, Reloading
  <2> QED
    BY <2>7, <2>8
<1>2. I /\ [ConsoleNext]_consoleVars => I'
  BY ConsoleTypeStep, QuitStep
<1> QED
  BY <1>1, <1>2, PTL DEF ConsoleSpec

\* Whatever was chosen before and however requests fail, a console that quits leaves the
\* file as it found it (quit, restore).
THEOREM QuitLeavesTheFile == ConsoleSpec => []QuitRestores
<1>1. QuitIsRestoring => QuitRestores
  BY DEF QuitIsRestoring, QuitRestores, Here
<1> QED
  BY <1>1, QuitInvariant, PTL

\* The balancer runs what the file says, but for the sticky mode it has still to tell.
Applied ==
    /\ ~balancer.hup
    /\ \/ balancer.doing = "waiting" /\ balancer.live = file
       \/ balancer.doing = "counted" /\ balancer.read = file

\* The balancer waits for the next signal.
Ready == balancer.doing \in {"waiting", "counted"}

\* Where the balancer stands while the console has a change applied.
ReloadKnown ==
    /\ console.at \notin Reloading => Applied
    /\ Here("counting") => (~balancer.hup /\ Ready)
    /\ Here("signalling") => (~balancer.hup /\ Ready /\ balancer.reloads = console.applied)
    /\ Here("confirming") =>
          \/ balancer.hup /\ Ready /\ balancer.reloads = console.applied
          \/ /\ ~balancer.hup /\ balancer.doing = "loaded" /\ balancer.read = file
             /\ balancer.reloads = console.applied
          \/ Applied /\ balancer.reloads = console.applied + 1

\* The services that are asked for a fault of another kind than a freeze.
Thawed == Services \ Freezing

\* The usual limit is in the file, or kept by the choice that lowered it.
LimitKnown ==
    IF console.job = "limit" /\ console.at \in Reloading \cup {"bursting"}
    THEN console.previous = "usual" ELSE file.limit = "usual"

\* No fault but a freeze outlasts what the book says, but the one just asked for; and a
\* reset knows every service whose faults it will clear.
FaultsKnown ==
    /\ Here("recording") =>
          \E s \in Services, l \in Nat :
             /\ console.injected = {<<s, l>>} /\ (s \notin Freezing => stack.fault[s] <= l)
             /\ \A r \in Thawed \ {s} : stack.fault[r] <= book[r]
    /\ ~Here("recording") => \A s \in Thawed : stack.fault[s] <= book[s]
    /\ (console.job = "reset" /\ console.at \in Stored) => console.known = Services

\* When nothing has failed, a request of the stack succeeds.
LEMMA Smoothly ==
    ASSUME ConsoleTypeOK, Untroubled', interrupted => interrupted', NEW ok \in BOOLEAN, Try(ok)
    PROVE  ok
BY Tried DEF ConsoleTypeOK, Untroubled

\* While nothing has failed, a step keeps what is known of the reload (applyConfig,
\* awaitReload).
LEMMA ReloadStep ==
    ASSUME ConsoleTypeOK, ReloadKnown, ConsoleNext, interrupted => interrupted', Untroubled'
    PROVE  ReloadKnown'
<1>t. file \in Contents /\ flow \in Flows /\ console \in Choice /\ mishaps \in Nat /\ balancer \in Balancers
  BY DEF ConsoleTypeOK
<1>v. ~interrupted /\ ~interrupted' /\ Prompt = "asking"
  BY DEF Untroubled, Prompt
<1>j. {"change", "limit", "reset", "quit"} \subseteq Jobs
  BY DEF Jobs
<1>n. (UNCHANGED <<file, balancer>> /\ console.at \notin Reloading /\ console'.at \notin Reloading)
          => ReloadKnown'
  BY DEF ReloadKnown, Applied, Reloading, Here
<1>b. (UNCHANGED balancer /\ console.at \notin Reloading /\ console'.at = "counting") => ReloadKnown'
  BY DEF ReloadKnown, Applied, Ready, Reloading, Here
<1>u. UNCHANGED <<file, balancer, console>> => ReloadKnown'
  BY DEF ReloadKnown, Applied, Ready, Here
<1>p. (Go(Prompt) /\ UNCHANGED <<file, balancer>> /\ console.at \notin Reloading) => ReloadKnown'
  BY <1>n, GoPrompt DEF Reloading
<1>h. \A next \in Onward :
        (halt(next) /\ UNCHANGED <<file, balancer>> /\ console.at \notin Reloading) => ReloadKnown'
  BY <1>n, <1>t, Halting DEF Reloading
<1>g. \A p \in Stations \ {"asking", "ending"} :
          Go(p) => (console'.at = p /\ console'.job = console.job /\ console'.applied = console.applied)
  BY <1>t, GoOn
<1>1. CASE toggleTraffic \/ measureDistribution \/ leave \/ EndInterrupted \/ demonstrateRateLimit \/ reset
  <2>1. UNCHANGED <<file, balancer>> /\ console.at \notin Reloading
    BY <1>1 DEF toggleTraffic, measureDistribution, leave, EndInterrupted, demonstrateRateLimit, reset,
                Here, Reloading
  <2>2. Go(Prompt) \/ (\E next \in Onward : halt(next))
    BY <1>1 DEF toggleTraffic, measureDistribution, leave, EndInterrupted, demonstrateRateLimit, reset,
                Onward
  <2> QED
    BY <1>p, <1>h, <2>1, <2>2
<1>2. CASE changeBackend \/ Measured \/ add \/ Clearing
  <2>1. Go(Prompt) /\ UNCHANGED <<file, balancer>> /\ console.at \notin Reloading
    BY <1>2 DEF changeBackend, Measured, add, Clearing, Here, Reloading
  <2> QED
    BY <1>p, <2>1
<1>3. CASE misbehave
  <2>1. Go(Prompt) \/ \E put : console' = [console EXCEPT !.at = "recording", !.injected = put]
    BY <1>3, Zenon DEF misbehave
  <2>2. Go(Prompt) \/ console'.at = "recording"
    BY <1>t, <2>1 DEF Choice
  <2>3. UNCHANGED <<file, balancer>> /\ console.at \notin Reloading
    BY <1>3 DEF misbehave, Here, Reloading
  <2>4. "recording" \notin Reloading
    BY DEF Reloading
  <2> QED
    BY <1>p, <1>n, <2>2, <2>3, <2>4
<1>4. CASE changeAlgorithm
  <2>1. (Go(Prompt) /\ UNCHANGED <<file, balancer>>) \/ \E content : applyConfig(content, "change")
    BY <1>4, Zenon DEF changeAlgorithm
  <2>2. \/ Go(Prompt) /\ UNCHANGED <<file, balancer>>
        \/ console' = [console EXCEPT !.at = "counting", !.job = "change"] /\ UNCHANGED balancer
    BY <2>1, Zenon DEF applyConfig
  <2>3. (Go(Prompt) /\ UNCHANGED <<file, balancer>>) \/ (console'.at = "counting" /\ UNCHANGED balancer)
    BY <1>t, <2>2 DEF Choice
  <2>4. console.at \notin Reloading
    BY <1>4 DEF changeAlgorithm, Here, Reloading
  <2> QED
    BY <1>p, <1>b, <2>3, <2>4
<1>5. CASE toggleSticky \/ Raise
  <2>1. \E content : applyConfig(content, "change")
    BY <1>5, Zenon DEF toggleSticky, Raise
  <2>2. console' = [console EXCEPT !.at = "counting", !.job = "change"] /\ UNCHANGED balancer
    BY <2>1, Zenon DEF applyConfig
  <2>3. console'.at = "counting"
    BY <1>t, <2>2 DEF Choice
  <2>4. console.at \notin Reloading
    BY <1>5 DEF toggleSticky, Raise, Here, Reloading
  <2> QED
    BY <1>b, <2>2, <2>3, <2>4
<1>6. CASE Lower
  <2>1. console' = [console EXCEPT !.at = "counting", !.job = "limit", !.previous = file.limit]
    BY <1>6 DEF Lower
  <2>2. console'.at = "counting"
    BY <1>t, <2>1 DEF Choice
  <2>3. console.at \notin Reloading /\ UNCHANGED balancer
    BY <1>6 DEF Lower, Here, Reloading
  <2> QED
    BY <1>b, <2>2, <2>3
<1>7. CASE Halted
  <2>1. UNCHANGED <<file, balancer>> /\ console.at \notin Reloading
    BY <1>7 DEF Halted, Here, Reloading
  <2>2. CASE console.next = "back"
    BY <1>7, <1>p, <2>1, <2>2 DEF Halted
  <2>3. CASE console.next # "back"
    <3>1. /\ console.next \in Stations \ {"asking", "ending"} /\ Go(console.next)
          /\ console.next \notin Reloading
      BY <1>7, <1>t, <2>3 DEF Halted, Choice, Onward, Stations, Reloading
    <3> QED
      BY <1>n, <1>g, <2>1, <3>1
  <2> QED
    BY <2>2, <2>3
<1>8. CASE CountReloads
  <2>1. PICK ok \in BOOLEAN :
          Try(ok) /\ console' = [console EXCEPT !.at = "signalling",
                                        !.applied = IF ok THEN balancer.reloads ELSE -1]
    BY <1>8 DEF CountReloads
  <2>2. ok
    BY <2>1, Smoothly
  <2>3. console'.at = "signalling" /\ console'.applied = balancer.reloads
    BY <1>t, <2>1, <2>2 DEF Choice
  <2>4. Here("counting") /\ UNCHANGED <<file, balancer>>
    BY <1>8 DEF CountReloads
  <2> QED
    BY <2>3, <2>4 DEF ReloadKnown, Ready, Here, Reloading
<1>9. CASE Signal
  <2>1. PICK ok \in BOOLEAN :
          /\ Try(ok)
          /\ IF ok THEN balancer' = [balancer EXCEPT !.hup = TRUE] /\ Go("confirming")
             ELSE UNCHANGED balancer /\ Go(AfterError)
    BY <1>9 DEF Signal
  <2>2. ok
    BY <2>1, Smoothly
  <2>3. "confirming" \in Stations \ {"asking", "ending"}
    BY DEF Stations
  <2>4. console'.at = "confirming" /\ console'.applied = console.applied
    BY <1>g, <2>1, <2>2, <2>3
  <2>5. balancer'.hup = TRUE /\ balancer'.doing = balancer.doing /\ balancer'.reloads = balancer.reloads
    BY <1>t, <2>1, <2>2 DEF Balancers
  <2>6. Here("signalling")
    BY <1>9 DEF Signal
  <2> QED
    BY <2>4, <2>5, <2>6 DEF ReloadKnown, Ready, Here, Reloading
<1>10. CASE Confirmed
  <2>1. /\ Here("confirming") /\ Go(AfterReload) /\ UNCHANGED <<file, balancer>>
        /\ balancer.reloads > console.applied
    BY <1>10 DEF Confirmed
  <2>2. balancer.reloads \in Nat /\ console.applied \in Int
    BY <1>t DEF Balancers, Choice
  <2>3. Applied
    BY <2>1, <2>2 DEF ReloadKnown
  <2>4. console'.at \notin Reloading
    <3>1. CASE AfterReload = Prompt
      BY <2>1, <3>1, GoPrompt DEF Reloading
    <3>2. CASE AfterReload # Prompt
      <4>1. AfterReload \in {"bursting", "starting"}
        BY <3>2 DEF AfterReload
      <4>2. AfterReload \in Stations \ {"asking", "ending"}
        BY <4>1 DEF Stations
      <4> QED
        BY <1>g, <2>1, <4>1, <4>2 DEF Reloading
    <3> QED
      BY <3>1, <3>2
  <2>5. Applied'
    BY <2>1, <2>3 DEF Applied
  <2> QED
    BY <2>4, <2>5 DEF ReloadKnown, Here, Reloading
<1>11. CASE Unconfirmed
  BY <1>11, Smoothly DEF Unconfirmed
<1>12. CASE Resetting
  <2>1. restore("reset") /\ UNCHANGED balancer /\ console.at \notin Reloading
    BY <1>12 DEF Resetting, Here, Reloading
  <2> QED
    BY <1>t, <1>j, <1>b, <2>1, Restored
<1>13. CASE StartAll
  <2>1. /\ Go(IF console.job = "quit" THEN "confirming_quit" ELSE "clearing") \/ Go(AfterError)
        /\ UNCHANGED <<file, balancer>> /\ console.at \notin Reloading
    BY <1>13, Zenon DEF StartAll, Here, Reloading
  <2>2. Go(Prompt) \/ Go("confirming_quit") \/ Go("clearing")
    BY <2>1 DEF AfterError
  <2>3. {"confirming_quit", "clearing"} \subseteq (Stations \ {"asking", "ending"}) \ Reloading
    BY DEF Stations, Reloading
  <2> QED
    BY <1>p, <1>n, <1>g, <2>1, <2>2, <2>3
<1>14. CASE LeaveFaults
  <2>1. Go("leaving_file") /\ "leaving_file" \in (Stations \ {"asking", "ending"}) \ Reloading
    BY <1>14 DEF LeaveFaults, Stations, Reloading
  <2>2. UNCHANGED <<file, balancer>> /\ console.at \notin Reloading
    BY <1>14 DEF LeaveFaults, Here, Reloading
  <2> QED
    BY <1>g, <1>n, <2>1, <2>2
<1>15. CASE LeaveFile
  <2>1. UNCHANGED balancer /\ console.at \notin Reloading
    BY <1>15 DEF LeaveFile, Here, Reloading
  <2>2. CASE file # Baseline
    <3>1. restore("quit")
      BY <1>15, <2>2 DEF LeaveFile
    <3> QED
      BY <1>t, <1>j, <1>b, <2>1, <3>1, Restored
  <2>3. CASE file = Baseline
    <3>1. Go("confirming_quit") /\ file' = file
          /\ "confirming_quit" \in (Stations \ {"asking", "ending"}) \ Reloading
      BY <1>15, <2>3 DEF LeaveFile, Stations, Reloading
    <3> QED
      BY <1>g, <1>n, <2>1, <3>1
  <2> QED
    BY <2>2, <2>3
<1>16. CASE Quit
  <2>1. /\ Go("left") /\ UNCHANGED <<file, balancer>> /\ console.at \notin Reloading
        /\ "left" \in (Stations \ {"asking", "ending"}) \ Reloading
    BY <1>16 DEF Quit, Here, Stations, Reloading
  <2> QED
    BY <1>g, <1>n, <2>1
<1>17. CASE LoadFile
  <2>1. /\ balancer.hup /\ balancer.doing = "waiting" /\ UNCHANGED <<file, console>>
        /\ balancer' = [balancer EXCEPT !.hup = FALSE, !.doing = "loaded", !.read = file]
    BY <1>17 DEF LoadFile
  <2>2. /\ balancer'.hup = FALSE /\ balancer'.doing = "loaded" /\ balancer'.read = file
        /\ balancer'.reloads = balancer.reloads
    BY <1>t, <2>1 DEF Balancers
  <2>3. Here("confirming") /\ balancer.reloads = console.applied
    BY <1>t, <2>1 DEF ReloadKnown, Applied, Reloading, Here
  <2> QED
    BY <2>1, <2>2, <2>3 DEF ReloadKnown, Reloading, Here
<1>18. CASE Apply
  <2>1. /\ balancer.doing = "loaded" /\ UNCHANGED <<file, console>>
        /\ balancer' = [balancer EXCEPT !.doing = "counted", !.reloads = @ + 1,
                                    !.live = [balancer.read EXCEPT !.sticky = balancer.live.sticky]]
    BY <1>18 DEF Apply
  <2>2. /\ balancer'.hup = balancer.hup /\ balancer'.doing = "counted" /\ balancer'.read = balancer.read
        /\ balancer'.reloads = balancer.reloads + 1
    BY <1>t, <2>1 DEF Balancers
  <2>3. /\ Here("confirming") /\ balancer.reloads = console.applied
        /\ ~balancer.hup /\ balancer.read = file
    BY <2>1 DEF ReloadKnown, Applied, Ready, Reloading, Here
  <2> QED
    BY <2>1, <2>2, <2>3 DEF ReloadKnown, Applied, Reloading, Here
<1>19. CASE SetSticky
  <2>1. /\ balancer.doing = "counted" /\ UNCHANGED <<file, console>>
        /\ balancer' = [balancer EXCEPT !.doing = "waiting", !.live = balancer.read]
    BY <1>19 DEF SetSticky
  <2>2. /\ balancer'.hup = balancer.hup /\ balancer'.doing = "waiting" /\ balancer'.live = balancer.read
        /\ balancer'.reloads = balancer.reloads
    BY <1>t, <2>1 DEF Balancers
  <2>3. Applied => Applied'
    BY <2>1, <2>2 DEF Applied
  <2> QED
    BY <2>1, <2>2, <2>3 DEF ReloadKnown, Ready, Reloading, Here
<1>20. CASE StreamEnds \/ TimePasses
  <2>1. UNCHANGED <<file, balancer, console>>
    BY <1>20 DEF StreamEnds, TimePasses
  <2> QED
    BY <1>u, <2>1
<1>21. CASE Interrupt
  BY <1>21, <1>v DEF Interrupt
<1> QED
  BY <1>1, <1>2, <1>3, <1>4, <1>5, <1>6, <1>7, <1>8, <1>9, <1>10, <1>11, <1>12, <1>13, <1>14, <1>15,
     <1>16, <1>17, <1>18, <1>19, <1>20, <1>21 DEF ConsoleNext, Operator, Carry, Beside

\* While nothing has failed, a step keeps what is known of the limit (rateLimit, restore).
LEMMA LimitStep ==
    ASSUME ConsoleTypeOK, JobsAreDone, LimitKnown, ConsoleNext,
           interrupted => interrupted', Untroubled'
    PROVE  LimitKnown'
<1>t. file \in Contents /\ flow \in Flows /\ console \in Choice /\ mishaps \in Nat
  BY DEF ConsoleTypeOK
<1>j. {"change", "limit", "reset", "quit"} \subseteq Jobs
  BY DEF Jobs
<1>l. console.job # "limit" \/ console.at \notin Reloading \cup {"bursting"} => file.limit = "usual"
  BY DEF LimitKnown
<1>n. (file'.limit = "usual" /\ (console'.job # "limit" \/ console'.at \notin Reloading \cup {"bursting"}))
          => LimitKnown'
  BY DEF LimitKnown
<1>p. (Go(Prompt) /\ file' = file /\ (console.job # "limit" \/ console.at \notin Reloading \cup {"bursting"}))
          => LimitKnown'
  BY <1>n, <1>l, GoPrompt
<1>h. \A next \in Onward :
        (halt(next) /\ file' = file /\ console.at \notin Reloading \cup {"bursting"}) => LimitKnown'
  BY <1>n, <1>l, <1>t, Halting DEF Reloading
<1>g. \A p \in Stations \ {"asking", "ending"} :
          Go(p) => (console'.at = p /\ console'.job = console.job /\ console'.previous = console.previous)
  BY <1>t, GoOn
<1>o. \A p \in Stations \ {"asking", "ending"} :
          (Go(p) /\ file' = file /\ console.at \notin Reloading \cup {"bursting"}
             /\ p \notin Reloading \cup {"bursting"}) => LimitKnown'
  BY <1>g, <1>l, <1>n
<1>1. CASE toggleTraffic \/ measureDistribution \/ leave \/ EndInterrupted \/ demonstrateRateLimit \/ reset
  <2>1. file' = file /\ console.at \notin Reloading \cup {"bursting"}
    BY <1>1 DEF toggleTraffic, measureDistribution, leave, EndInterrupted, demonstrateRateLimit, reset,
                Here, Reloading
  <2>2. Go(Prompt) \/ (\E next \in Onward : halt(next))
    BY <1>1 DEF toggleTraffic, measureDistribution, leave, EndInterrupted, demonstrateRateLimit, reset,
                Onward
  <2> QED
    BY <1>p, <1>h, <2>1, <2>2
<1>2. CASE changeBackend \/ Measured \/ add \/ Clearing
  <2>1. Go(Prompt) /\ file' = file /\ console.at \notin Reloading \cup {"bursting"}
    BY <1>2 DEF changeBackend, Measured, add, Clearing, Here, Reloading
  <2> QED
    BY <1>p, <2>1
<1>3. CASE misbehave
  <2>1. Go(Prompt) \/ \E put : console' = [console EXCEPT !.at = "recording", !.injected = put]
    BY <1>3, Zenon DEF misbehave
  <2>2. Go(Prompt) \/ console'.at = "recording"
    BY <1>t, <2>1 DEF Choice
  <2>3. file' = file /\ console.at \notin Reloading \cup {"bursting"}
    BY <1>3 DEF misbehave, Here, Reloading
  <2>4. "recording" \notin Reloading \cup {"bursting"}
    BY DEF Reloading
  <2> QED
    BY <1>p, <1>n, <1>l, <2>2, <2>3, <2>4
<1>4. CASE changeAlgorithm \/ toggleSticky
  <2>1. \/ Go(Prompt) /\ file' = file
        \/ \E content \in Contents : content.limit = file.limit /\ applyConfig(content, "change")
    <3>1. CASE \E name \in Algorithms : applyConfig(setScalar(file, "algorithm", name), "change")
      <4>1. PICK name \in Algorithms : applyConfig(setScalar(file, "algorithm", name), "change")
        BY <3>1
      <4> QED
        BY <1>t, <4>1, Rewritten
    <3>2. CASE applyConfig(setBackendWeight(setScalar(file, "algorithm", "weighted_round_robin")), "change")
      BY <1>t, <3>2, Weighted
    <3>3. CASE \E ok \in BOOLEAN : applyConfig(setScalar(file, "sticky", ~(ok /\ balancer.live.sticky)), "change")
      <4>1. PICK ok \in BOOLEAN : applyConfig(setScalar(file, "sticky", ~(ok /\ balancer.live.sticky)), "change")
        BY <3>3
      <4>2. (~(ok /\ balancer.live.sticky)) \in BOOLEAN
        OBVIOUS
      <4> QED
        BY <1>t, <4>1, <4>2, Rewritten
    <3> QED
      BY <1>4, <3>1, <3>2, <3>3, Zenon DEF changeAlgorithm, toggleSticky
  <2>2. console.at \notin Reloading \cup {"bursting"}
    BY <1>4 DEF changeAlgorithm, toggleSticky, Here, Reloading
  <2>3. CASE \E content \in Contents : content.limit = file.limit /\ applyConfig(content, "change")
    <3>1. PICK content \in Contents : content.limit = file.limit /\ applyConfig(content, "change")
      BY <2>3
    <3>2. console'.job = "change" /\ file' = content
      BY <1>t, <1>j, <3>1, ConfigApplied
    <3> QED
      BY <1>n, <1>l, <2>2, <3>1, <3>2
  <2> QED
    BY <1>p, <2>1, <2>2, <2>3
<1>5. CASE Lower
  <2>1. /\ console' = [console EXCEPT !.at = "counting", !.job = "limit", !.previous = file.limit]
        /\ Here("lowering")
    BY <1>5 DEF Lower
  <2>2. console'.at = "counting" /\ console'.previous = file.limit /\ console'.job = "limit"
    BY <1>t, <2>1 DEF Choice
  <2>3. file.limit = "usual"
    BY <1>l, <2>1 DEF Here, Reloading
  <2> QED
    BY <2>2, <2>3 DEF LimitKnown, Reloading
<1>6. CASE Raise
  <2>1. Here("bursting") /\ applyConfig(setScalar(file, "limit", console.previous), "change")
    BY <1>6 DEF Raise
  <2>2. console.previous = "usual"
    BY <2>1 DEF JobsAreDone, LimitKnown, Here
  <2>3. /\ setScalar(file, "limit", console.previous) \in Contents
        /\ setScalar(file, "limit", console.previous).limit = "usual"
    BY <1>t, <2>2, Rewritten DEF Limits
  <2>4. console'.job = "change" /\ file'.limit = "usual"
    BY <1>t, <1>j, <2>1, <2>3, ConfigApplied
  <2> QED
    BY <1>n, <2>4
<1>7. CASE Halted
  <2>1. file' = file /\ console.at \notin Reloading \cup {"bursting"}
    BY <1>7 DEF Halted, Here, Reloading
  <2>2. CASE console.next = "back"
    BY <1>7, <1>p, <2>1, <2>2 DEF Halted
  <2>3. CASE console.next # "back"
    <3>1. /\ console.next \in Stations \ {"asking", "ending"} /\ Go(console.next)
          /\ console.next \notin Reloading \cup {"bursting"}
      BY <1>7, <1>t, <2>3 DEF Halted, Choice, Onward, Stations, Reloading
    <3> QED
      BY <1>o, <2>1, <3>1
  <2> QED
    BY <2>2, <2>3
<1>8. CASE CountReloads
  <2>1. PICK n : console' = [console EXCEPT !.at = "signalling", !.applied = n]
    BY <1>8, Zenon DEF CountReloads
  <2>2. /\ console'.at = "signalling" /\ console'.job = console.job /\ console'.previous = console.previous
        /\ console.at = "counting" /\ file' = file
    BY <1>8, <1>t, <2>1 DEF Choice, CountReloads, Here
  <2> QED
    BY <2>2 DEF LimitKnown, Reloading
<1>9. CASE Signal
  <2>1. PICK ok \in BOOLEAN :
          /\ Try(ok)
          /\ IF ok THEN balancer' = [balancer EXCEPT !.hup = TRUE] /\ Go("confirming")
             ELSE UNCHANGED balancer /\ Go(AfterError)
    BY <1>9 DEF Signal
  <2>2. ok
    BY <2>1, Smoothly
  <2>3. Here("signalling") /\ file' = file /\ "confirming" \in Stations \ {"asking", "ending"}
    BY <1>9 DEF Signal, Stations
  <2>4. /\ console'.at = "confirming" /\ console'.job = console.job
        /\ console'.previous = console.previous
    BY <1>g, <2>1, <2>2, <2>3
  <2> QED
    BY <2>3, <2>4 DEF LimitKnown, Here, Reloading
<1>10. CASE Confirmed \/ Unconfirmed
  <2>1. Here("confirming") /\ file' = file /\ Go(AfterReload)
    BY <1>10 DEF Confirmed, Unconfirmed
  <2>2. CASE console.job = "limit"
    <3>1. Go("bursting") /\ "bursting" \in Stations \ {"asking", "ending"}
      BY <2>1, <2>2 DEF AfterReload, Stations
    <3>2. console'.at = "bursting" /\ console'.job = "limit" /\ console'.previous = console.previous
      BY <1>g, <2>2, <3>1
    <3> QED
      BY <2>1, <2>2, <3>2 DEF LimitKnown, Here, Reloading
  <2>3. CASE console.job \in {"reset", "quit"}
    <3>1. Go("starting") /\ "starting" \in Stations \ {"asking", "ending"}
      BY <2>1, <2>3 DEF AfterReload, Stations
    <3>2. console'.job # "limit"
      BY <1>g, <2>3, <3>1
    <3> QED
      BY <1>n, <1>l, <2>1, <2>3, <3>2
  <2>4. CASE console.job \notin {"limit", "reset", "quit"}
    <3>1. Go(Prompt)
      BY <2>1, <2>4 DEF AfterReload
    <3> QED
      BY <1>p, <2>1, <2>4, <3>1
  <2> QED
    BY <2>2, <2>3, <2>4
<1>11. CASE Resetting
  <2>1. restore("reset")
    BY <1>11 DEF Resetting
  <2> QED
    BY <1>t, <1>j, <1>n, <2>1, Restored, BaselineIs
<1>12. CASE StartAll
  <2>1. /\ Go(IF console.job = "quit" THEN "confirming_quit" ELSE "clearing") \/ Go(AfterError)
        /\ file' = file /\ console.at \notin Reloading \cup {"bursting"}
    BY <1>12, Zenon DEF StartAll, Here, Reloading
  <2>2. Go(Prompt) \/ Go("confirming_quit") \/ Go("clearing")
    BY <2>1 DEF AfterError
  <2>3. {"confirming_quit", "clearing"} \subseteq (Stations \ {"asking", "ending"}) \ (Reloading \cup {"bursting"})
    BY DEF Stations, Reloading
  <2> QED
    BY <1>p, <1>o, <2>1, <2>2, <2>3
<1>13. CASE LeaveFaults
  <2>1. Go("leaving_file") /\ "leaving_file" \in (Stations \ {"asking", "ending"}) \ (Reloading \cup {"bursting"})
    BY <1>13 DEF LeaveFaults, Stations, Reloading
  <2>2. file' = file /\ console.at \notin Reloading \cup {"bursting"}
    BY <1>13 DEF LeaveFaults, Here, Reloading
  <2> QED
    BY <1>o, <2>1, <2>2
<1>14. CASE LeaveFile
  <2>1. console.at \notin Reloading \cup {"bursting"}
    BY <1>14 DEF LeaveFile, Here, Reloading
  <2>2. CASE file # Baseline
    <3>1. restore("quit")
      BY <1>14, <2>2 DEF LeaveFile
    <3> QED
      BY <1>t, <1>j, <1>n, <3>1, Restored, BaselineIs
  <2>3. CASE file = Baseline
    <3>1. Go("confirming_quit") /\ file' = file
          /\ "confirming_quit" \in (Stations \ {"asking", "ending"}) \ (Reloading \cup {"bursting"})
      BY <1>14, <2>3 DEF LeaveFile, Stations, Reloading
    <3> QED
      BY <1>o, <2>1, <3>1
  <2> QED
    BY <2>2, <2>3
<1>15. CASE Quit
  <2>1. /\ Go("left") /\ file' = file /\ console.at \notin Reloading \cup {"bursting"}
        /\ "left" \in (Stations \ {"asking", "ending"}) \ (Reloading \cup {"bursting"})
    BY <1>15 DEF Quit, Here, Stations, Reloading
  <2> QED
    BY <1>o, <2>1
<1>16. CASE Beside \/ Interrupt \/ TimePasses
  <2>1. UNCHANGED <<file, console>>
    BY <1>16 DEF Beside, LoadFile, Apply, SetSticky, StreamEnds, Interrupt, TimePasses
  <2> QED
    BY <2>1 DEF LimitKnown
<1> QED
  BY <1>1, <1>2, <1>3, <1>4, <1>5, <1>6, <1>7, <1>8, <1>9, <1>10, <1>11, <1>12, <1>13, <1>14, <1>15,
     <1>16 DEF ConsoleNext, Operator, Carry

\* While nothing has failed, a step keeps what is known of the faults (injectFault,
\* clearFaults).
LEMMA FaultStep ==
    ASSUME ConsoleTypeOK, JobsAreDone, FaultsKnown, ConsoleNext,
           interrupted => interrupted', Untroubled'
    PROVE  FaultsKnown'
<1>t. /\ file \in Contents /\ flow \in Flows /\ console \in Choice /\ mishaps \in Nat
      /\ stack \in Stacks /\ book \in Left
  BY DEF ConsoleTypeOK
<1>a. \A s \in Services : stack.fault[s] \in Nat /\ book[s] \in Nat
  BY <1>t DEF Stacks, Left
<1>v. ~interrupted /\ ~interrupted' /\ Prompt = "asking" /\ mishaps' = 0
  BY DEF Untroubled, Prompt
<1>j. {"change", "limit", "reset", "quit"} \subseteq Jobs
  BY DEF Jobs
<1> DEFINE Kept == \A s \in Thawed : stack'.fault[s] <= book'[s]
           Away == console'.job # "reset" \/ console'.at \notin Stored \/ console'.known = Services
<1>k. (~Here("recording") /\ UNCHANGED <<stack, book>>) => Kept
  BY DEF FaultsKnown
<1>z. (\A s \in Services : stack'.fault[s] \in {0, stack.fault[s]}) /\ ~Here("recording") /\ UNCHANGED book
          => Kept
  BY <1>a DEF FaultsKnown, Thawed
<1>n. (Kept /\ console'.at # "recording" /\ Away) => FaultsKnown'
  BY DEF FaultsKnown, Here
<1> HIDE DEF Kept
<1>p. (Go(Prompt) /\ Kept) => FaultsKnown'
  BY <1>n, GoPrompt
<1>h. \A next \in Onward : (halt(next) /\ Kept) => FaultsKnown'
  BY <1>n, <1>t, Halting DEF Stored, Reloading
<1>g. \A p \in Stations \ {"asking", "ending"} :
          Go(p) => (console'.at = p /\ console'.job = console.job /\ console'.known = console.known)
  BY <1>t, GoOn
<1>o. \A p \in Stations \ {"asking", "ending", "recording"} :
          (Go(p) /\ Kept /\ (p \notin Stored \/ console.job # "reset" \/ console.at \in Stored)) => FaultsKnown'
  <2> SUFFICES ASSUME NEW p \in Stations \ {"asking", "ending", "recording"}, Go(p), Kept,
                      p \notin Stored \/ console.job # "reset" \/ console.at \in Stored
               PROVE  FaultsKnown'
    OBVIOUS
  <2>1. console'.at = p /\ console'.job = console.job /\ console'.known = console.known
    BY <1>g
  <2>2. Away
    BY <2>1 DEF FaultsKnown
  <2> QED
    BY <1>n, <2>1, <2>2
<1>1. CASE toggleTraffic \/ measureDistribution \/ leave \/ EndInterrupted \/ demonstrateRateLimit \/ reset
  <2>1. Kept
    BY <1>1, <1>k DEF toggleTraffic, measureDistribution, leave, EndInterrupted, demonstrateRateLimit, reset,
                      Here
  <2>2. Go(Prompt) \/ (\E next \in Onward : halt(next))
    BY <1>1 DEF toggleTraffic, measureDistribution, leave, EndInterrupted, demonstrateRateLimit, reset,
                Onward
  <2> QED
    BY <1>p, <1>h, <2>1, <2>2
<1>2. CASE Measured
  <2>1. Go(Prompt) /\ Kept
    BY <1>2, <1>k DEF Measured, Here
  <2> QED
    BY <1>p, <2>1
<1>3. CASE changeBackend
  <2>1. PICK s \in Services, running \in BOOLEAN, ok \in BOOLEAN :
            Try(ok) /\ IF ok THEN setBackendRunning({s}, running) ELSE UNCHANGED stack
    BY <1>3 DEF changeBackend
  <2>2. {s} \in SUBSET Services
    OBVIOUS
  <2>3. \A r \in Services : stack'.fault[r] \in {0, stack.fault[r]}
    BY <1>t, <2>1, <2>2, BackendsRun
  <2>4. Go(Prompt) /\ ~Here("recording") /\ UNCHANGED book
    BY <1>3 DEF changeBackend, Here
  <2> QED
    BY <1>p, <1>z, <2>3, <2>4
<1>4. CASE misbehave
  <2>1. PICK s \in Services, lasts \in Lasting, ok \in BOOLEAN, reached \in BOOLEAN :
          /\ ok => (s \in stack.up /\ reached)
          /\ reached => (s \in stack.up /\ ~interrupted)
          /\ IF s \in stack.up THEN Try(ok) ELSE UNCHANGED mishaps
          /\ stack' = IF reached THEN [stack EXCEPT !.fault[s] = InForce(s, lasts)] ELSE stack
          /\ IF ok THEN console' = [console EXCEPT !.at = "recording", !.injected = {<<s, lasts>>}]
             ELSE Go(Prompt)
    BY <1>4 DEF misbehave
  <2>2. ~Here("recording") /\ UNCHANGED book
    BY <1>4 DEF misbehave, Here
  <2>3. CASE s \in stack.up
    <3>1. ok /\ reached
      BY <2>1, <2>3, Smoothly
    <3> DEFINE put == {<<s, lasts>>}
    <3>2. lasts \in Nat /\ put \in SUBSET (Services \X Nat)
      BY ConsoleAssumption
    <3> HIDE DEF put
    <3>3. console' = [console EXCEPT !.at = "recording", !.injected = put]
      BY <2>1, <3>1 DEF put
    <3>4. console'.at = "recording" /\ console'.injected = put
      BY <1>t, <3>3 DEF Choice
    <3>5. /\ stack'.fault[s] = InForce(s, lasts)
          /\ \A r \in Services \ {s} : stack'.fault[r] = stack.fault[r]
      BY <1>t, <2>1, <3>1 DEF Stacks, Left
    <3>6. s \notin Freezing => stack'.fault[s] <= lasts
      BY <3>2, <3>5 DEF InForce
    <3>7. \A r \in Thawed \ {s} : stack'.fault[r] <= book'[r]
      BY <2>2, <3>5 DEF FaultsKnown, Thawed
    <3>8. console'.at \notin Stored /\ ~(~(Here("recording")'))
      BY <3>4 DEF Stored, Reloading, Here
    <3> QED
      BY <3>2, <3>4, <3>6, <3>7, <3>8 DEF FaultsKnown, put
  <2>4. CASE s \notin stack.up
    <3>1. Go(Prompt) /\ UNCHANGED stack
      BY <2>1, <2>4
    <3> QED
      BY <1>p, <1>k, <2>2, <3>1
  <2> QED
    BY <2>3, <2>4
<1>5. CASE changeAlgorithm
  <2>1. Go(Prompt) \/ \E content : applyConfig(content, "change")
    BY <1>5, Zenon DEF changeAlgorithm
  <2>2. Go(Prompt) \/ console' = [console EXCEPT !.at = "counting", !.job = "change"]
    BY <2>1, Zenon DEF applyConfig
  <2>3. Go(Prompt) \/ (console'.at = "counting" /\ console'.job = "change")
    BY <1>t, <2>2 DEF Choice
  <2>4. UNCHANGED <<stack, book>> /\ ~Here("recording")
    BY <1>5 DEF changeAlgorithm, applyConfig, Here
  <2> QED
    BY <1>p, <1>n, <1>k, <2>3, <2>4
<1>6. CASE toggleSticky \/ Raise
  <2>1. \E content : applyConfig(content, "change")
    BY <1>6, Zenon DEF toggleSticky, Raise
  <2>2. console' = [console EXCEPT !.at = "counting", !.job = "change"]
    BY <2>1, Zenon DEF applyConfig
  <2>3. console'.at = "counting" /\ console'.job = "change"
    BY <1>t, <2>2 DEF Choice
  <2>4. UNCHANGED <<stack, book>> /\ ~Here("recording")
    BY <1>6 DEF toggleSticky, Raise, applyConfig, Here
  <2> QED
    BY <1>n, <1>k, <2>3, <2>4
<1>7. CASE Lower
  <2>1. console' = [console EXCEPT !.at = "counting", !.job = "limit", !.previous = file.limit]
    BY <1>7 DEF Lower
  <2>2. console'.at = "counting" /\ console'.job = "limit"
    BY <1>t, <2>1 DEF Choice
  <2>3. UNCHANGED <<stack, book>> /\ ~Here("recording")
    BY <1>7 DEF Lower, Here
  <2> QED
    BY <1>n, <1>k, <2>2, <2>3
<1>8. CASE Halted
  <2>1. Kept
    BY <1>8, <1>k DEF Halted, Here
  <2>2. CASE console.next = "back"
    BY <1>8, <1>p, <2>1, <2>2 DEF Halted
  <2>3. CASE console.next # "back"
    <3>1. /\ console.next \in Stations \ {"asking", "ending", "recording"} /\ Go(console.next)
          /\ console.next \notin Stored
      BY <1>8, <1>t, <2>3 DEF Halted, Choice, Onward, Stations, Stored, Reloading
    <3> QED
      BY <1>o, <2>1, <3>1
  <2> QED
    BY <2>2, <2>3
<1>9. CASE CountReloads
  <2>1. PICK n : console' = [console EXCEPT !.at = "signalling", !.applied = n]
    BY <1>9, Zenon DEF CountReloads
  <2>2. /\ console'.at = "signalling" /\ console'.job = console.job /\ console'.known = console.known
        /\ console.at = "counting" /\ UNCHANGED <<stack, book>>
    BY <1>9, <1>t, <2>1 DEF Choice, CountReloads, Here
  <2>3. Kept
    BY <1>k, <2>2 DEF Here
  <2>4. Away
    BY <2>2 DEF FaultsKnown, Stored, Reloading
  <2> QED
    BY <1>n, <2>2, <2>3, <2>4
<1>10. CASE Signal \/ Confirmed \/ Unconfirmed
  <2>1. Kept /\ console.at \in Stored
    BY <1>10, <1>k DEF Signal, Confirmed, Unconfirmed, Here, Stored, Reloading
  <2>2. Go("confirming") \/ Go(AfterError) \/ Go(AfterReload)
    BY <1>10 DEF Signal, Confirmed, Unconfirmed
  <2>3. \E p \in {Prompt, "confirming", "bursting", "starting", "confirming_quit"} : Go(p)
    BY <2>2 DEF AfterError, AfterReload
  <2>4. {"confirming", "bursting", "starting", "confirming_quit"} \subseteq Stations \ {"asking", "ending", "recording"}
    BY DEF Stations
  <2> QED
    BY <1>p, <1>o, <2>1, <2>3, <2>4
<1>11. CASE add
  <2>1. PICK f \in console.injected : book' = [book EXCEPT ![f[1]] = f[2]]
    BY <1>11 DEF add
  <2>2. Here("recording") /\ UNCHANGED stack /\ Go(Prompt)
    BY <1>11 DEF add
  <2>3. PICK s \in Services, l \in Nat :
             /\ console.injected = {<<s, l>>} /\ (s \notin Freezing => stack.fault[s] <= l)
             /\ \A r \in Thawed \ {s} : stack.fault[r] <= book[r]
    BY <2>2 DEF FaultsKnown
  <2>4. f = <<s, l>>
    BY <2>1, <2>3
  <2>5. book' = [book EXCEPT ![s] = l]
    BY <2>1, <2>4
  <2>6. \A r \in Services : book'[r] = IF r = s THEN l ELSE book[r]
    BY <1>t, <2>5 DEF Left
  <2>7. Kept
    BY <2>2, <2>3, <2>6 DEF Kept, Thawed
  <2> QED
    BY <1>p, <2>2, <2>7
<1>12. CASE Resetting
  <2>1. restore("reset") /\ UNCHANGED <<stack, book>> /\ ~Here("recording")
    BY <1>12 DEF Resetting, Here
  <2>2. console'.at = "counting" /\ console'.known = Services
    BY <1>t, <1>j, <1>v, <2>1, Restored
  <2> QED
    BY <1>n, <1>k, <2>1, <2>2
<1>13. CASE StartAll
  <2>1. /\ \E ok \in BOOLEAN : IF ok THEN setBackendRunning(Services, TRUE) ELSE UNCHANGED stack
        /\ Here("starting") /\ ~Here("recording") /\ UNCHANGED book
    BY <1>13 DEF StartAll, Here
  <2>2. Services \in SUBSET Services /\ TRUE \in BOOLEAN
    OBVIOUS
  <2>3. \A s \in Services : stack'.fault[s] \in {0, stack.fault[s]}
    BY <1>t, <2>1, <2>2, BackendsRun
  <2>4. Kept
    BY <1>z, <2>1, <2>3
  <2>5. Go(IF console.job = "quit" THEN "confirming_quit" ELSE "clearing") \/ Go(AfterError)
    BY <1>13, Zenon DEF StartAll
  <2>6. \E p \in {Prompt, "confirming_quit", "clearing"} : Go(p)
    BY <2>5 DEF AfterError
  <2>7. {"confirming_quit", "clearing"} \subseteq Stations \ {"asking", "ending", "recording"}
    BY DEF Stations
  <2> QED
    BY <1>p, <1>o, <2>1, <2>4, <2>6, <2>7 DEF Here, Stored
<1>14. CASE Clearing
  <2>1. /\ Here("clearing") /\ clearFaults(console.known) /\ book' = [s \in Services |-> 0]
        /\ Go(Prompt)
    BY <1>14 DEF Clearing
  <2>2. console.known = Services
    BY <2>1 DEF JobsAreDone, FaultsKnown, Here, Stored
  <2>3. Services \in SUBSET Services /\ clearFaults(Services)
    BY <2>1, <2>2
  <2>4. \A s \in Services : stack'.fault[s] = 0
    BY <1>t, <1>v, <2>3, Cleared
  <2>5. Kept
    BY <1>t, <2>1, <2>4 DEF Kept, Thawed
  <2> QED
    BY <1>p, <2>1, <2>5
<1>15. CASE LeaveFaults
  <2>1. Go("leaving_file") /\ "leaving_file" \in (Stations \ {"asking", "ending", "recording"}) \ Stored
    BY <1>15 DEF LeaveFaults, Stations, Stored, Reloading
  <2>2. ~Here("recording")
    BY <1>15 DEF LeaveFaults, Here
  <2>3. CASE UNCHANGED <<stack, book>>
    BY <1>k, <1>o, <2>1, <2>2, <2>3
  <2>4. CASE clearFaults(Services) /\ book' = [s \in Services |-> 0]
    <3>1. Services \in SUBSET Services
      OBVIOUS
    <3>2. \A s \in Services : stack'.fault[s] = 0
      BY <1>t, <1>v, <2>4, <3>1, Cleared
    <3>3. Kept
      BY <2>4, <3>2 DEF Kept, Thawed
    <3> QED
      BY <1>o, <2>1, <3>3
  <2>5. CASE Try(FALSE)
    BY <2>5, Smoothly
  <2> QED
    BY <1>15, <2>3, <2>4, <2>5 DEF LeaveFaults
<1>16. CASE LeaveFile
  <2>1. Kept
    BY <1>16, <1>k DEF LeaveFile, Here
  <2>2. CASE file # Baseline
    <3>1. restore("quit")
      BY <1>16, <2>2 DEF LeaveFile
    <3> QED
      BY <1>t, <1>j, <1>n, <2>1, <3>1, Restored
  <2>3. CASE file = Baseline
    <3>1. Go("confirming_quit") /\ "confirming_quit" \in (Stations \ {"asking", "ending", "recording"}) \ Stored
      BY <1>16, <2>3 DEF LeaveFile, Stations, Stored, Reloading
    <3> QED
      BY <1>o, <2>1, <3>1
  <2> QED
    BY <2>2, <2>3
<1>17. CASE Quit
  <2>1. /\ Go("left") /\ "left" \in (Stations \ {"asking", "ending", "recording"}) \ Stored
        /\ ~Here("recording") /\ UNCHANGED book
    BY <1>17 DEF Quit, Here, Stations, Stored, Reloading
  <2>2. UNCHANGED stack \/ setBackendRunning(Services, FALSE)
    BY <1>17, Zenon DEF Quit
  <2>3. Services \in SUBSET Services /\ FALSE \in BOOLEAN
    OBVIOUS
  <2>4. \A s \in Services : stack'.fault[s] \in {0, stack.fault[s]}
    BY <1>t, <2>2, <2>3, BackendsRun
  <2> QED
    BY <1>z, <1>o, <2>1, <2>4
<1>18. CASE Beside
  <2>1. UNCHANGED <<stack, book, console>>
    BY <1>18 DEF Beside, LoadFile, Apply, SetSticky, StreamEnds
  <2> QED
    BY <2>1 DEF FaultsKnown, Here
<1>19. CASE TimePasses
  <2>1. /\ \A s \in Services : stack'.fault[s] <= stack.fault[s]
        /\ \A s \in Services : stack.fault[s] <= book[s] => stack'.fault[s] <= book'[s]
        /\ stack' \in Stacks /\ book' \in Left
    BY <1>19, <1>t, TimePassed
  <2>2. UNCHANGED console
    BY <1>19 DEF TimePasses
  <2>3. \A s \in Services : stack'.fault[s] \in Nat /\ book'[s] \in Nat
    BY <2>1 DEF Stacks, Left
  <2>4. \A s \in Services : stack.fault[s] <= book[s] => stack'.fault[s] <= book'[s]
    BY <2>1, Zenon
  <2>5. CASE Here("recording")
    <3>1. PICK s \in Services, l \in Nat :
               /\ console.injected = {<<s, l>>} /\ (s \notin Freezing => stack.fault[s] <= l)
               /\ \A r \in Thawed \ {s} : stack.fault[r] <= book[r]
      BY <2>5 DEF FaultsKnown
    <3>2. ASSUME s \notin Freezing
          PROVE  stack'.fault[s] <= l
      <4>1. stack'.fault[s] <= stack.fault[s] /\ stack.fault[s] <= l
        BY <2>1, <3>1, <3>2
      <4>2. stack'.fault[s] \in Nat /\ stack.fault[s] \in Nat /\ l \in Nat
        BY <1>a, <2>3
      <4> QED
        BY <4>1, <4>2
    <3>3. \A r \in Thawed \ {s} : stack'.fault[r] <= book'[r]
      BY <2>4, <3>1 DEF Thawed
    <3> QED
      BY <2>2, <2>5, <3>1, <3>2, <3>3 DEF FaultsKnown, Here, Stored, Reloading
  <2>6. CASE ~Here("recording")
    <3>1. \A s \in Thawed : stack'.fault[s] <= book'[s]
      BY <2>4, <2>6 DEF FaultsKnown, Thawed
    <3> QED
      BY <2>2, <2>6, <3>1 DEF FaultsKnown, Here
  <2> QED
    BY <2>5, <2>6
<1>20. CASE Interrupt
  BY <1>20, <1>v DEF Interrupt
<1> QED
  BY <1>1, <1>2, <1>3, <1>4, <1>5, <1>6, <1>7, <1>8, <1>9, <1>10, <1>11, <1>12, <1>13, <1>14, <1>15,
     <1>16, <1>17, <1>18, <1>19, <1>20 DEF ConsoleNext, Operator, Carry

\* While nothing has failed, the console knows what it has changed.
ConsoleKnown == Untroubled => ReloadKnown /\ LimitKnown /\ FaultsKnown

\* That is an invariant: what fails once is never taken for a success again.
LEMMA KnownInvariant == ConsoleSpec => [](ConsoleTypeOK /\ JobsAreDone /\ ConsoleKnown)
<1>1. ConsoleInit => ConsoleKnown
  <2> SUFFICES ASSUME ConsoleInit PROVE ReloadKnown /\ LimitKnown /\ FaultsKnown
    BY DEF ConsoleKnown
  <2>1. /\ console.at = "asking" /\ console.job = "change" /\ file.limit = "usual"
        /\ \A s \in Services : stack.fault[s] = 0 /\ book[s] = 0
    BY BaselineIs DEF ConsoleInit, Asking
  <2>2. Applied
    BY DEF ConsoleInit, Applied
  <2>3. ReloadKnown
    BY <2>1, <2>2 DEF ReloadKnown, Here, Reloading
  <2>4. LimitKnown
    BY <2>1 DEF LimitKnown
  <2>5. FaultsKnown
    BY <2>1 DEF FaultsKnown, Here, Thawed
  <2> QED
    BY <2>3, <2>4, <2>5
<1>2. ConsoleTypeOK /\ JobsAreDone /\ ConsoleKnown /\ [ConsoleNext]_consoleVars => ConsoleKnown'
  <2> SUFFICES ASSUME ConsoleTypeOK, JobsAreDone, ConsoleKnown, [ConsoleNext]_consoleVars, Untroubled'
               PROVE  ReloadKnown' /\ LimitKnown' /\ FaultsKnown'
    BY DEF ConsoleKnown
  <2>1. Onwards /\ (interrupted => interrupted')
    BY ConsoleTypeStep
  <2>2. Untroubled
    BY <2>1 DEF Untroubled, Onwards
  <2>3. ReloadKnown /\ LimitKnown /\ FaultsKnown
    BY <2>2 DEF ConsoleKnown
  <2>4. CASE ConsoleNext
    BY <2>1, <2>3, <2>4, ReloadStep, LimitStep, FaultStep
  <2>5. CASE UNCHANGED consoleVars
    <3>1. UNCHANGED <<file, balancer, stack, book, console>>
      BY <2>5 DEF consoleVars
    <3>2. ReloadKnown'
      BY <2>3, <3>1 DEF ReloadKnown, Applied, Ready, Here
    <3>3. LimitKnown'
      BY <2>3, <3>1 DEF LimitKnown
    <3>4. FaultsKnown'
      BY <2>3, <3>1 DEF FaultsKnown, Here
    <3> QED
      BY <3>2, <3>3, <3>4
  <2> QED
    BY <2>4, <2>5
<1> QED
  BY <1>1, <1>2, QuitInvariant, PTL DEF ConsoleSpec

\* Unless something has failed, a change the console reports as applied is what the
\* balancer runs (applyConfig, awaitReload).
THEOREM AppliedWhenConfirmed == ConsoleSpec => []ConfirmedIsApplied
<1>1. ConsoleKnown => ConfirmedIsApplied
  BY DEF ConsoleKnown, ConfirmedIsApplied, ReloadKnown, Applied, Here, Reloading
<1> QED
  BY <1>1, KnownInvariant, PTL

\* Unless something has failed, a console that waits for a choice or has left by its
\* quit has taken back the limit it lowered, and no fault but a freeze outlasts what its
\* book says of it (demonstrateRateLimit, reset, leave).
THEOREM NothingStays == ConsoleSpec => []NothingLeftBehind
<1>1. ConsoleKnown => NothingLeftBehind
  <2> SUFFICES ASSUME ConsoleKnown, Untroubled, Resting
               PROVE  /\ file.limit = Baseline.limit
                      /\ \A s \in Services \ Freezing : stack.fault[s] <= book[s]
    BY DEF NothingLeftBehind
  <2>1. console.at \notin Reloading \cup {"bursting", "recording"}
    BY DEF Resting, Reloading
  <2>2. LimitKnown /\ FaultsKnown
    BY DEF ConsoleKnown
  <2> QED
    BY <2>1, <2>2, BaselineIs DEF LimitKnown, FaultsKnown, Here, Thawed
<1> QED
  BY <1>1, KnownInvariant, PTL

-----------------------------------------------------------------------------
(* The load generator.                                                     *)

\* The load generator by itself.
LoadSpec == LoadInit /\ [][LoadNext \/ ReportNext]_loadVars

\* What the variables hold.
Flags == {"free", "going on", "sent", "done"}
\* A driver.
Drivings == [at : Flags, kept : BOOLEAN, connections : Nat, sends : Nat]
\* What it has recorded.
Samples == [answered : Nat, failed : Nat]
\* The report.
Report == [at : {"waiting", "joining", "done"}, before : Nat \cup {Unread}, moved : Int,
           requests : Int, failures : Int]

\* The types of the variables.
LoadTypeOK ==
    /\ clock \in {"warming", "measuring", "over"}
    /\ driver \in [Drivers -> Drivings]
    /\ samples \in [Drivers -> Samples]
    /\ counter \in Nat /\ begun \in Nat
    /\ report \in Report

\* What a driver has recorded, and the request of the window it has under way.
tally == [d \in Drivers |->
             samples[d].answered + samples[d].failed + (IF driver[d].kept THEN 1 ELSE 0)]

\* Every request of the window is recorded or under way, once.
Tallied ==
    /\ begun = SumFunctionOnSet(tally, Drivers)
    /\ \A d \in Drivers : driver[d].kept => driver[d].at = "sent"

\* The counters of the balancer never go back, so what moved since they were read is no
\* more than what moved since before the run (since).
Moving ==
    /\ CountedBefore <= counter
    /\ report.before # Unread => CountedBefore <= report.before
    /\ (report.at = "done" /\ report.before # Unread) => report.moved <= counter - CountedBefore

\* The report adds up what all drivers have recorded.
Reported ==
    report.at = "done" =>
        /\ \A d \in Drivers : driver[d].at = "done"
        /\ report.requests + report.failures = begun

\* The inductive invariant.
LoadI == LoadTypeOK /\ Tallied /\ Moving /\ Reported

\* Nothing is recorded at the start.
LEMMA LoadStarts == LoadInit => LoadI
<1> SUFFICES ASSUME LoadInit PROVE LoadI
  OBVIOUS
<1>1. LoadTypeOK
  BY LoadAssumption DEF LoadInit, LoadTypeOK, Drivings, Flags, Samples, Report
<1>2. tally \in [Drivers -> Int] /\ \A d \in Drivers : tally[d] = 0
  BY DEF LoadInit, tally
<1>3. IsFiniteSet(Drivers) /\ Drivers \in SUBSET Drivers /\ 0 \in Int
  BY LoadAssumption
<1> HIDE DEF tally
<1>4. SumFunctionOnSet(tally, Drivers) = 0 * Cardinality(Drivers)
  BY <1>2, <1>3, SumConstant
<1>5. Cardinality(Drivers) \in Nat
  BY <1>3, FS_CardinalityType
<1>6. Tallied
  BY <1>4, <1>5 DEF LoadInit, Tallied
<1>7. Moving /\ Reported
  BY LoadAssumption DEF LoadInit, Moving, Reported
<1> QED
  BY <1>1, <1>6, <1>7 DEF LoadI

\* What a driver's tally is.
LEMMA TallyIs ==
    ASSUME LoadTypeOK
    PROVE  /\ tally \in [Drivers -> Int]
           /\ \A d \in Drivers : tally[d] = samples[d].answered + samples[d].failed
                                             + (IF driver[d].kept THEN 1 ELSE 0)
<1>1. \A d \in Drivers : samples[d].answered \in Nat /\ samples[d].failed \in Nat
  BY DEF LoadTypeOK, Samples
<1>2. \A d \in Drivers : samples[d].answered + samples[d].failed
                                             + (IF driver[d].kept THEN 1 ELSE 0) \in Int
  BY <1>1
<1> QED
  BY <1>2 DEF tally

\* Every step keeps the types.
LEMMA LoadTypeStep ==
    ASSUME LoadTypeOK, LoadNext
    PROVE  LoadTypeOK'
<1>t. /\ clock \in {"warming", "measuring", "over"}
      /\ driver \in [Drivers -> Drivings] /\ samples \in [Drivers -> Samples]
      /\ counter \in Nat /\ begun \in Nat /\ report \in Report
  BY DEF LoadTypeOK
<1>1. CASE Passes
  BY <1>1, <1>t DEF Passes, LoadTypeOK
<1>2. CASE ReadBefore
  <2>1. PICK before \in {counter, Unread} : report' = [report EXCEPT !.at = "joining", !.before = before]
    BY <1>2 DEF ReadBefore
  <2>2. report' \in Report
    BY <1>t, <2>1 DEF Report
  <2> QED
    BY <1>2, <1>t, <2>2 DEF ReadBefore, LoadTypeOK
<1>3. CASE Summarise
  <2>1. PICK after \in {counter, Unread} :
          report' = [report EXCEPT !.at = "done", !.moved = since(report.before, after),
                                   !.requests = Total("answered"), !.failures = Total("failed")]
    BY <1>3 DEF Summarise
  <2>2. since(report.before, after) \in Int
    BY <1>t, <2>1, LoadAssumption DEF since, Report
  <2>3. Total("answered") \in Int /\ Total("failed") \in Int
    <3>1. /\ [d \in Drivers |-> samples[d]["answered"]] \in [Drivers -> Int]
          /\ [d \in Drivers |-> samples[d]["failed"]] \in [Drivers -> Int]
      BY <1>t DEF Samples
    <3>2. IsFiniteSet(Drivers) /\ Drivers \in SUBSET Drivers
      BY LoadAssumption
    <3> QED
      BY <3>1, <3>2, SumMore DEF Total
  <2>4. report' \in Report
    BY <1>t, <2>1, <2>2, <2>3 DEF Report
  <2> QED
    BY <1>3, <1>t, <2>4 DEF Summarise, LoadTypeOK
<1>4. ASSUME NEW d \in Drivers, NotDone(d) \/ Send(d) \/ Reach(d) \/ Record(d) \/ DriveReturns(d)
      PROVE  LoadTypeOK'
  <2>f. driver[d] \in Drivings /\ samples[d] \in Samples
    BY <1>t
  <2>n. driver[d].sends + 1 \in Nat /\ driver[d].connections + 1 \in Nat
    BY <2>f DEF Drivings
  <2>1. CASE NotDone(d)
    <3>1. driver' = [driver EXCEPT ![d] = [driver[d] EXCEPT !.at = "going on", !.sends = @ + 1]]
      BY <2>1 DEF NotDone, Drive
    <3>2. [driver[d] EXCEPT !.at = "going on", !.sends = driver[d].sends + 1] \in Drivings
      BY <2>f, <2>n DEF Drivings, Flags
    <3>3. driver' \in [Drivers -> Drivings]
      BY <1>t, <3>1, <3>2
    <3> QED
      BY <1>t, <2>1, <3>3 DEF NotDone, LoadTypeOK
  <2>2. CASE Send(d)
    <3> DEFINE window == clock # "warming"
    <3>1. driver' = [driver EXCEPT ![d] = [driver[d] EXCEPT !.at = "sent", !.kept = window, !.connections = 0]]
      BY <2>2 DEF Send, Drive
    <3>2. window \in BOOLEAN
      OBVIOUS
    <3> HIDE DEF window
    <3>3. [driver[d] EXCEPT !.at = "sent", !.kept = window, !.connections = 0] \in Drivings
      BY <2>f, <3>2 DEF Drivings, Flags
    <3>4. driver' \in [Drivers -> Drivings]
      BY <1>t, <3>1, <3>3
    <3>5. begun' = IF clock = "warming" THEN begun ELSE begun + 1
      BY <2>2, Zenon DEF Send
    <3>6. UNCHANGED <<clock, samples, counter, report>>
      BY <2>2, Zenon DEF Send
    <3> QED
      BY <1>t, <3>4, <3>5, <3>6 DEF LoadTypeOK
  <2>3. CASE Reach(d)
    <3>1. driver' = [driver EXCEPT ![d] = [driver[d] EXCEPT !.connections = @ + 1]]
      BY <2>3 DEF Reach, Drive
    <3>2. [driver[d] EXCEPT !.connections = driver[d].connections + 1] \in Drivings
      BY <2>f, <2>n DEF Drivings
    <3>3. driver' \in [Drivers -> Drivings]
      BY <1>t, <3>1, <3>2
    <3> QED
      BY <1>t, <2>3, <3>3 DEF Reach, LoadTypeOK
  <2>4. CASE Record(d)
    <3>1. driver' = [driver EXCEPT ![d] = [driver[d] EXCEPT !.at = "free", !.kept = FALSE, !.connections = 0]]
      BY <2>4 DEF Record, Drive
    <3>2. [driver[d] EXCEPT !.at = "free", !.kept = FALSE, !.connections = 0] \in Drivings
      BY <2>f DEF Drivings, Flags
    <3>3. driver' \in [Drivers -> Drivings]
      BY <1>t, <3>1, <3>2
    <3>4. samples' \in [Drivers -> Samples]
      <4>1. PICK answered \in BOOLEAN :
                samples' = IF ~driver[d].kept THEN samples
                           ELSE [samples EXCEPT ![d].answered = IF answered THEN @ + 1 ELSE @,
                                                ![d].failed = IF answered THEN @ ELSE @ + 1]
        BY <2>4 DEF Record
      <4>2. CASE driver[d].kept /\ answered
        <5>1. samples' = [samples EXCEPT ![d] = [samples[d] EXCEPT !.answered = @ + 1]]
          BY <1>t, <2>f, <4>1, <4>2 DEF Samples
        <5> QED
          BY <1>t, <2>f, <5>1 DEF Samples
      <4>3. CASE driver[d].kept /\ ~answered
        <5>1. samples' = [samples EXCEPT ![d] = [samples[d] EXCEPT !.failed = @ + 1]]
          BY <1>t, <2>f, <4>1, <4>3 DEF Samples
        <5> QED
          BY <1>t, <2>f, <5>1 DEF Samples
      <4> QED
        BY <1>t, <4>1, <4>2, <4>3
    <3> QED
      BY <1>t, <2>4, <3>3, <3>4 DEF Record, LoadTypeOK
  <2>5. CASE DriveReturns(d)
    <3>1. driver' = [driver EXCEPT ![d] = [driver[d] EXCEPT !.at = "done"]]
      BY <2>5 DEF DriveReturns, Drive
    <3>2. [driver[d] EXCEPT !.at = "done"] \in Drivings
      BY <2>f DEF Drivings, Flags
    <3>3. driver' \in [Drivers -> Drivings]
      BY <1>t, <3>1, <3>2
    <3> QED
      BY <1>t, <2>5, <3>3 DEF DriveReturns, LoadTypeOK
  <2> QED
    BY <1>4, <2>1, <2>2, <2>3, <2>4, <2>5
<1> QED
  BY <1>1, <1>2, <1>3, <1>4 DEF LoadNext

\* A step that records nothing leaves the sum of the tallies.
LEMMA SameTally ==
    ASSUME LoadTypeOK, LoadTypeOK', UNCHANGED <<samples, begun>>,
           \A d \in Drivers : driver'[d].kept = driver[d].kept
    PROVE  begun = SumFunctionOnSet(tally, Drivers) => begun' = SumFunctionOnSet(tally', Drivers)
<1>1. tally' = tally
  BY DEF tally
<1> HIDE DEF tally
<1> QED
  BY <1>1

\* The step of one driver changes its tally alone.
LEMMA OneTally ==
    ASSUME LoadTypeOK, LoadTypeOK', NEW d \in Drivers,
           \A e \in Drivers \ {d} : driver'[e] = driver[e] /\ samples'[e] = samples[e]
    PROVE  SumFunctionOnSet(tally', Drivers)
              = SumFunctionOnSet(tally, Drivers) - tally[d] + tally'[d]
<1>1. tally \in [Drivers -> Int] /\ tally' \in [Drivers -> Int]
  <2>1. \A e \in Drivers : samples[e].answered + samples[e].failed
                              + (IF driver[e].kept THEN 1 ELSE 0) \in Int
    BY DEF LoadTypeOK, Samples
  <2>2. \A e \in Drivers : samples'[e].answered + samples'[e].failed
                              + (IF driver'[e].kept THEN 1 ELSE 0) \in Int
    BY DEF LoadTypeOK, Samples
  <2> QED
    BY <2>1, <2>2 DEF tally
<1>2. \A e \in Drivers \ {d} : tally'[e] = tally[e]
  BY DEF tally
<1>3. IsFiniteSet(Drivers) /\ Drivers \in SUBSET Drivers
  BY LoadAssumption
<1> HIDE DEF tally
<1> QED
  BY <1>1, <1>2, <1>3, SumChange

\* A request joins the tallies when it is sent in the window, and stays when it is recorded
\* (drive, record).
LEMMA TallyStep ==
    ASSUME LoadTypeOK, LoadTypeOK', Tallied, LoadNext
    PROVE  Tallied'
<1>t. /\ clock \in {"warming", "measuring", "over"}
      /\ driver \in [Drivers -> Drivings] /\ samples \in [Drivers -> Samples] /\ begun \in Nat
  BY DEF LoadTypeOK
<1>1. CASE Passes \/ ReadBefore \/ Summarise
  <2>1. UNCHANGED <<driver, samples, begun>>
    BY <1>1 DEF Passes, ReadBefore, Summarise
  <2> QED
    BY <2>1, SameTally DEF Tallied
<1>2. ASSUME NEW d \in Drivers, NotDone(d) \/ Reach(d) \/ DriveReturns(d)
      PROVE  Tallied'
  <2>1. PICK to : /\ Drive(d, driver[d].at, to) /\ to.kept = driver[d].kept
                  /\ to.at = driver[d].at \/ driver[d].at = "free"
    <3>1. driver[d] \in Drivings
      BY <1>t
    <3>2. CASE NotDone(d)
      BY <3>1, <3>2 DEF NotDone, Drive, Drivings
    <3>3. CASE Reach(d)
      <4> DEFINE to == [driver[d] EXCEPT !.connections = driver[d].connections + 1]
      <4>1. Drive(d, "sent", to) /\ driver[d].at = "sent"
        BY <3>3 DEF Reach, Drive
      <4>2. to.kept = driver[d].kept /\ to.at = driver[d].at
        BY <3>1 DEF Drivings
      <4> HIDE DEF to
      <4> QED
        BY <4>1, <4>2
    <3>4. CASE DriveReturns(d)
      BY <3>1, <3>4 DEF DriveReturns, Drive, Drivings
    <3> QED
      BY <1>2, <3>2, <3>3, <3>4
  <2>2. UNCHANGED <<samples, begun>>
    BY <1>2 DEF NotDone, Reach, DriveReturns
  <2>3. /\ \A e \in Drivers : driver'[e].kept = driver[e].kept
        /\ \A e \in Drivers \ {d} : driver'[e] = driver[e]
        /\ driver'[d].at = to.at
    BY <1>t, <2>1 DEF Drive
  <2>4. begun' = SumFunctionOnSet(tally', Drivers)
    BY <2>2, <2>3, SameTally DEF Tallied
  <2>5. \A e \in Drivers : driver'[e].kept => driver'[e].at = "sent"
    BY <2>1, <2>3 DEF Tallied
  <2> QED
    BY <2>4, <2>5 DEF Tallied
<1>3. ASSUME NEW d \in Drivers, Send(d)
      PROVE  Tallied'
  <2> DEFINE window == clock # "warming"
  <2>1. /\ driver[d].at = "going on"
        /\ driver' = [driver EXCEPT ![d] = [driver[d] EXCEPT !.at = "sent", !.kept = window, !.connections = 0]]
        /\ begun' = IF window THEN begun + 1 ELSE begun
        /\ samples' = samples
    BY <1>3, Zenon DEF Send, Drive
  <2>2. window \in BOOLEAN
    OBVIOUS
  <2> HIDE DEF window
  <2>3. /\ driver'[d].at = "sent" /\ driver'[d].kept = window
        /\ \A e \in Drivers \ {d} : driver'[e] = driver[e]
    BY <1>t, <2>1 DEF Drivings
  <2>4. ~driver[d].kept
    BY <2>1 DEF Tallied
  <2>5. tally[d] \in Int /\ tally'[d] = IF window THEN tally[d] + 1 ELSE tally[d]
    <3>1. samples[d].answered \in Nat /\ samples[d].failed \in Nat
      BY <1>t DEF Samples
    <3>2. tally[d] = samples[d].answered + samples[d].failed
      BY <2>4, <3>1 DEF tally
    <3>3. tally'[d] = samples[d].answered + samples[d].failed + (IF window THEN 1 ELSE 0)
      BY <2>1, <2>3 DEF tally
    <3> QED
      BY <3>1, <3>2, <3>3
  <2>6. SumFunctionOnSet(tally', Drivers) = SumFunctionOnSet(tally, Drivers) - tally[d] + tally'[d]
    BY <2>1, <2>3, OneTally
  <2>7. begun = SumFunctionOnSet(tally, Drivers)
    BY DEF Tallied
  <2>8. begun' = SumFunctionOnSet(tally', Drivers)
    <3> DEFINE a == tally[d]
               b == tally'[d]
               sum == SumFunctionOnSet(tally, Drivers)
               new == SumFunctionOnSet(tally', Drivers)
    <3>1. /\ new = sum - a + b /\ begun = sum /\ a \in Int /\ begun \in Nat
          /\ b = IF window THEN a + 1 ELSE a
      BY <1>t, <2>5, <2>6, <2>7
    <3> HIDE DEF a, b, sum, new
    <3>2. begun' = new
      <4>1. CASE window
        <5>1. begun' = begun + 1 /\ b = a + 1
          BY <2>1, <3>1, <4>1
        <5> QED
          BY <3>1, <5>1
      <4>2. CASE ~window
        <5>1. begun' = begun /\ b = a
          BY <2>1, <3>1, <4>2
        <5> QED
          BY <3>1, <5>1
      <4> QED
        BY <4>1, <4>2
    <3> QED
      BY <3>2 DEF new
  <2>9. \A e \in Drivers : driver'[e].kept => driver'[e].at = "sent"
    BY <2>3 DEF Tallied
  <2> QED
    BY <2>8, <2>9 DEF Tallied
<1>4. ASSUME NEW d \in Drivers, Record(d)
      PROVE  Tallied'
  <2>1. PICK answered \in BOOLEAN :
            samples' = IF ~driver[d].kept THEN samples
                       ELSE [samples EXCEPT ![d].answered = IF answered THEN @ + 1 ELSE @,
                                            ![d].failed = IF answered THEN @ ELSE @ + 1]
    BY <1>4 DEF Record
  <2>2. /\ driver' = [driver EXCEPT ![d] = [driver[d] EXCEPT !.at = "free", !.kept = FALSE, !.connections = 0]]
        /\ begun' = begun
    BY <1>4 DEF Record, Drive
  <2>3. /\ driver'[d].kept = FALSE
        /\ \A e \in Drivers \ {d} : driver'[e] = driver[e] /\ samples'[e] = samples[e]
    BY <1>t, <2>1, <2>2 DEF Drivings, Samples
  <2>4. tally[d] \in Int /\ tally'[d] = tally[d]
    <3>1. samples[d].answered \in Nat /\ samples[d].failed \in Nat
      BY <1>t DEF Samples
    <3>2. tally[d] = samples[d].answered + samples[d].failed + (IF driver[d].kept THEN 1 ELSE 0)
      BY DEF tally
    <3>3. tally'[d] = samples'[d].answered + samples'[d].failed
      <4>1. samples'[d].answered \in Nat /\ samples'[d].failed \in Nat
        BY DEF LoadTypeOK, Samples
      <4> QED
        BY <2>3, <4>1 DEF tally
    <3>4. samples'[d].answered + samples'[d].failed
            = samples[d].answered + samples[d].failed + (IF driver[d].kept THEN 1 ELSE 0)
      <4>1. CASE ~driver[d].kept
        BY <2>1, <3>1, <4>1
      <4>2. CASE driver[d].kept /\ answered
        BY <1>t, <2>1, <3>1, <4>2 DEF Samples
      <4>3. CASE driver[d].kept /\ ~answered
        BY <1>t, <2>1, <3>1, <4>3 DEF Samples
      <4> QED
        BY <4>1, <4>2, <4>3
    <3> QED
      BY <3>1, <3>2, <3>3, <3>4
  <2>5. SumFunctionOnSet(tally', Drivers) = SumFunctionOnSet(tally, Drivers) - tally[d] + tally'[d]
    BY <2>3, OneTally
  <2>6. begun = SumFunctionOnSet(tally, Drivers)
    BY DEF Tallied
  <2>7. begun' = SumFunctionOnSet(tally', Drivers)
    BY <1>t, <2>2, <2>4, <2>5, <2>6
  <2>8. \A e \in Drivers : driver'[e].kept => driver'[e].at = "sent"
    BY <2>3 DEF Tallied
  <2> QED
    BY <2>7, <2>8 DEF Tallied
<1> QED
  BY <1>1, <1>2, <1>3, <1>4 DEF LoadNext

\* Counters are read, move and are read again (since).
LEMMA MovingStep ==
    ASSUME LoadTypeOK, Moving, LoadNext
    PROVE  Moving'
<1>t. counter \in Nat /\ report \in Report /\ CountedBefore \in Nat
  BY LoadAssumption DEF LoadTypeOK
<1>u. report.before \in Nat \/ report.before = Unread
  BY <1>t DEF Report
<1>1. CASE UNCHANGED <<counter, report>>
  BY <1>1 DEF Moving
<1>2. CASE ReadBefore
  <2>1. PICK before \in {counter, Unread} : report' = [report EXCEPT !.at = "joining", !.before = before]
    BY <1>2 DEF ReadBefore
  <2>2. report'.at = "joining" /\ report'.before = before /\ counter' = counter
    BY <1>2, <1>t, <2>1 DEF ReadBefore, Report
  <2> QED
    BY <2>2 DEF Moving
<1>3. CASE Summarise
  <2>1. PICK after \in {counter, Unread} :
          report' = [report EXCEPT !.at = "done", !.moved = since(report.before, after),
                                   !.requests = Total("answered"), !.failures = Total("failed")]
    BY <1>3 DEF Summarise
  <2>2. report'.before = report.before /\ report'.moved = since(report.before, after) /\ counter' = counter
    BY <1>3, <1>t, <2>1 DEF Summarise, Report
  <2>3. ASSUME report.before # Unread
        PROVE  since(report.before, after) <= counter - CountedBefore
    <3>1. CountedBefore <= report.before /\ report.before \in Nat /\ CountedBefore <= counter
      BY <1>u, <2>3 DEF Moving
    <3>2. CASE after = Unread
      <4>1. since(report.before, after) = 0
        BY <3>2 DEF since
      <4> QED
        BY <1>t, <3>1, <4>1
    <3>3. CASE after # Unread
      <4>1. since(report.before, after)
              = IF counter - report.before > 0 THEN counter - report.before ELSE 0
        BY <2>1, <2>3, <3>3 DEF since
      <4> QED
        BY <1>t, <3>1, <4>1
    <3> QED
      BY <3>2, <3>3
  <2> QED
    BY <2>2, <2>3 DEF Moving
<1>4. CASE counter' = counter + 1 /\ report' = report
  <2>1. ASSUME report.at = "done", report.before # Unread
        PROVE  report.moved <= (counter + 1) - CountedBefore
    <3>1. report.moved \in Int /\ report.moved <= counter - CountedBefore
      BY <1>t, <2>1 DEF Moving, Report
    <3> QED
      BY <1>t, <3>1
  <2>2. CountedBefore <= counter + 1
    BY <1>t DEF Moving
  <2>3. report.before # Unread => CountedBefore <= report.before
    BY DEF Moving
  <2> QED
    BY <1>4, <2>1, <2>2, <2>3, Zenon DEF Moving
<1>5. UNCHANGED <<counter, report>> \/ ReadBefore \/ Summarise \/ (counter' = counter + 1 /\ report' = report)
  BY Zenon DEF LoadNext, Passes, NotDone, Send, Reach, Record, DriveReturns
<1> QED
  BY <1>1, <1>2, <1>3, <1>4, <1>5

\* The report is made when all drivers have returned (run, summarise).
LEMMA ReportedStep ==
    ASSUME LoadTypeOK, Tallied, Reported, LoadNext
    PROVE  Reported'
<1>t. /\ driver \in [Drivers -> Drivings] /\ samples \in [Drivers -> Samples] /\ report \in Report
  BY DEF LoadTypeOK
<1>1. CASE Passes
  BY <1>1 DEF Passes, Reported
<1>2. CASE ReadBefore
  <2>1. report'.at = "joining"
    BY <1>2, <1>t DEF ReadBefore, Report
  <2> QED
    BY <2>1 DEF Reported
<1>3. CASE Summarise
  <2>1. PICK after : report' = [report EXCEPT !.at = "done", !.moved = since(report.before, after),
                                   !.requests = Total("answered"), !.failures = Total("failed")]
    BY <1>3, Zenon DEF Summarise
  <2>2. report'.requests = Total("answered") /\ report'.failures = Total("failed")
    BY <1>t, <2>1 DEF Report
  <2>3. (\A d \in Drivers : driver[d].at = "done") /\ UNCHANGED <<driver, begun>>
    BY <1>3 DEF Summarise
  <2> DEFINE answers == [d \in Drivers |-> samples[d]["answered"]]
             failures == [d \in Drivers |-> samples[d]["failed"]]
  <2>4. /\ answers \in [Drivers -> Int] /\ failures \in [Drivers -> Int]
        /\ tally \in [Drivers -> Int]
    BY <1>t, TallyIs DEF Samples
  <2>5. \A d \in Drivers : tally[d] = answers[d] + failures[d]
    <3> SUFFICES ASSUME NEW d \in Drivers PROVE tally[d] = samples[d].answered + samples[d].failed
      OBVIOUS
    <3>1. ~driver[d].kept
      BY <2>3 DEF Tallied
    <3>2. samples[d].answered \in Nat /\ samples[d].failed \in Nat
      BY <1>t DEF Samples
    <3> QED
      BY <3>1, <3>2 DEF tally
  <2>6. IsFiniteSet(Drivers) /\ Drivers \in SUBSET Drivers
    BY LoadAssumption
  <2>7. Total("answered") = SumFunctionOnSet(answers, Drivers) /\ Total("failed") = SumFunctionOnSet(failures, Drivers)
    BY DEF Total
  <2> HIDE DEF answers, failures
  <2>8. SumFunctionOnSet(tally, Drivers) = SumFunctionOnSet(answers, Drivers) + SumFunctionOnSet(failures, Drivers)
    BY <2>4, <2>5, <2>6, SumPlus
  <2>9. report'.requests + report'.failures = begun
    BY <2>2, <2>7, <2>8 DEF Tallied
  <2> QED
    BY <2>3, <2>9 DEF Reported
<1>4. ASSUME NEW d \in Drivers, NotDone(d) \/ Send(d) \/ Reach(d) \/ Record(d) \/ DriveReturns(d)
      PROVE  Reported'
  <2>1. driver[d].at # "done" /\ report' = report
    BY <1>4, Zenon DEF NotDone, Send, Reach, Record, DriveReturns, Drive
  <2>2. report.at # "done"
    BY <2>1 DEF Reported
  <2> QED
    BY <2>1, <2>2 DEF Reported
<1> QED
  BY <1>1, <1>2, <1>3, <1>4 DEF LoadNext

\* All of it is an invariant.
LEMMA LoadInvariance == LoadSpec => []LoadI
<1>1. LoadI /\ [LoadNext \/ ReportNext]_loadVars => LoadI'
  <2> SUFFICES ASSUME LoadI, [LoadNext \/ ReportNext]_loadVars PROVE LoadI'
    OBVIOUS
  <2>1. CASE LoadNext
    BY <2>1, LoadTypeStep, TallyStep, MovingStep, ReportedStep DEF LoadI
  <2>2. CASE UNCHANGED <<clock, driver, samples, counter, report, begun>>
    <3>1. LoadTypeOK'
      BY <2>2 DEF LoadI, LoadTypeOK
    <3>2. Tallied'
      BY <2>2, <3>1, SameTally DEF LoadI, Tallied
    <3>3. Moving' /\ Reported'
      BY <2>2 DEF LoadI, Moving, Reported
    <3> QED
      BY <3>1, <3>2, <3>3 DEF LoadI
  <2> QED
    BY <2>1, <2>2 DEF ReportNext, Longer, loadVars
<1> QED
  BY <1>1, LoadStarts, PTL DEF LoadSpec

\* For every number of drivers and however the warm-up, the end and the answers interleave,
\* the report counts every request of the window once, and what is said to have moved
\* happened during the run (run, summarise, since).
THEOREM ReportIsOfTheRun == LoadSpec => []ReportCountsTheRun
<1>1. LoadI => ReportCountsTheRun
  BY DEF LoadI, Reported, Moving, ReportCountsTheRun
<1> QED
  BY <1>1, LoadInvariance, PTL

\* The bands, and runs of latencies in order.
BandNumbers == 1..(Len(Bands) + 1)
\* A run is in order (sort).
Ascending(s) == \A i, j \in DOMAIN s : i <= j => s[i] <= s[j]

\* The bands divide the latencies: each falls in one of them.
LEMMA OneBand ==
    ASSUME NEW took \in Nat
    PROVE  \E k \in BandNumbers : InBand(k, took) /\ \A j \in BandNumbers : InBand(j, took) => j = k
<1> DEFINE T == {k \in BandNumbers : k = Len(Bands) + 1 \/ took <= Bands[k]}
<1>1. Len(Bands) \in Nat /\ DOMAIN Bands = 1..Len(Bands) /\ \A k \in 1..Len(Bands) : Bands[k] \in Nat
  BY LoadAssumption
<1>2. T \in SUBSET Nat /\ Len(Bands) + 1 \in T
  BY <1>1 DEF BandNumbers
<1>3. PICK k \in T : \A y \in T : k <= y
  BY <1>2, Least
<1>4. k \in BandNumbers /\ k \in Nat
  BY <1>1 DEF BandNumbers
<1>5. InBand(k, took)
  <2>1. ASSUME k > 1 PROVE took > Bands[k - 1]
    <3>1. k - 1 \in BandNumbers /\ k - 1 \in 1..Len(Bands) /\ k - 1 \notin T
      BY <1>1, <1>3, <1>4, <2>1 DEF BandNumbers
    <3> QED
      BY <1>1, <3>1
  <2>2. ASSUME k <= Len(Bands) PROVE took <= Bands[k]
    BY <1>1, <1>4, <2>2
  <2> QED
    BY <2>1, <2>2 DEF InBand
<1>6. ASSUME NEW j \in BandNumbers, InBand(j, took), j # k
      PROVE  FALSE
  <2>1. CASE j < k
    <3>1. j \in 1..Len(Bands) /\ took <= Bands[j]
      BY <1>1, <1>4, <1>6, <2>1 DEF BandNumbers, InBand
    <3>2. j \in T
      BY <3>1
    <3> QED
      BY <1>1, <1>3, <1>4, <2>1, <3>1, <3>2
  <2>2. CASE j > k
    <3>1. /\ k \in 1..Len(Bands) /\ j - 1 \in 1..Len(Bands) /\ k <= j - 1
          /\ took > Bands[j - 1]
      BY <1>1, <1>4, <1>6, <2>2 DEF BandNumbers, InBand
    <3>2. took <= Bands[k]
      BY <1>1, <3>1
    <3>3. Bands[k] <= Bands[j - 1]
      <4>1. CASE k = j - 1
        BY <1>1, <3>1, <4>1
      <4>2. CASE k < j - 1
        <5>1. Bands[k] < Bands[j - 1]
          BY <1>1, <3>1, <4>2, LoadAssumption
        <5> QED
          BY <1>1, <3>1, <5>1
      <4> QED
        BY <1>1, <3>1, <4>1, <4>2
    <3> QED
      BY <1>1, <3>1, <3>2, <3>3
  <2> QED
    BY <1>1, <1>4, <1>6, <2>1, <2>2 DEF BandNumbers
<1> QED
  BY <1>4, <1>5, <1>6

\* How a band's count is read off the positions of its answers.
InTheBand(k, s) == {i \in DOMAIN s : InBand(k, s[i])}

\* A band counts the answers in it (distribution).
LEMMA BandsCounted ==
    ASSUME NEW s \in Seq(Nat)
    PROVE  /\ DOMAIN distribution(s) = BandNumbers
           /\ distribution(s) \in [BandNumbers -> Int]
           /\ \A k \in BandNumbers : /\ distribution(s)[k] = Cardinality(InTheBand(k, s))
                               /\ IsFiniteSet(InTheBand(k, s)) /\ Cardinality(InTheBand(k, s)) \in Nat
<1>2. distribution(s) = [k \in BandNumbers |-> Cardinality(InTheBand(k, s))]
  BY Zenon DEF distribution, BandNumbers, InTheBand
<1>3. Len(s) \in Nat /\ DOMAIN s = 1..Len(s)
  OBVIOUS
<1>4. IsFiniteSet(DOMAIN s)
  BY <1>3, FS_Interval
<1>5. \A k : IsFiniteSet(InTheBand(k, s)) /\ Cardinality(InTheBand(k, s)) \in Nat
  BY <1>4, FS_Subset, FS_CardinalityType DEF InTheBand
<1> HIDE DEF InTheBand
<1> QED
  BY <1>2, <1>5

\* One more answer adds one to its band, and nothing to the others (distribution).
LEMMA BandGrows ==
    ASSUME NEW s \in Seq(Nat), NEW took \in Nat, NEW k \in BandNumbers, InBand(k, took),
           \A j \in BandNumbers : InBand(j, took) => j = k
    PROVE  /\ distribution(Append(s, took))[k] = distribution(s)[k] + 1
           /\ \A j \in BandNumbers \ {k} : distribution(Append(s, took))[j] = distribution(s)[j]
<1> DEFINE t == Append(s, took)
           n == Len(s) + 1
<1>1. /\ t \in Seq(Nat) /\ Len(t) = n /\ t[n] = took /\ n \in Nat
      /\ DOMAIN t = (DOMAIN s) \cup {n} /\ n \notin DOMAIN s
      /\ \A i \in DOMAIN s : t[i] = s[i]
  OBVIOUS
<1>2. /\ \A j \in BandNumbers : distribution(t)[j] = Cardinality(InTheBand(j, t))
      /\ \A j \in BandNumbers : /\ distribution(s)[j] = Cardinality(InTheBand(j, s))
                          /\ IsFiniteSet(InTheBand(j, s))
  BY <1>1, BandsCounted
<1> HIDE DEF t, n
<1>3. InTheBand(k, t) = InTheBand(k, s) \cup {n} /\ n \notin InTheBand(k, s)
  BY <1>1 DEF InTheBand
<1>4. \A j \in BandNumbers \ {k} : InTheBand(j, t) = InTheBand(j, s)
  BY <1>1 DEF InTheBand
<1>5. Cardinality(InTheBand(k, t)) = Cardinality(InTheBand(k, s)) + 1
  BY <1>2, <1>3, FS_AddElement
<1>6. distribution(t)[k] = distribution(s)[k] + 1
  BY <1>2, <1>5
<1>7. \A j \in BandNumbers \ {k} : distribution(t)[j] = distribution(s)[j]
  BY <1>2, <1>4
<1> QED
  BY <1>6, <1>7 DEF t

\* The answers that took at most so long, and those that took less.
UpTo(s, took) == {i \in DOMAIN s : s[i] <= took}
\* The positions of the answers that took less.
Below(s, took) == {i \in DOMAIN s : s[i] < took}

\* A rank cuts a sorted run: what is before it took no longer, what is after no less.
LEMMA RankCuts ==
    ASSUME NEW s \in Seq(Nat), s # <<>>, Ascending(s), NEW r \in 1..Len(s)
    PROVE  /\ Cardinality(UpTo(s, s[r])) \in Nat /\ Cardinality(UpTo(s, s[r])) >= r
           /\ Cardinality(Below(s, s[r])) \in Nat /\ Cardinality(Below(s, s[r])) <= r - 1
<1>1. Len(s) \in Nat /\ DOMAIN s = 1..Len(s) /\ r \in Nat /\ \A i \in DOMAIN s : s[i] \in Nat
  OBVIOUS
<1> DEFINE A == UpTo(s, s[r])
           B == Below(s, s[r])
<1>a. A = {i \in DOMAIN s : s[i] <= s[r]} /\ B = {i \in DOMAIN s : s[i] < s[r]}
  BY Zenon DEF UpTo, Below
<1> HIDE DEF A, B
<1>2. IsFiniteSet(DOMAIN s) /\ A \subseteq DOMAIN s /\ (1..r) \subseteq A
  <2>1. IsFiniteSet(DOMAIN s)
    BY <1>1, FS_Interval
  <2>2. ASSUME NEW i \in 1..r PROVE i \in A
    <3>1. i \in DOMAIN s /\ r \in DOMAIN s /\ i <= r
      BY <1>1
    <3> QED
      BY <1>a, <3>1 DEF Ascending
  <2> QED
    BY <1>a, <2>1, <2>2
<1>3. B \subseteq 1..(r - 1)
  <2> SUFFICES ASSUME NEW i \in DOMAIN s, s[i] < s[r] PROVE i \in 1..(r - 1)
    BY <1>a
  <2>1. ~(r <= i)
    BY <1>1 DEF Ascending
  <2>2. i \in 1..(r - 1)
    BY <1>1, <2>1
  <2> QED
    BY <2>2
<1>4. /\ IsFiniteSet(1..(r - 1)) /\ Cardinality(1..(r - 1)) = r - 1
      /\ IsFiniteSet(1..r) /\ Cardinality(1..r) = r
  <2>1. r - 1 \in Int /\ r \in Int /\ 1 \in Int /\ r - 1 \in Nat
    BY <1>1
  <2>2. /\ IsFiniteSet(1..(r - 1))
        /\ Cardinality(1..(r - 1)) = IF 1 > r - 1 THEN 0 ELSE (r - 1) - 1 + 1
    BY <2>1, FS_Interval
  <2>3. IsFiniteSet(1..r) /\ Cardinality(1..r) = IF 1 > r THEN 0 ELSE r - 1 + 1
    BY <2>1, FS_Interval
  <2>4. r >= 1
    OBVIOUS
  <2> QED
    BY <2>1, <2>2, <2>3, <2>4
<1>5. IsFiniteSet(A) /\ Cardinality(A) \in Nat /\ Cardinality(1..r) <= Cardinality(A)
  BY <1>2, FS_Subset, FS_CardinalityType
<1>6. IsFiniteSet(B) /\ Cardinality(B) \in Nat /\ Cardinality(B) <= Cardinality(1..(r - 1))
  BY <1>3, <1>4, FS_Subset, FS_CardinalityType
<1>7. Cardinality(A) >= r /\ Cardinality(B) <= r - 1
  BY <1>1, <1>4, <1>5, <1>6
<1> QED
  BY <1>5, <1>6, <1>7 DEF A, B

\* A percentile is read at a rank that leaves its share of the run at or below it
\* (percentile).
LEMMA Share ==
    ASSUME NEW n \in Nat, n > 0, NEW q \in {1, 25, 50, 95, 99}
    PROVE  LET r == (q * n) \div 100 + 1
           IN  r \in 1..n /\ 100 * r >= q * n /\ 100 * (r - 1) <= q * n
<1> DEFINE x == q * n
           h == x \div 100
<1>1. x \in Nat /\ x < 100 * n
  <2>1. CASE q = 1
    BY <2>1
  <2>2. CASE q = 25
    BY <2>2
  <2>3. CASE q = 50
    BY <2>3
  <2>4. CASE q = 95
    BY <2>4
  <2>5. CASE q = 99
    BY <2>5
  <2> QED
    BY <2>1, <2>2, <2>3, <2>4, <2>5
<1> HIDE DEF x
<1>2. h \in Nat /\ 100 * h <= x /\ x < 100 * h + 100
  BY <1>1
<1> HIDE DEF h
<1>3. h + 1 \in 1..n /\ 100 * (h + 1) >= x /\ 100 * ((h + 1) - 1) <= x
  BY <1>1, <1>2
<1> QED
  BY <1>3 DEF x, h

\* The run is in order, and the bands add up to it.
Banded ==
    /\ sorted \in Seq(Nat) /\ Ascending(sorted)
    /\ SumFunctionOnSet(distribution(sorted), BandNumbers) = Len(sorted)

\* Nothing is measured at the start.
LEMMA BandsStart == LoadInit => Banded
<1> SUFFICES ASSUME LoadInit PROVE Banded
  OBVIOUS
<1>1. sorted = <<>> /\ sorted \in Seq(Nat) /\ Len(sorted) = 0 /\ DOMAIN sorted = {}
  BY DEF LoadInit
<1>2. Ascending(sorted)
  BY <1>1 DEF Ascending
<1>3. \A k \in BandNumbers : distribution(sorted)[k] = 0
  <2>1. \A k \in BandNumbers : InTheBand(k, sorted) = {}
    BY <1>1 DEF InTheBand
  <2> QED
    BY <1>1, <2>1, BandsCounted, FS_EmptySet
<1>4. /\ distribution(sorted) \in [BandNumbers -> Int] /\ IsFiniteSet(BandNumbers) /\ BandNumbers \in SUBSET BandNumbers
      /\ 0 \in Int
  <2>1. Len(Bands) + 1 \in Int /\ 1 \in Int
    BY LoadAssumption
  <2>2. IsFiniteSet(BandNumbers)
    BY <2>1, FS_Interval DEF BandNumbers
  <2>3. distribution(sorted) \in [BandNumbers -> Int]
    BY <1>1, BandsCounted
  <2> QED
    BY <2>2, <2>3
<1>5. SumFunctionOnSet(distribution(sorted), BandNumbers) = 0 * Cardinality(BandNumbers)
  BY <1>3, <1>4, SumConstant
<1>6. Cardinality(BandNumbers) \in Nat
  BY <1>4, FS_CardinalityType
<1> QED
  BY <1>1, <1>2, <1>5, <1>6 DEF Banded

\* One more answer keeps the bands adding up (distribution).
LEMMA BandsStep == Banded /\ Longer => Banded'
<1> SUFFICES ASSUME Banded, Longer PROVE Banded'
  OBVIOUS
<1>1. sorted \in Seq(Nat) /\ Ascending(sorted) /\ SumFunctionOnSet(distribution(sorted), BandNumbers) = Len(sorted)
  BY DEF Banded
<1>2. PICK took \in 0..(Bands[Len(Bands)] + 1) :
          /\ sorted # <<>> => took >= sorted[Len(sorted)]
          /\ sorted' = Append(sorted, took)
  BY DEF Longer
<1>3. took \in Nat
  <2>1. Bands[Len(Bands)] \in Nat
    BY LoadAssumption
  <2> QED
    BY <2>1
<1>4. sorted' \in Seq(Nat) /\ Len(sorted') = Len(sorted) + 1
  BY <1>1, <1>2, <1>3
<1>5. Ascending(sorted')
  <2> SUFFICES ASSUME NEW i \in DOMAIN sorted', NEW j \in DOMAIN sorted', i <= j
               PROVE  sorted'[i] <= sorted'[j]
    BY DEF Ascending
  <2>1. /\ Len(sorted) \in Nat /\ DOMAIN sorted = 1..Len(sorted)
        /\ DOMAIN sorted' = 1..(Len(sorted) + 1) /\ sorted'[Len(sorted) + 1] = took
        /\ \A k \in 1..Len(sorted) : sorted'[k] = sorted[k] /\ sorted[k] \in Nat
    BY <1>1, <1>2
  <2>2. CASE j \in 1..Len(sorted)
    BY <1>1, <2>1, <2>2 DEF Ascending
  <2>3. CASE j = Len(sorted) + 1 /\ i = Len(sorted) + 1
    BY <1>3, <2>1, <2>3
  <2>4. CASE j = Len(sorted) + 1 /\ i # Len(sorted) + 1
    <3>1. i \in 1..Len(sorted) /\ Len(sorted) \in 1..Len(sorted) /\ sorted # <<>>
      BY <1>1, <2>1, <2>4
    <3>2. sorted[i] <= sorted[Len(sorted)]
      BY <1>1, <2>1, <3>1 DEF Ascending
    <3>3. sorted[Len(sorted)] <= took
      BY <1>2, <1>3, <2>1, <3>1
    <3> QED
      BY <1>3, <2>1, <2>4, <3>1, <3>2, <3>3
  <2> QED
    BY <2>1, <2>2, <2>3, <2>4
<1>6. PICK k \in BandNumbers : InBand(k, took) /\ \A j \in BandNumbers : InBand(j, took) => j = k
  BY <1>3, OneBand
<1> DEFINE new == distribution(sorted')
           old == distribution(sorted)
<1>7. new[k] = old[k] + 1 /\ \A j \in BandNumbers \ {k} : new[j] = old[j]
  BY <1>1, <1>2, <1>3, <1>6, BandGrows
<1>8. /\ old \in [BandNumbers -> Int] /\ new \in [BandNumbers -> Int]
      /\ IsFiniteSet(BandNumbers) /\ BandNumbers \in SUBSET BandNumbers
  <2>1. Len(Bands) + 1 \in Int /\ 1 \in Int
    BY LoadAssumption
  <2> QED
    BY <1>1, <1>4, <2>1, BandsCounted, FS_Interval DEF BandNumbers
<1> HIDE DEF new, old
<1>9. SumFunctionOnSet(new, BandNumbers) = SumFunctionOnSet(old, BandNumbers) - old[k] + new[k]
  BY <1>7, <1>8, SumChange
<1>10. old[k] \in Int /\ Len(sorted) \in Nat /\ SumFunctionOnSet(old, BandNumbers) = Len(sorted)
  BY <1>1, <1>8 DEF old
<1>11. SumFunctionOnSet(new, BandNumbers) = Len(sorted) + 1
  <2> DEFINE b == old[k]
  <2>1. SumFunctionOnSet(new, BandNumbers) = Len(sorted) - b + (b + 1) /\ b \in Int /\ Len(sorted) \in Nat
    BY <1>7, <1>9, <1>10
  <2> HIDE DEF b
  <2> QED
    BY <2>1
<1> QED
  BY <1>4, <1>5, <1>11 DEF Banded, new

\* For every run of latencies and whatever the bands: each answer is in one band, and a
\* percentile has its share of the answers on either side (distribution, percentile).
THEOREM FiguresAlwaysHold == LoadSpec => []FiguresHold
<1>1. Banded /\ [LoadNext \/ ReportNext]_loadVars => Banded'
  <2> SUFFICES ASSUME Banded, [LoadNext \/ ReportNext]_loadVars PROVE Banded'
    OBVIOUS
  <2>1. CASE Longer
    BY <2>1, BandsStep
  <2>2. CASE sorted' = sorted
    BY <2>2 DEF Banded
  <2> QED
    BY <2>1, <2>2, Zenon DEF LoadNext, Passes, ReadBefore, Summarise, NotDone, Send, Reach, Record,
                             DriveReturns, ReportNext, loadVars
<1>2. Banded => FiguresHold
  <2> SUFFICES ASSUME Banded PROVE FiguresHold
    OBVIOUS
  <2>1. sorted \in Seq(Nat) /\ Ascending(sorted)
    BY DEF Banded
  <2>2. SumFunctionOnSet(distribution(sorted), DOMAIN distribution(sorted)) = Len(sorted)
    BY <2>1, BandsCounted DEF Banded
  <2>3. ASSUME NEW q \in {1, 25, 50, 95, 99}, sorted # <<>>
        PROVE  LET p == percentile(sorted, q)
               IN  /\ 100 * Cardinality({i \in DOMAIN sorted : sorted[i] <= p}) >= q * Len(sorted)
                   /\ 100 * Cardinality({i \in DOMAIN sorted : sorted[i] < p}) <= q * Len(sorted)
    <3> DEFINE r == (q * Len(sorted)) \div 100 + 1
               A == Cardinality(UpTo(sorted, sorted[r]))
               B == Cardinality(Below(sorted, sorted[r]))
               x == q * Len(sorted)
    <3>1. Len(sorted) \in Nat /\ Len(sorted) > 0
      BY <2>1, <2>3
    <3>2. r \in 1..Len(sorted) /\ 100 * r >= x /\ 100 * (r - 1) <= x
      BY <3>1, Share
    <3>3. percentile(sorted, q) = sorted[r]
      <4>1. ~(q <= 0) /\ ~(q >= 100)
        OBVIOUS
      <4> QED
        BY <2>3, <4>1 DEF percentile
    <3>4. x \in Int
      BY <3>1
    <3> HIDE DEF r, x
    <3>5. A \in Nat /\ A >= r /\ B \in Nat /\ B <= r - 1
      BY <2>1, <2>3, <3>2, RankCuts
    <3> HIDE DEF A, B
    <3>6. 100 * A >= x /\ 100 * B <= x
      BY <3>1, <3>2, <3>4, <3>5
    <3>7. /\ {i \in DOMAIN sorted : sorted[i] <= percentile(sorted, q)} = UpTo(sorted, sorted[r])
          /\ {i \in DOMAIN sorted : sorted[i] < percentile(sorted, q)} = Below(sorted, sorted[r])
      BY <3>3, Zenon DEF UpTo, Below
    <3> QED
      BY <3>6, <3>7 DEF A, B, x
  <2> QED
    BY <2>2, <2>3 DEF FiguresHold
<1> QED
  BY <1>1, <1>2, BandsStart, PTL DEF LoadSpec

-----------------------------------------------------------------------------
(* The mock backend's cache.                                               *)

\* The cache by itself.
CacheSpec == CacheInit /\ [][CacheNext]_cacheVars

\* Nothing is in s twice.
Distinct(s) == \A i, j \in 1..Len(s) : s[i] = s[j] => i = j

\* The list holds the first of those seen, and the map what the list holds.
CacheInv ==
    /\ recency \in Seq(Sessions) /\ order \in Seq(Sessions)
    /\ Distinct(recency)
    /\ Len(order) = IF Len(recency) < Remembered THEN Len(recency) ELSE Remembered
    /\ \A i \in 1..Len(order) : order[i] = recency[i]
    /\ entries = {order[i] : i \in 1..Len(order)}

\* s, with k moved to the front of it from place p.
FrontOf(t, s, k, p) ==
    /\ t \in Seq(Sessions) /\ p \in 1..(Len(s) + 1)
    /\ (p <= Len(s) => s[p] = k)
    /\ \A i \in 1..Len(s) : i # p => s[i] # k
    /\ Len(t) = IF p > Len(s) THEN p ELSE Len(s)
    /\ \A i \in 1..Len(t) : t[i] = IF i = 1 THEN k ELSE IF i <= p THEN s[i - 1] ELSE s[i]
    /\ Distinct(t)

\* Moving to the front moves back by one those that were before.
LEMMA MovedToFront ==
    ASSUME NEW s \in Seq(Sessions), NEW k \in Sessions, Distinct(s)
    PROVE  FrontOf(ToFront(s, k), s, k, PlaceOf(s, k))
<1> DEFINE n == Len(s)
           p == PlaceOf(s, k)
           m == IF p > n THEN p ELSE n
           At(i) == IF i = 1 THEN k ELSE IF i <= p THEN s[i - 1] ELSE s[i]
           t == [i \in 1..m |-> At(i)]
<1>1. n \in Nat /\ DOMAIN s = 1..n /\ \A i \in 1..n : s[i] \in Sessions
  OBVIOUS
<1>2. p \in 1..(n + 1) /\ (p <= n => s[p] = k) /\ \A i \in 1..n : i # p => s[i] # k
  <2>1. CASE \E i \in 1..n : s[i] = k
    <3>1. p = CHOOSE i \in 1..n : s[i] = k
      BY <1>1, <2>1 DEF PlaceOf
    <3>2. p \in 1..n /\ s[p] = k
      BY <2>1, <3>1
    <3> QED
      BY <1>1, <3>2 DEF Distinct
  <2>2. CASE ~\E i \in 1..n : s[i] = k
    <3>1. p = n + 1
      BY <1>1, <2>2 DEF PlaceOf
    <3> HIDE DEF p
    <3> QED
      BY <1>1, <2>2, <3>1
  <2> QED
    BY <2>1, <2>2
<1>3. ToFront(s, k) = t
  BY DEF ToFront
<1> HIDE DEF p, n
<1>4. m \in Nat /\ m >= n /\ (m = n \/ (m = n + 1 /\ p = m)) /\ p <= m
  BY <1>1, <1>2
<1>5. \A i \in 1..m : At(i) \in Sessions
  BY <1>1, <1>2, <1>4
<1> HIDE DEF m, At
<1>6. t \in Seq(Sessions) /\ Len(t) = m /\ \A i \in 1..m : t[i] = At(i)
  BY <1>4, <1>5
<1>7. \A i, j \in 1..m : At(i) = At(j) => i = j
  <2> SUFFICES ASSUME NEW i \in 1..m, NEW j \in 1..m, At(i) = At(j) PROVE i = j
    OBVIOUS
  <2> DEFINE From(x) == IF x = 1 THEN p ELSE IF x <= p THEN x - 1 ELSE x
  <2>1. From(i) \in 1..m /\ From(j) \in 1..m /\ (From(i) = From(j) => i = j)
    BY <1>1, <1>2, <1>4
  <2>2. /\ At(i) = IF From(i) = p THEN k ELSE s[From(i)]
        /\ At(j) = IF From(j) = p THEN k ELSE s[From(j)]
        /\ From(i) # p => From(i) \in 1..n
        /\ From(j) # p => From(j) \in 1..n
    BY <1>1, <1>2, <1>4 DEF At
  <2> HIDE DEF From
  <2>3. From(i) = From(j)
    <3>1. \A x, y \in 1..n : s[x] = s[y] => x = y
      BY DEF Distinct, n
    <3> QED
      BY <1>2, <2>2, <3>1
  <2> QED
    BY <2>1, <2>3
<1> HIDE DEF t
<1> QED
  BY <1>2, <1>3, <1>6, <1>7 DEF FrontOf, Distinct, n, p, m, At

\* A session that is remembered comes to the front of both.
LEMMA HitKeeps == ASSUME CacheInv, NEW k \in Sessions, Hit(k), recency' = ToFront(recency, k)
                  PROVE  CacheInv'
<1> DEFINE n == Len(order)
           p == PlaceOf(order, k)
           q == PlaceOf(recency, k)
<1>1. /\ order \in Seq(Sessions) /\ recency \in Seq(Sessions) /\ n \in Nat
      /\ n <= Len(recency) /\ Len(recency) \in Nat /\ \A i \in 1..n : order[i] = recency[i]
      /\ n = IF Len(recency) < Remembered THEN Len(recency) ELSE Remembered
      /\ Remembered \in Nat
      /\ k \in {order[i] : i \in 1..n} /\ order' = ToFront(order, k) /\ entries' = entries
  BY CacheAssumption DEF CacheInv, Hit
<1>2. Distinct(recency) /\ Distinct(order)
  BY <1>1 DEF CacheInv, Distinct
<1>3. FrontOf(order', order, k, p)
  <2>1. order \in Seq(Sessions) /\ Distinct(order) /\ order' = ToFront(order, k)
    BY <1>1, <1>2
  <2> QED
    BY <2>1, MovedToFront
<1>4. FrontOf(recency', recency, k, q)
  <2>1. recency \in Seq(Sessions) /\ Distinct(recency)
    BY <1>1, <1>2
  <2> QED
    BY <2>1, MovedToFront
<1> HIDE DEF p, q, n
<1>5. p \in 1..n /\ q = p /\ Len(order') = n /\ Len(recency') = Len(recency)
  <2>1. p \in 1..n
    BY <1>1, <1>3 DEF FrontOf, n
  <2>2. p \in 1..Len(recency) /\ recency[p] = k
    BY <1>1, <1>3, <2>1 DEF FrontOf, n
  <2> QED
    BY <1>1, <1>3, <1>4, <2>1, <2>2 DEF FrontOf, n
<1>6. \A i \in 1..n : order'[i] = recency'[i]
  <2> SUFFICES ASSUME NEW i \in 1..n PROVE order'[i] = recency'[i]
    OBVIOUS
  <2>1. /\ order'[i] = IF i = 1 THEN k ELSE IF i <= p THEN order[i - 1] ELSE order[i]
        /\ recency'[i] = IF i = 1 THEN k ELSE IF i <= p THEN recency[i - 1] ELSE recency[i]
    BY <1>1, <1>3, <1>4, <1>5 DEF FrontOf, n
  <2>2. order[i] = recency[i] /\ (i = 1 \/ (i - 1 \in 1..n))
    BY <1>1
  <2>3. i = 1 \/ order[i - 1] = recency[i - 1]
    BY <1>1, <2>2
  <2> QED
    BY <2>1, <2>2, <2>3
<1>7. entries' = {order'[i] : i \in 1..n}
  <2>1. entries' = {order[i] : i \in 1..n}
    BY <1>1 DEF CacheInv, n
  <2>2. ASSUME NEW i \in 1..n PROVE \E j \in 1..n : order'[i] = order[j]
    <3>1. i = 1 \/ i - 1 \in 1..n
      BY <1>1
    <3> QED
      BY <1>3, <1>5, <3>1 DEF FrontOf, n
  <2>3. ASSUME NEW i \in 1..n PROVE \E j \in 1..n : order[i] = order'[j]
    <3>1. CASE i < p
      <4>1. i + 1 \in 1..n /\ i + 1 <= p /\ i + 1 # 1 /\ (i + 1) - 1 = i
        BY <1>1, <1>5, <3>1
      <4> QED
        BY <1>3, <1>5, <4>1 DEF FrontOf, n
    <3>2. CASE i = p
      <4>1. 1 \in 1..n
        BY <1>1, <1>5
      <4> QED
        BY <1>3, <1>5, <3>2, <4>1 DEF FrontOf, n
    <3>3. CASE i > p
      <4>1. ~(i <= p) /\ i # 1
        BY <1>1, <1>5, <3>3
      <4> QED
        BY <1>3, <1>5, <4>1 DEF FrontOf, n
    <3> QED
      BY <1>1, <1>5, <3>1, <3>2, <3>3
  <2> QED
    BY <2>1, <2>2, <2>3
<1> QED
  BY <1>1, <1>3, <1>4, <1>5, <1>6, <1>7 DEF CacheInv, FrontOf, n

\* One that is not is put first, and the last makes room if there is none.
LEMMA MissKeeps == ASSUME CacheInv, NEW k \in Sessions, Miss(k), recency' = ToFront(recency, k)
                   PROVE  CacheInv'
<1> DEFINE n == Len(order)
           q == PlaceOf(recency, k)
           longer == <<k>> \o order
<1>1. /\ order \in Seq(Sessions) /\ recency \in Seq(Sessions) /\ n \in Nat
      /\ n <= Len(recency) /\ Len(recency) \in Nat /\ \A i \in 1..n : order[i] = recency[i]
      /\ n = IF Len(recency) < Remembered THEN Len(recency) ELSE Remembered
      /\ Remembered \in Nat \ {0}
      /\ entries = {order[i] : i \in 1..n} /\ k \notin entries
  BY CacheAssumption DEF CacheInv, Miss
<1>2. Distinct(recency)
  BY DEF CacheInv
<1>3. FrontOf(recency', recency, k, q)
  <2>1. recency \in Seq(Sessions) /\ Distinct(recency)
    BY <1>1, <1>2
  <2> QED
    BY <2>1, MovedToFront
<1>4. /\ longer \in Seq(Sessions) /\ Len(longer) = n + 1
      /\ \A i \in 1..(n + 1) : longer[i] = IF i = 1 THEN k ELSE order[i - 1]
  BY <1>1
<1> HIDE DEF q, n
<1>5. q > n
  <2> SUFFICES ASSUME q <= n PROVE FALSE
    BY <1>1, <1>3 DEF FrontOf
  <2>1. q \in 1..n /\ order[q] = k
    BY <1>1, <1>3 DEF FrontOf
  <2> QED
    BY <1>1, <2>1
<1>6. \A i \in 1..(n + 1) : i <= Len(recency') /\ recency'[i] = longer[i]
  <2> HIDE DEF longer
  <2> SUFFICES ASSUME NEW i \in 1..(n + 1) PROVE i <= Len(recency') /\ recency'[i] = longer[i]
    OBVIOUS
  <2>1. i <= q /\ i <= Len(recency') /\ (i = 1 \/ i - 1 \in 1..n) /\ i \in 1..Len(recency')
    BY <1>1, <1>3, <1>5 DEF FrontOf
  <2> QED
    BY <1>1, <1>3, <1>4, <2>1 DEF FrontOf
<1>7. CASE n + 1 > Remembered
  <2>1. /\ n = Remembered /\ n \in Nat \ {0}
    BY <1>1, <1>7
  <2>2. /\ order' = SubSeq(longer, 1, n)
        /\ entries' = (entries \cup {k}) \ {longer[n + 1]}
    BY <1>1, <1>4, <1>7, <2>1 DEF Miss
  <2> HIDE DEF longer
  <2>3. order' \in Seq(Sessions) /\ Len(order') = n /\ \A i \in 1..n : order'[i] = longer[i]
    BY <1>4, <2>1, <2>2
  <2>4. longer[n + 1] = order[n] /\ longer[1] = k
    BY <1>4, <2>1
  <2>5. entries' = {order'[i] : i \in 1..n}
    <3>1. ASSUME NEW i \in 1..n PROVE order'[i] \in entries'
      <4>1. CASE i = 1
        <5>1. order[n] \in entries
          BY <1>1, <2>1
        <5> QED
          BY <1>1, <2>2, <2>3, <2>4, <4>1, <5>1
      <4>2. CASE i # 1
        <5>1. i - 1 \in 1..n /\ i - 1 # n /\ order'[i] = order[i - 1]
          BY <1>4, <2>1, <2>3, <4>2
        <5>2. order[i - 1] # order[n]
          BY <1>1, <1>2, <2>1, <5>1 DEF Distinct
        <5> QED
          BY <1>1, <2>2, <2>4, <5>1, <5>2
      <4> QED
        BY <4>1, <4>2
    <3>2. ASSUME NEW e \in entries' PROVE \E i \in 1..n : e = order'[i]
      <4>1. CASE e = k
        <5>1. 1 \in 1..n
          BY <2>1
        <5> QED
          BY <2>3, <2>4, <4>1, <5>1
      <4>2. CASE e # k
        <5>1. PICK i \in 1..n : e = order[i]
          BY <1>1, <2>2, <3>2, <4>2
        <5>2. i # n
          BY <2>2, <2>4, <3>2, <5>1
        <5>3. i + 1 \in 1..n /\ i + 1 \in 1..(n + 1) /\ i + 1 # 1 /\ (i + 1) - 1 = i
          BY <2>1, <5>2
        <5> QED
          BY <1>4, <2>3, <5>1, <5>3
      <4> QED
        BY <4>1, <4>2
    <3> QED
      BY <3>1, <3>2
  <2>6. Len(recency') >= Remembered /\ Len(recency') \in Nat
    BY <1>1, <1>3, <2>1 DEF FrontOf
  <2>7. \A i \in 1..n : order'[i] = recency'[i]
    BY <1>6, <2>1, <2>3
  <2> QED
    BY <1>3, <2>1, <2>3, <2>5, <2>6, <2>7 DEF CacheInv, FrontOf
<1>8. CASE ~(n + 1 > Remembered)
  <2>1. n = Len(recency) /\ n + 1 <= Remembered /\ Len(recency') = n + 1
    BY <1>1, <1>3, <1>5, <1>8 DEF FrontOf
  <2>2. order' = longer /\ entries' = entries \cup {k}
    BY <1>1, <1>4, <1>8 DEF Miss
  <2> HIDE DEF longer
  <2>3. entries' = {order'[i] : i \in 1..(n + 1)}
    <3>1. ASSUME NEW i \in 1..(n + 1) PROVE longer[i] \in entries \cup {k}
      <4>1. i = 1 \/ i - 1 \in 1..n
        BY <1>1
      <4> QED
        BY <1>1, <1>4, <4>1
    <3>2. ASSUME NEW e \in entries \cup {k} PROVE \E i \in 1..(n + 1) : e = longer[i]
      <4>1. CASE e = k
        <5>1. 1 \in 1..(n + 1)
          BY <1>1
        <5> QED
          BY <1>4, <4>1, <5>1
      <4>2. CASE e # k
        <5>1. PICK i \in 1..n : e = order[i]
          BY <1>1, <4>2
        <5>2. i + 1 \in 1..(n + 1) /\ i + 1 # 1 /\ (i + 1) - 1 = i
          BY <1>1
        <5> QED
          BY <1>4, <5>1, <5>2
      <4> QED
        BY <4>1, <4>2
    <3> QED
      BY <2>2, <3>1, <3>2
  <2>4. Len(order') = n + 1 /\ order' \in Seq(Sessions)
        /\ \A i \in 1..(n + 1) : order'[i] = recency'[i]
    BY <1>4, <1>6, <2>2
  <2> QED
    BY <1>1, <1>3, <2>1, <2>3, <2>4 DEF CacheInv, FrontOf
<1> QED
  BY <1>7, <1>8

\* The list and the map hold the same sessions, the latest seen, as many as there is room
\* for, after any sequence of hits, misses and clears (cache.seen, cache.clear).
THEOREM CacheRemembers == CacheSpec => []RemembersTheLatest
<1>1. CacheInit => CacheInv
  <2> SUFFICES ASSUME CacheInit PROVE CacheInv
    OBVIOUS
  <2> QED
    BY CacheAssumption DEF CacheInit, CacheInv, Distinct
<1>2. CacheInv /\ [CacheNext]_cacheVars => CacheInv'
  <2> SUFFICES ASSUME CacheInv, [CacheNext]_cacheVars PROVE CacheInv'
    OBVIOUS
  <2>1. CASE UNCHANGED cacheVars
    BY <2>1 DEF cacheVars, CacheInv, Distinct
  <2>2. CASE Forget
    BY <2>2, CacheAssumption DEF Forget, CacheInv, Distinct
  <2>3. ASSUME NEW k \in Sessions, Seen(k) PROVE CacheInv'
    BY <2>3, HitKeeps, MissKeeps DEF Seen
  <2> QED
    BY <2>1, <2>2, <2>3 DEF CacheNext
<1>3. CacheInv => RemembersTheLatest
  <2> SUFFICES ASSUME CacheInv PROVE RemembersTheLatest
    OBVIOUS
  <2> DEFINE n == Len(order)
  <2>1. /\ order \in Seq(Sessions) /\ recency \in Seq(Sessions) /\ n \in Nat
        /\ n <= Len(recency) /\ \A i \in 1..n : order[i] = recency[i]
        /\ n = IF Len(recency) < Remembered THEN Len(recency) ELSE Remembered
        /\ entries = {order[i] : i \in 1..n} /\ DOMAIN order = 1..n
    BY CacheAssumption DEF CacheInv
  <2>2. order = SubSeq(recency, 1, n)
    BY <2>1
  <2> HIDE DEF n
  <2> QED
    BY <2>1, <2>2 DEF RemembersTheLatest
<1> QED
  BY <1>1, <1>2, <1>3, PTL DEF CacheSpec, FrontOf

=============================================================================
