-------------------------- MODULE ApplicationProofs --------------------------
(***************************************************************************)
(* Proofs about the assembled balancer, for every sequence of files and    *)
(* set of backends: what the parts hold at each stage of a reload, why the *)
(* admin server is stopped last, and what a probe may miss.                *)
(***************************************************************************)
EXTENDS ApplicationProperties, TLAPS

Underway == reloader.at \in {"handler", "checker", "pool", "record"}

\* The parts that have the version under way.
Applied ==
    CASE reloader.at = "checker" -> {"handler"}
      [] reloader.at = "pool"    -> {"handler", "checker"}
      [] reloader.at = "record"  -> {"handler", "checker", "pool"}
      [] OTHER -> {}

\* Each part holds the version under way or the one of the record, and nothing in
\* force is newer than the file.
Staged ==
    /\ \A p \in {"handler", "checker", "pool"} :
          given[p] = IF p \in Applied THEN reloader.next ELSE given["cfg"]
    /\ Files[given["strategy"]].algorithm =
          Files[IF Applied = {} THEN given["cfg"] ELSE reloader.next].algorithm
    /\ Files[given["cfg"]].valid
    /\ \A p \in Parts : given[p] <= file.version
    /\ Underway => Files[reloader.next].valid /\ reloader.next <= file.version
                   /\ \A p \in Parts : given[p] <= reloader.next

\* Only the end of the traffic server stops the admin server.
TrafficFirst == adminOver \/ servers.admin = "draining" => servers.traffic = "down"

\* A backend that was healthy all along is healthy, and left to ask for.
SteadyLeft == steady \subseteq probe.left \cap Healthy

Inv == TypeOK /\ Staged /\ TrafficFirst /\ SteadyLeft

-----------------------------------------------------------------------------
\* The versions are numbers, the first among them.
LEMMA VersionsAre ==
    /\ Versions \subseteq Int /\ 1 \in Versions /\ Files[1].valid
    /\ \A v \in Versions : Files[v].pool \subseteq Addrs
<1> DEFINE File == [valid : BOOLEAN, pool : SUBSET Addrs, algorithm : STRING, fixed : Nat]
<1>1. Files \in Seq(File) /\ Files # <<>> /\ Files[1].valid
  BY FilesAssumption
<1>2. \A f \in File : f.pool \subseteq Addrs
  OBVIOUS
<1> HIDE DEF File
<1>3. 1 \in Versions /\ \A v \in Versions : Files[v] \in File
  BY <1>1 DEF Versions
<1> QED
  BY <1>1, <1>2, <1>3 DEF Versions

\* A step of the life of the process keeps its types and the order of the ends.
LEMMA LifecycleStep ==
    ASSUME LifecycleTypeOK, TrafficFirst, LifecycleNext
    PROVE  LifecycleTypeOK' /\ TrafficFirst'
<1> USE DEF LifecycleTypeOK, TrafficFirst, ServerStages
<1>1. CASE Terminate
  BY <1>1 DEF Terminate
<1>2. CASE Drain
  BY <1>2 DEF Drain
<1>3. ASSUME NEW s \in {"traffic", "admin"}, BeginShutdown(s)
      PROVE  LifecycleTypeOK' /\ TrafficFirst'
  <2>1. CASE s = "traffic"
    BY <1>3, <2>1 DEF BeginShutdown
  <2>2. CASE s = "admin"
    BY <1>3, <2>2 DEF BeginShutdown
  <2> QED
    BY <2>1, <2>2
<1>4. ASSUME NEW s \in {"traffic", "admin"}, EndShutdown(s) \/ Break(s)
      PROVE  LifecycleTypeOK' /\ TrafficFirst'
  <2>1. /\ servers' = [servers EXCEPT ![s] = "down"]
        /\ over' = TRUE /\ adminOver' = (adminOver \/ s = "traffic")
        /\ signalled' = signalled /\ draining' = draining
    BY <1>4 DEF EndShutdown, Break, Down
  <2>2. CASE s = "traffic"
    BY <2>1, <2>2
  <2>3. CASE s = "admin"
    BY <2>1, <2>3
  <2> QED
    BY <2>2, <2>3
<1> QED
  BY <1>1, <1>2, <1>3, <1>4 DEF LifecycleNext

-----------------------------------------------------------------------------
\* A step that neither reads nor gives leaves what the parts hold as it is.
LEMMA NothingGiven ==
    ASSUME ReloadTypeOK, Staged, given' = given,
           file'.version \in Versions, file'.version >= file.version,
           reloader'.next = reloader.next,
           reloader'.at = reloader.at \/
               (~Underway /\ reloader'.at \notin {"handler", "checker", "pool", "record"})
    PROVE  Staged'
<1>1. Applied' = Applied /\ (Underway' <=> Underway)
  BY DEF Applied, Underway
<1>2. \A p \in Parts : given[p] \in Int
  BY VersionsAre DEF ReloadTypeOK
<1>3. file.version \in Int /\ file'.version \in Int /\ reloader.next \in Int
  BY VersionsAre DEF ReloadTypeOK
<1> QED
  BY <1>1, <1>2, <1>3 DEF Staged

\* Each step of the reload keeps what the parts hold in order, and gives none an
\* older version or one that is not valid (App.Reload).
LEMMA ReloadStep ==
    ASSUME ReloadTypeOK, Staged, ReloadNext
    PROVE  /\ ReloadTypeOK' /\ Staged'
           /\ \A p \in Parts : /\ given'[p] >= given[p]
                               /\ given'[p] # given[p] => Files[given'[p]].valid
<1> DEFINE Goal == /\ ReloadTypeOK' /\ Staged'
                   /\ \A p \in Parts : /\ given'[p] >= given[p]
                                       /\ given'[p] # given[p] => Files[given'[p]].valid
<1>t. /\ file.version \in Versions /\ reloader.next \in Versions
      /\ file.version \in Int /\ reloader.next \in Int
      /\ \A p \in Parts : given[p] \in Versions /\ given[p] \in Int
  BY VersionsAre DEF ReloadTypeOK
<1>k. ASSUME given' = given, Staged', ReloadTypeOK' PROVE Goal
  BY <1>k, <1>t
<1>1. CASE BeginWrite
  <2>1. file.version + 1 \in Versions
    BY <1>1, <1>t, FilesAssumption DEF BeginWrite, Versions
  <2>2. ReloadTypeOK'
    BY <1>1, <2>1 DEF BeginWrite, ReloadTypeOK, Known
  <2>3. Staged'
    BY <1>1, <1>t, <2>1, NothingGiven DEF BeginWrite
  <2> QED
    BY <1>1, <2>2, <2>3, <1>k DEF BeginWrite
<1>2. CASE EndWrite
  <2>1. ReloadTypeOK'
    BY <1>2 DEF EndWrite, ReloadTypeOK, Known
  <2>2. Staged'
    BY <1>2, <1>t, NothingGiven DEF EndWrite, ReloadTypeOK
  <2> QED
    BY <1>2, <2>1, <2>2, <1>k DEF EndWrite
<1>3. CASE HangUp \/ RelayReceives \/ RelayPasses \/ RelayEnds
  <2>1. given' = given /\ file' = file /\ reloader' = reloader /\ fit' = fit /\ warned' = warned
    BY <1>3 DEF HangUp, RelayReceives, RelayPasses, RelayEnds, operator
  <2>2. asked' \in BOOLEAN /\
        hangups' \in [received : BOOLEAN, requested : BOOLEAN,
                      relay : {"waiting", "passing", "done"}]
    BY <1>3 DEF HangUp, RelayReceives, RelayPasses, RelayEnds, operator, ReloadTypeOK
  <2>3. ReloadTypeOK'
    BY <2>1, <2>2 DEF ReloadTypeOK, Known
  <2>4. Staged'
    BY <2>1, <1>t, NothingGiven
  <2> QED
    BY <2>1, <2>3, <2>4, <1>k
<1>4. CASE TakeRequest \/ ReloaderEnds
  <2>1. /\ given' = given /\ file' = file /\ fit' = fit /\ warned' = warned
        /\ asked' = asked /\ reloader.at = "waiting"
        /\ reloader' \in {[reloader EXCEPT !.at = "reading"], [reloader EXCEPT !.at = "done"]}
    BY <1>4 DEF TakeRequest, ReloaderEnds, Moves, operator
  <2>2. hangups' \in [received : BOOLEAN, requested : BOOLEAN,
                      relay : {"waiting", "passing", "done"}]
    BY <1>4 DEF TakeRequest, ReloaderEnds, ReloadTypeOK
  <2>3. /\ reloader' \in [at : ReloadStages, next : Versions]
        /\ reloader'.next = reloader.next /\ reloader'.at \in {"reading", "done"}
    BY <2>1 DEF ReloadTypeOK, ReloadStages
  <2>4. ReloadTypeOK'
    BY <2>1, <2>2, <2>3 DEF ReloadTypeOK, Known
  <2>5. Staged'
    BY <2>1, <2>3, <1>t, NothingGiven DEF Underway
  <2> QED
    BY <2>1, <2>4, <2>5, <1>k
<1>5. CASE Read
  <2>1. /\ given' = given /\ file' = file /\ fit' = fit /\ warned' = warned
        /\ asked' = asked /\ hangups' = hangups /\ reloader.at = "reading"
    BY <1>5 DEF Read, operator
  <2>2. CASE file.whole /\ Files[file.version].valid
    <3>1. reloader' = [at |-> "handler", next |-> file.version]
      BY <1>5, <2>2 DEF Read
    <3>2. ReloadTypeOK'
      BY <2>1, <3>1, <1>t DEF ReloadTypeOK, ReloadStages, Known
    <3>3. Staged'
      BY <2>1, <2>2, <3>1, <1>t DEF Staged, Applied, Underway
    <3> QED
      BY <2>1, <3>2, <3>3, <1>k
  <2>3. CASE ~(file.whole /\ Files[file.version].valid)
    <3>1. reloader' = [reloader EXCEPT !.at = "waiting"]
      BY <1>5, <2>3 DEF Read
    <3>2. /\ reloader' \in [at : ReloadStages, next : Versions]
          /\ reloader'.next = reloader.next /\ reloader'.at = "waiting"
      BY <3>1 DEF ReloadTypeOK, ReloadStages
    <3>3. ReloadTypeOK'
      BY <2>1, <3>2 DEF ReloadTypeOK, Known
    <3>4. Staged'
      BY <2>1, <3>2, <1>t, NothingGiven DEF Underway
    <3> QED
      BY <2>1, <3>3, <3>4, <1>k
  <2> QED
    BY <2>2, <2>3
<1>6. ASSUME NEW parts \in SUBSET Parts, NEW to \in ReloadStages,
             Give(parts), Underway, Moves(reloader.at, to)
      PROVE  /\ given' \in [Parts -> Versions]
             /\ \A p \in Parts : given'[p] = IF p \in parts THEN reloader.next ELSE given[p]
             /\ reloader' \in [at : ReloadStages, next : Versions]
             /\ reloader'.next = reloader.next /\ reloader'.at = to
             /\ \A p \in Parts : /\ given'[p] >= given[p]
                                 /\ given'[p] # given[p] => Files[given'[p]].valid
  <2>1. /\ given' = [p \in Parts |-> IF p \in parts THEN reloader.next ELSE given[p]]
        /\ reloader' = [reloader EXCEPT !.at = to]
    BY <1>6 DEF Give, Moves
  <2>2. \A p \in Parts : given[p] <= reloader.next /\ Files[reloader.next].valid
    BY <1>6 DEF Staged
  <2>3. /\ reloader' \in [at : ReloadStages, next : Versions]
        /\ reloader'.next = reloader.next /\ reloader'.at = to
    BY <2>1 DEF ReloadTypeOK
  <2> QED
    BY <2>1, <2>2, <2>3, <1>t
<1>7. CASE GiveHandler
  <2> DEFINE parts == {"handler"} \cup IF Differs("algorithm") THEN {"strategy"} ELSE {}
  <2>1. /\ parts \in SUBSET Parts /\ "checker" \in ReloadStages /\ Give(parts) /\ Underway
        /\ Moves(reloader.at, "checker") /\ reloader.at = "handler"
        /\ file' = file /\ fit' = fit /\ asked' = asked /\ hangups' = hangups
        /\ warned' \in BOOLEAN
    BY <1>7 DEF GiveHandler, Moves, Parts, ReloadStages, Underway, operator, Differs
  <2>2. /\ given' \in [Parts -> Versions]
        /\ \A p \in Parts : given'[p] = IF p \in parts THEN reloader.next ELSE given[p]
        /\ reloader' \in [at : ReloadStages, next : Versions]
        /\ reloader'.next = reloader.next /\ reloader'.at = "checker"
        /\ \A p \in Parts : /\ given'[p] >= given[p]
                            /\ given'[p] # given[p] => Files[given'[p]].valid
    BY <2>1, <1>6
  <2>3. /\ given'["handler"] = reloader.next /\ given'["checker"] = given["checker"]
        /\ given'["pool"] = given["pool"] /\ given'["cfg"] = given["cfg"]
        /\ given'["strategy"] = IF Differs("algorithm") THEN reloader.next ELSE given["strategy"]
    BY <2>2 DEF Parts
  <2>4. ReloadTypeOK'
    BY <2>1, <2>2, <2>3 DEF ReloadTypeOK, Known
  <2>5. Applied = {} /\ Applied' = {"handler"}
    BY <2>1, <2>2 DEF Applied
  <2>6. Files[given'["strategy"]].algorithm = Files[reloader.next].algorithm
    BY <2>3, <2>5 DEF Staged, Differs
  <2>7. \A p \in Parts : given'[p] <= reloader.next
    BY <2>1, <2>2, <1>t DEF Staged
  <2>8. Staged'
    <3>1. Files[reloader.next].valid /\ reloader.next <= file.version
      BY <2>1 DEF Staged
    <3>2. \A p \in Parts : given'[p] \in Int
      BY <2>2, VersionsAre
    <3>3. \A p \in Parts : given'[p] <= file.version
      BY <2>7, <3>1, <3>2, <1>t
    <3>4. /\ given'["handler"] = reloader.next /\ given'["checker"] = given'["cfg"]
          /\ given'["pool"] = given'["cfg"] /\ Files[given'["cfg"]].valid
      BY <2>3, <2>5 DEF Staged
    <3> QED
      BY <2>1, <2>2, <2>5, <2>6, <2>7, <3>1, <3>3, <3>4 DEF Staged
  <2> QED
    BY <2>2, <2>4, <2>8
<1>8. CASE GiveChecker
  <2>1. /\ {"checker"} \in SUBSET Parts /\ "pool" \in ReloadStages /\ Give({"checker"})
        /\ Underway /\ Moves(reloader.at, "pool") /\ reloader.at = "checker"
        /\ file' = file /\ asked' = asked /\ hangups' = hangups /\ warned' = warned
    BY <1>8 DEF GiveChecker, Moves, Parts, ReloadStages, Underway, operator
  <2>2. /\ given' \in [Parts -> Versions]
        /\ \A p \in Parts : given'[p] = IF p \in {"checker"} THEN reloader.next ELSE given[p]
        /\ reloader' \in [at : ReloadStages, next : Versions]
        /\ reloader'.next = reloader.next /\ reloader'.at = "pool"
        /\ \A p \in Parts : /\ given'[p] >= given[p]
                            /\ given'[p] # given[p] => Files[given'[p]].valid
    BY <2>1, <1>6
  <2>3. /\ given'["checker"] = reloader.next /\ given'["handler"] = given["handler"]
        /\ given'["pool"] = given["pool"] /\ given'["cfg"] = given["cfg"]
        /\ given'["strategy"] = given["strategy"]
    BY <2>2 DEF Parts
  <2>4. ReloadTypeOK'
    <3>1. Known' = Files[reloader.next].pool
      BY <2>3 DEF Known
    <3>2. fit' = [b \in Addrs |-> b \in Known \cap Files[reloader.next].pool => fit[b]]
      BY <1>8 DEF GiveChecker
    <3>3. fit' \in [Addrs -> BOOLEAN] /\ \A b \in Addrs \ Known' : fit'[b]
      BY <3>1, <3>2 DEF ReloadTypeOK
    <3> QED
      BY <2>1, <2>2, <3>3 DEF ReloadTypeOK
  <2>5. Applied = {"handler"} /\ Applied' = {"handler", "checker"}
    BY <2>1, <2>2 DEF Applied
  <2>6. Staged'
    BY <2>1, <2>2, <2>3, <2>5, <1>t DEF Staged, Underway
  <2> QED
    BY <2>2, <2>4, <2>6
<1>9. CASE GivePool
  <2>1. /\ {"pool"} \in SUBSET Parts /\ "record" \in ReloadStages /\ Give({"pool"})
        /\ Underway /\ Moves(reloader.at, "record") /\ reloader.at = "pool"
        /\ file' = file /\ asked' = asked /\ hangups' = hangups /\ warned' = warned
        /\ fit' = fit
    BY <1>9 DEF GivePool, Moves, Parts, ReloadStages, Underway, operator
  <2>2. /\ given' \in [Parts -> Versions]
        /\ \A p \in Parts : given'[p] = IF p \in {"pool"} THEN reloader.next ELSE given[p]
        /\ reloader' \in [at : ReloadStages, next : Versions]
        /\ reloader'.next = reloader.next /\ reloader'.at = "record"
        /\ \A p \in Parts : /\ given'[p] >= given[p]
                            /\ given'[p] # given[p] => Files[given'[p]].valid
    BY <2>1, <1>6
  <2>3. /\ given'["pool"] = reloader.next /\ given'["handler"] = given["handler"]
        /\ given'["checker"] = given["checker"] /\ given'["cfg"] = given["cfg"]
        /\ given'["strategy"] = given["strategy"]
    BY <2>2 DEF Parts
  <2>4. ReloadTypeOK'
    BY <2>1, <2>2, <2>3 DEF ReloadTypeOK, Known
  <2>5. Applied = {"handler", "checker"} /\ Applied' = {"handler", "checker", "pool"}
    BY <2>1, <2>2 DEF Applied
  <2>6. Staged'
    BY <2>1, <2>2, <2>3, <2>5, <1>t DEF Staged, Underway
  <2> QED
    BY <2>2, <2>4, <2>6
<1>10. CASE Record
  <2>1. /\ {"cfg"} \in SUBSET Parts /\ "waiting" \in ReloadStages /\ Give({"cfg"})
        /\ Underway /\ Moves(reloader.at, "waiting") /\ reloader.at = "record"
        /\ file' = file /\ asked' = asked /\ hangups' = hangups /\ warned' = warned
        /\ fit' = fit
    BY <1>10 DEF Record, Moves, Parts, ReloadStages, Underway, operator
  <2>2. /\ given' \in [Parts -> Versions]
        /\ \A p \in Parts : given'[p] = IF p \in {"cfg"} THEN reloader.next ELSE given[p]
        /\ reloader' \in [at : ReloadStages, next : Versions]
        /\ reloader'.next = reloader.next /\ reloader'.at = "waiting"
        /\ \A p \in Parts : /\ given'[p] >= given[p]
                            /\ given'[p] # given[p] => Files[given'[p]].valid
    BY <2>1, <1>6
  <2>3. /\ given'["cfg"] = reloader.next /\ given'["handler"] = given["handler"]
        /\ given'["checker"] = given["checker"] /\ given'["pool"] = given["pool"]
        /\ given'["strategy"] = given["strategy"]
    BY <2>2 DEF Parts
  <2>4. ReloadTypeOK'
    BY <2>1, <2>2, <2>3 DEF ReloadTypeOK, Known
  <2>5. Applied = {"handler", "checker", "pool"} /\ Applied' = {} /\ ~Underway'
    BY <2>1, <2>2 DEF Applied, Underway
  <2>6. Staged'
    BY <2>1, <2>2, <2>3, <2>5, <1>t DEF Staged
  <2> QED
    BY <2>2, <2>4, <2>6
<1>11. ASSUME NEW b \in Addrs, Turn(b) PROVE Goal
  <2>1. /\ given' = given /\ file' = file /\ warned' = warned /\ reloader' = reloader
        /\ asked' = asked /\ hangups' = hangups
        /\ fit' = [fit EXCEPT ![b] = ~fit[b]] /\ b \in Known
    BY <1>11 DEF Turn, operator
  <2>2. Known' = Known
    BY <2>1 DEF Known
  <2>3. fit' \in [Addrs -> BOOLEAN] /\ \A a \in Addrs \ Known : fit'[a]
    BY <2>1 DEF ReloadTypeOK
  <2>4. ReloadTypeOK'
    BY <2>1, <2>2, <2>3 DEF ReloadTypeOK
  <2>5. Staged'
    BY <2>1, <1>t, NothingGiven
  <2> QED
    BY <2>1, <2>4, <2>5, <1>k
<1> QED
  BY <1>1, <1>2, <1>3, <1>4, <1>5, <1>7, <1>8, <1>9, <1>10, <1>11
  DEF ReloadNext, Relaying, Reloading

-----------------------------------------------------------------------------
\* The steps of a request for /readyz lose no backend that was healthy all along
\* (Probes.anyHealthy).
LEMMA ProbeStep ==
    ASSUME TypeOK, SteadyLeft, UNCHANGED <<lifecycleVars, reloadVars>>,
           BeginReady \/ AnswerReady \/ PassOver \/ Refuse
    PROVE  TypeOK' /\ SteadyLeft'
<1>1. /\ UNCHANGED <<signalled, over, draining, servers, adminOver>>
      /\ UNCHANGED <<file, asked, hangups, reloader, given, warned, fit>>
  BY DEF lifecycleVars, reloadVars, operator
<1>2. Healthy' = Healthy /\ Healthy \subseteq Addrs /\ LifecycleTypeOK' /\ ReloadTypeOK'
  BY <1>1 DEF Healthy, IsHealthy, Known, TypeOK, LifecycleTypeOK, ReloadTypeOK
<1>3. probe \in [asking : BOOLEAN, left : SUBSET Addrs] /\ steady \subseteq Addrs
  BY DEF TypeOK
<1>4. CASE BeginReady
  <2>1. Files[given["pool"]].pool \subseteq Addrs
    BY VersionsAre DEF TypeOK, ReloadTypeOK, Parts
  <2>2. /\ probe' = [asking |-> TRUE, left |-> Files[given["pool"]].pool]
        /\ steady' = Files[given["pool"]].pool \cap Healthy /\ ~probe.asking
    BY <1>4 DEF BeginReady
  <2> QED
    BY <1>2, <2>1, <2>2 DEF TypeOK, SteadyLeft
<1>5. CASE PassOver
  <2>1. PICK b \in probe.left : /\ ~IsHealthy(b)
                                /\ probe' = [probe EXCEPT !.left = probe.left \ {b}]
                                /\ steady' = steady /\ probe.left # {b}
    BY <1>5 DEF PassOver
  <2>2. b \notin steady
    BY <2>1 DEF SteadyLeft, Healthy
  <2>3. /\ probe' \in [asking : BOOLEAN, left : SUBSET Addrs]
        /\ probe'.left = probe.left \ {b}
    BY <1>3, <2>1
  <2> QED
    BY <1>2, <1>3, <2>1, <2>2, <2>3 DEF TypeOK, SteadyLeft
<1>6. CASE AnswerReady \/ Refuse
  <2>1. probe' = NoProbe /\ steady' = {}
    BY <1>6 DEF AnswerReady, Refuse, Answered
  <2> QED
    BY <1>2, <2>1 DEF TypeOK, SteadyLeft, NoProbe
<1> QED
  BY <1>4, <1>5, <1>6

-----------------------------------------------------------------------------
\* Before the first reload every part holds the first file (New).
LEMMA ApplicationStarts == Init => Inv
<1> SUFFICES ASSUME Init PROVE Inv
  OBVIOUS
<1> USE DEF Init
<1>1. LifecycleTypeOK /\ TrafficFirst
  BY DEF LifecycleInit, LifecycleTypeOK, ServerStages, TrafficFirst
<1>2. /\ given = [p \in Parts |-> 1] /\ file = [version |-> 1, whole |-> TRUE]
      /\ reloader = [at |-> "waiting", next |-> 1] /\ fit = [b \in Addrs |-> TRUE]
  BY DEF ReloadInit
<1>3. ReloadTypeOK
  <2>1. given \in [Parts -> Versions] /\ fit \in [Addrs -> BOOLEAN]
    BY <1>2, VersionsAre
  <2>2. /\ file \in [version : Versions, whole : BOOLEAN]
        /\ reloader \in [at : ReloadStages, next : Versions]
    BY <1>2, VersionsAre DEF ReloadStages
  <2>3. \A b \in Addrs \ Known : fit[b]
    BY <1>2
  <2> QED
    BY <2>1, <2>2, <2>3 DEF ReloadInit, ReloadTypeOK
<1>4. Staged
  <2>1. Applied = {} /\ ~Underway /\ \A p \in Parts : given[p] = 1
    BY <1>2 DEF Applied, Underway
  <2>2. \A p \in {"handler", "checker", "pool", "strategy", "cfg"} : given[p] = 1
    BY <2>1 DEF Parts
  <2> QED
    BY <1>2, <2>1, <2>2, VersionsAre DEF Staged
<1>5. TypeOK /\ SteadyLeft
  BY <1>1, <1>3 DEF TypeOK, SteadyLeft, NoProbe
<1> QED
  BY <1>1, <1>4, <1>5 DEF Inv

\* Every step keeps the invariant.
LEMMA ApplicationStep == Inv /\ [Next]_vars => Inv'
<1> SUFFICES ASSUME Inv, [Next]_vars PROVE Inv'
  OBVIOUS
<1>1. LifecycleTypeOK /\ ReloadTypeOK /\ TypeOK /\ Staged /\ TrafficFirst /\ SteadyLeft
  BY DEF Inv, TypeOK
<1>2. CASE LifecycleNext /\ UNCHANGED <<reloadVars, probe, steady>>
  <2>1. UNCHANGED <<file, asked, hangups, reloader, given, warned, fit, probe, steady>>
    BY <1>2 DEF reloadVars, operator
  <2>2. LifecycleTypeOK' /\ TrafficFirst'
    BY <1>1, <1>2, LifecycleStep
  <2>3. ReloadTypeOK' /\ Staged' /\ SteadyLeft'
    BY <1>1, <2>1
    DEF ReloadTypeOK, Known, Staged, Applied, Underway, SteadyLeft, Healthy, IsHealthy
  <2> QED
    BY <1>1, <2>1, <2>2, <2>3 DEF Inv, TypeOK
<1>3. CASE ReloadNext /\ UNCHANGED <<lifecycleVars, probe>> /\ steady' = steady \cap Healthy'
  <2>1. ReloadTypeOK' /\ Staged'
    BY <1>1, <1>3, ReloadStep
  <2>2. LifecycleTypeOK' /\ TrafficFirst'
    BY <1>1, <1>3 DEF lifecycleVars, LifecycleTypeOK, TrafficFirst
  <2>3. SteadyLeft' /\ probe' = probe /\ steady' \subseteq steady
    BY <1>1, <1>3 DEF SteadyLeft
  <2> QED
    BY <1>1, <2>1, <2>2, <2>3 DEF Inv, TypeOK
<1>4. CASE (BeginReady \/ AnswerReady \/ PassOver \/ Refuse)
           /\ UNCHANGED <<lifecycleVars, reloadVars>>
  <2>1. TypeOK' /\ SteadyLeft'
    BY <1>1, <1>4, ProbeStep
  <2>2. Staged' /\ TrafficFirst'
    BY <1>1, <1>4
    DEF lifecycleVars, reloadVars, operator, Staged, Applied, Underway, TrafficFirst
  <2> QED
    BY <2>1, <2>2 DEF Inv
<1>5. CASE UNCHANGED vars
  <2>1. /\ UNCHANGED <<signalled, over, draining, servers, adminOver>>
        /\ UNCHANGED <<file, asked, hangups, reloader, given, warned, fit, probe, steady>>
    BY <1>5 DEF vars, lifecycleVars, reloadVars, operator
  <2> QED
    BY <1>1, <2>1 DEF Inv, TypeOK, LifecycleTypeOK, ReloadTypeOK, Known, Staged, Applied,
       Underway, TrafficFirst, SteadyLeft, Healthy, IsHealthy
<1> QED
  BY <1>2, <1>3, <1>4, <1>5 DEF Next

\* The invariant holds throughout.
THEOREM ApplicationInvariant == Spec => []Inv
BY ApplicationStarts, ApplicationStep, PTL DEF Spec

\* The variables keep their types; above all, a backend the checker has forgotten
\* counts as healthy (HTTPChecker.Reload, IsHealthy).
THEOREM ApplicationTypes == Spec => []TypeOK
<1>1. Inv => TypeOK
  BY DEF Inv
<1> QED
  BY ApplicationInvariant, <1>1, PTL

\* Between two reloads every part holds the same valid configuration, under the
\* strategy it asks for (App.Reload).
THEOREM PartsAgreeAlways == Spec => []PartsAgree
<1>1. Inv => PartsAgree
  <2> SUFFICES ASSUME Inv, reloader.at \in {"waiting", "reading", "done"}
               PROVE  /\ \A p \in Parts \ {"strategy"} : given[p] = given["cfg"]
                      /\ Files[given["cfg"]].valid
                      /\ Files[given["strategy"]].algorithm = Files[given["cfg"]].algorithm
    BY DEF PartsAgree
  <2>1. Applied = {} /\ Staged
    BY DEF Applied, Inv
  <2> QED
    BY <2>1 DEF Staged, Parts
<1> QED
  BY ApplicationInvariant, <1>1, PTL

\* No reload gives a part an older file than it has, or an invalid one
\* (App.Reload).
THEOREM NeverGoesBack == Spec => NeverBack
<1>1. Inv /\ [Next]_vars =>
          \A p \in Parts :
             given'[p] >= given[p] /\ (given'[p] # given[p] => Files[given'[p]].valid)
  <2> SUFFICES ASSUME Inv, [Next]_vars
               PROVE  \A p \in Parts :
                         given'[p] >= given[p] /\ (given'[p] # given[p] => Files[given'[p]].valid)
    OBVIOUS
  <2>1. ReloadTypeOK /\ Staged
    BY DEF Inv, TypeOK
  <2>2. CASE ReloadNext
    BY <2>1, <2>2, ReloadStep
  <2>3. CASE given' = given
    <3>1. \A p \in Parts : given[p] \in Int
      BY <2>1, VersionsAre DEF ReloadTypeOK
    <3> QED
      BY <2>3, <3>1
  <2> QED
    BY <2>2, <2>3 DEF Next, vars, reloadVars
<1> QED
  BY ApplicationInvariant, <1>1, PTL DEF Spec, NeverBack

\* The admin server begins to shut down only when the traffic server is down,
\* whichever of them fails and whenever the signals come (App.Run).
THEOREM AdminIsLast == Spec => AdminOutlivesTraffic
<1>1. Inv /\ Inv' /\ [Next]_vars => (servers'.admin = "draining" => servers.traffic = "down")
  <2> SUFFICES ASSUME Inv, [Next]_vars, servers'.admin = "draining"
               PROVE  servers.traffic = "down"
    OBVIOUS
  <2>1. LifecycleTypeOK /\ TrafficFirst
    BY DEF Inv, TypeOK
  <2>2. CASE servers' = servers
    BY <2>1, <2>2 DEF TrafficFirst
  <2>3. ASSUME NEW s \in {"traffic", "admin"}, BeginShutdown(s)
        PROVE  servers.traffic = "down"
    BY <2>1, <2>3 DEF BeginShutdown, LifecycleTypeOK, TrafficFirst
  <2>4. ASSUME NEW s \in {"traffic", "admin"}, EndShutdown(s) \/ Break(s)
        PROVE  servers.traffic = "down"
    <3>1. servers.admin = "draining"
      BY <2>1, <2>4 DEF EndShutdown, Break, Down, LifecycleTypeOK
    <3> QED
      BY <2>1, <3>1 DEF TrafficFirst
  <2>5. CASE LifecycleNext
    BY <2>2, <2>3, <2>4, <2>5 DEF LifecycleNext, Terminate, Drain
  <2>6. CASE UNCHANGED lifecycleVars
    BY <2>2, <2>6 DEF lifecycleVars
  <2> QED
    BY <2>5, <2>6 DEF Next, vars
<1> QED
  BY ApplicationInvariant, <1>1, PTL DEF Spec, AdminOutlivesTraffic

\* A request for /readyz that is refused missed no backend that was healthy all
\* along, whatever was reloaded or checked meanwhile (Probes.anyHealthy).
THEOREM SteadyIsSeen == Spec => SteadyIsReady
<1>1. Inv => (Refuse => steady = {})
  BY DEF Inv, SteadyLeft, Refuse, Healthy
<1> QED
  BY ApplicationInvariant, <1>1, PTL DEF Spec, SteadyIsReady

=============================================================================
