---------------------------- MODULE HealthProofs ----------------------------
(***************************************************************************)
(* Proofs about the health checker, for any backends, any sequence of      *)
(* configurations and any thresholds.                                      *)
(***************************************************************************)
EXTENDS HealthHistory, TLAPS

Runs == [succeeded : BOOLEAN, length : 0..CounterCap, bar : 1..CounterCap]

\* What ties a backend's record s to the run w of outcomes behind it: the counter
\* of the run's kind is its length and the other one is reset.
Tied(s, w) ==
    /\ s \in HealthStates
    /\ w \in Runs
    /\ w.succeeded => w.length = s.successes /\ s.failures = 0
    /\ ~w.succeeded => w.length = s.failures /\ s.successes = 0
    /\ w.length >= w.bar => s.healthy = w.succeeded

Records ==
    /\ health \in [Targets -> HealthStates]
    /\ series \in [Targets -> Runs]
    /\ \A b \in Targets : Tied(health[b], series[b])
    /\ \A b \in Targets \ Known : health[b] = NewState /\ series[b] = NoRun

\* Loops exist up to the configuration in force, and while its context lives the
\* backends with a loop of it are those known.
Watched ==
    /\ \A g \in Generations, b \in Targets : g > generation => loops[g][b] = "none"
    /\ generation # 0 /\ ~stopped =>
          \A b \in Targets : loops[generation][b] # "none" <=> b \in Known

Others ==
    /\ generation \in 0..Len(Configs)
    /\ stopped \in BOOLEAN
    /\ loops \in [Generations -> [Targets -> LoopStages]]
    /\ up \in [Targets -> BOOLEAN]
    /\ reports \subseteq Targets \X BOOLEAN

IInv == Others /\ Watched /\ Records

USE CapAssumption, CheckerAssumption

-----------------------------------------------------------------------------
(* One backend's record.                                                   *)

\* An outcome keeps the record tied to the run, and flips the health only when the
\* run has reached the threshold.
LEMMA OutcomeTied ==
    ASSUME NEW s, NEW w, NEW succeeded \in BOOLEAN, NEW cfg, Tied(s, w),
           cfg.healthy \in 1..CounterCap, cfg.unhealthy \in 1..CounterCap
    PROVE  LET t == AfterOutcome(s, succeeded, cfg)
               v == Extended(w, succeeded, cfg)
           IN  /\ Tied(t, v)
               /\ t.healthy # s.healthy => v.length >= v.bar /\ v.succeeded = t.healthy
<1> DEFINE t == AfterOutcome(s, succeeded, cfg)
           v == Extended(w, succeeded, cfg)
<1> SUFFICES Tied(t, v) /\ (t.healthy # s.healthy => v.length >= v.bar /\ v.succeeded = t.healthy)
  OBVIOUS
<1>1. /\ s.healthy \in BOOLEAN /\ s.successes \in 0..CounterCap /\ s.failures \in 0..CounterCap
      /\ w.succeeded \in BOOLEAN /\ w.length \in 0..CounterCap
  BY DEF Tied, HealthStates, Runs
<1>2. \A n \in 0..CounterCap : Longer(n) \in 1..CounterCap
  BY DEF Longer
<1>3. Longer(0) = 1
  BY DEF Longer
<1>4. CASE succeeded
  <2>1. t = [healthy |-> s.healthy \/ Longer(s.successes) >= cfg.healthy,
             successes |-> Longer(s.successes), failures |-> 0]
    BY <1>4 DEF AfterOutcome
  <2>2. v = [succeeded |-> TRUE, length |-> Longer(s.successes), bar |-> cfg.healthy]
    <3>1. CASE w.succeeded
      BY <1>4, <3>1 DEF Extended, Tied
    <3>2. CASE ~w.succeeded
      BY <1>4, <3>2, <1>1, <1>3 DEF Extended, Tied
    <3> QED BY <3>1, <3>2
  <2>3. Longer(s.successes) \in 1..CounterCap
    BY <1>1, <1>2
  <2> DEFINE n == Longer(s.successes)
             h == s.healthy \/ n >= cfg.healthy
  <2>4. h \in BOOLEAN
    OBVIOUS
  <2>5. t = [healthy |-> h, successes |-> n, failures |-> 0]
        /\ v = [succeeded |-> TRUE, length |-> n, bar |-> cfg.healthy]
    BY <2>1, <2>2
  <2> DEFINE old == s.healthy
             reached == n >= cfg.healthy
  <2>6. (reached => h = TRUE) /\ (h # old => reached /\ h = TRUE)
    <3>1. old \in BOOLEAN /\ reached \in BOOLEAN /\ h = (old \/ reached)
      BY <1>1
    <3> HIDE DEF old, reached, h
    <3> QED BY <3>1
  <2> HIDE DEF n, h, t, v, reached, old
  <2>7. t \in HealthStates /\ v \in Runs
    BY <2>3, <2>4, <2>5 DEF HealthStates, Runs, n
  <2>8. /\ t.healthy = h /\ t.successes = n /\ t.failures = 0
        /\ v.succeeded = TRUE /\ v.length = n /\ v.bar = cfg.healthy
    BY <2>5
  <2>9. (v.length >= v.bar) = reached
    BY <2>8 DEF reached
  <2>10. Tied(t, v)
    BY <2>6, <2>7, <2>8, <2>9 DEF Tied
  <2> QED
    BY <2>6, <2>8, <2>9, <2>10, Zenon DEF old
<1>5. CASE ~succeeded
  <2>1. t = [healthy |-> s.healthy /\ Longer(s.failures) < cfg.unhealthy,
             successes |-> 0, failures |-> Longer(s.failures)]
    BY <1>5 DEF AfterOutcome
  <2>2. v = [succeeded |-> FALSE, length |-> Longer(s.failures), bar |-> cfg.unhealthy]
    <3>1. CASE ~w.succeeded
      BY <1>5, <3>1, <1>1 DEF Extended, Tied
    <3>2. CASE w.succeeded
      BY <1>5, <3>2, <1>1, <1>3 DEF Extended, Tied
    <3> QED BY <3>1, <3>2
  <2>3. Longer(s.failures) \in 1..CounterCap
    BY <1>1, <1>2
  <2> DEFINE n == Longer(s.failures)
             h == s.healthy /\ n < cfg.unhealthy
  <2>4. h \in BOOLEAN
    OBVIOUS
  <2>5. t = [healthy |-> h, successes |-> 0, failures |-> n]
        /\ v = [succeeded |-> FALSE, length |-> n, bar |-> cfg.unhealthy]
    BY <2>1, <2>2
  <2> DEFINE old == s.healthy
             reached == n >= cfg.unhealthy
             short == n < cfg.unhealthy
  <2>6. (reached => h = FALSE) /\ (h # old => reached /\ h = FALSE)
    <3>1. old \in BOOLEAN /\ reached \in BOOLEAN /\ h = (old /\ short)
      BY <1>1
    <3>2. short = ~reached
      BY <2>3
    <3> HIDE DEF old, reached, short, h
    <3> QED BY <3>1, <3>2
  <2> HIDE DEF n, h, t, v, reached, old
  <2>7. t \in HealthStates /\ v \in Runs
    BY <2>3, <2>4, <2>5 DEF HealthStates, Runs, n
  <2>8. /\ t.healthy = h /\ t.successes = 0 /\ t.failures = n
        /\ v.succeeded = FALSE /\ v.length = n /\ v.bar = cfg.unhealthy
    BY <2>5
  <2>9. (v.length >= v.bar) = reached
    BY <2>8 DEF reached
  <2>10. Tied(t, v)
    BY <2>6, <2>7, <2>8, <2>9 DEF Tied
  <2> QED
    BY <2>6, <2>8, <2>9, <2>10, Zenon DEF old
<1> QED
  BY <1>4, <1>5

\* A backend nothing was recorded of.
LEMMA NewTied == Tied(NewState, NoRun) /\ NewState \in HealthStates /\ NoRun \in Runs
<1>1. NewState \in HealthStates /\ NoRun \in Runs
  BY DEF NewState, NoRun, HealthStates, Runs
<1> QED
  BY <1>1 DEF Tied, NewState, NoRun

\* The thresholds of a configuration, and its backends.
LEMMA ConfigShape ==
    ASSUME NEW g \in Generations
    PROVE  /\ Configs[g].healthy \in 1..CounterCap
           /\ Configs[g].unhealthy \in 1..CounterCap
           /\ Configs[g].backends \subseteq Targets
<1> DEFINE Configuration == [backends : SUBSET Targets,
                             unhealthy : 1..CounterCap, healthy : 1..CounterCap]
<1>1. Configs \in Seq(Configuration) /\ g \in 1..Len(Configs)
  BY DEF Generations
<1> HIDE DEF Configuration
<1>2. Configs[g] \in Configuration
  BY <1>1
<1> QED
  BY <1>2 DEF Configuration

-----------------------------------------------------------------------------
(* What a step records.                                                    *)

NothingRecorded == \A c \in Targets, t \in BOOLEAN : ~Outcome(c, t)

OneRecorded(b, succeeded) ==
    \A c \in Targets, t \in BOOLEAN :
        Outcome(c, t) <=> c = b /\ t = succeeded /\ b \in Known

\* The flips of a step, as OnlyRunsDecide has them.
FlipsByRuns ==
    \A b \in Known \cap Known' :
        health'[b].healthy # health[b].healthy =>
            /\ series'[b].length >= series'[b].bar
            /\ series'[b].succeeded = health'[b].healthy

RunMoves == series' = [b \in Targets |-> RunAfter(b)]

\* Known backends are addresses of a configuration.
LEMMA KnownShape ==
    ASSUME Others
    PROVE  /\ Known \subseteq Targets
           /\ \A b \in Known : generation \in Generations
<1>1. generation # 0 => generation \in Generations
  BY DEF Others, Generations
<1> QED
  BY <1>1, ConfigShape DEF Known

\* A step that records nothing and reloads nothing keeps every record.
LEMMA QuietStep ==
    ASSUME IInv, NothingRecorded, RunMoves, UNCHANGED <<health, generation>>
    PROVE  Records' /\ FlipsByRuns
<1>1. Known' = Known
  BY DEF Known
<1>2. \A b \in Targets : RunAfter(b) = series[b]
  BY <1>1 DEF NothingRecorded, RunAfter, IInv, Records
<1>3. series' = series
  BY <1>2 DEF RunMoves, IInv, Records
<1> QED
  BY <1>1, <1>3 DEF Records, FlipsByRuns, IInv

\* A step that records one outcome.
LEMMA OutcomeStep ==
    ASSUME IInv, NEW b \in Targets, NEW succeeded \in BOOLEAN,
           OneRecorded(b, succeeded), RunMoves, Recorded(b, succeeded),
           UNCHANGED generation
    PROVE  Records' /\ FlipsByRuns
<1> USE DEF IInv
<1>1. Known' = Known
  BY DEF Known
<1>2. CASE b \notin Known
  <2>1. NothingRecorded /\ health' = health
    BY <1>2 DEF OneRecorded, NothingRecorded, Recorded
  <2> QED
    BY <2>1, QuietStep
<1>3. CASE b \in Known
  <2> DEFINE cfg == Configs[generation]
             s == health[b]
             w == series[b]
             t == AfterOutcome(s, succeeded, cfg)
             v == Extended(w, succeeded, cfg)
  <2>1. cfg.healthy \in 1..CounterCap /\ cfg.unhealthy \in 1..CounterCap
    BY <1>3, KnownShape, ConfigShape
  <2>2. Tied(s, w)
    BY DEF Records
  <2>3. Tied(t, v) /\ (t.healthy # s.healthy => v.length >= v.bar /\ v.succeeded = t.healthy)
    <3> HIDE DEF cfg, s, w
    <3> QED BY <2>1, <2>2, OutcomeTied
  <2>4. health' = [health EXCEPT ![b] = t]
    BY <1>3 DEF Recorded
  <2>5. RunAfter(b) = v
    <3>1. Outcome(b, FALSE) <=> succeeded = FALSE
      BY <1>3 DEF OneRecorded
    <3>2. Outcome(b, TRUE) <=> succeeded = TRUE
      BY <1>3 DEF OneRecorded
    <3>3. CASE succeeded = TRUE
      BY <3>2, <3>3 DEF RunAfter
    <3>4. CASE succeeded = FALSE
      BY <3>1, <3>2, <3>4 DEF RunAfter
    <3> QED BY <3>3, <3>4
  <2>6. \A c \in Targets \ {b} : RunAfter(c) = series[c]
    BY <1>1 DEF OneRecorded, RunAfter, Records
  <2>7. series' = [series EXCEPT ![b] = v]
    BY <2>5, <2>6 DEF RunMoves, Records
  <2> HIDE DEF t, v
  <2>8. t \in HealthStates /\ v \in Runs
    BY <2>3 DEF Tied
  <2>9. /\ health' \in [Targets -> HealthStates] /\ series' \in [Targets -> Runs]
        /\ health'[b] = t /\ series'[b] = v
        /\ \A c \in Targets \ {b} : health'[c] = health[c] /\ series'[c] = series[c]
    BY <2>4, <2>7, <2>8 DEF Records
  <2>10. Records'
    BY <1>1, <1>3, <2>3, <2>9 DEF Records
  <2>11. FlipsByRuns
    BY <1>1, <2>3, <2>9, KnownShape DEF FlipsByRuns
  <2> QED
    BY <2>10, <2>11
<1> QED
  BY <1>2, <1>3

\* A reload starts the new backends anew and keeps the rest.
LEMMA ReloadStep ==
    ASSUME IInv, Reload, RunMoves
    PROVE  Records' /\ FlipsByRuns
<1> USE DEF IInv
<1> DEFINE next == Configs[generation + 1].backends
<1>1. generation + 1 \in Generations /\ Known' = next /\ next \subseteq Targets
  <2>1. generation + 1 \in Generations /\ generation + 1 # 0
    BY DEF Reload, Others, Generations
  <2>2. Known' = next
    BY <2>1 DEF Reload, Known
  <2> QED
    BY <2>1, <2>2, ConfigShape
<1>2. NothingRecorded
  <2>1. reports \ reports' = {}
    BY DEF Reload
  <2>2. \A g \in Generations, c \in Targets :
            loops'[g][c] = IF g = generation + 1
                           THEN (IF c \in next THEN "due" ELSE "none")
                           ELSE loops[g][c]
    BY <1>1 DEF Reload, Others
  <2> QED
    BY <2>1, <2>2 DEF NothingRecorded, Outcome
<1>3. \A c \in Targets :
          /\ health'[c] = IF c \in Known \cap Known' THEN health[c] ELSE NewState
          /\ series'[c] = IF c \in Known \cap Known' THEN series[c] ELSE NoRun
  BY <1>1, <1>2 DEF Reload, RunMoves, NothingRecorded, RunAfter
<1>4. health' \in [Targets -> HealthStates] /\ series' \in [Targets -> Runs]
  <2>1. health' = [c \in Targets |-> health'[c]] /\ series' = [c \in Targets |-> series'[c]]
    BY DEF Reload, RunMoves
  <2> QED
    BY <2>1, <1>3, NewTied DEF Records
<1>5. Records'
  BY <1>3, <1>4, NewTied DEF Records
<1>6. FlipsByRuns
  BY <1>1, <1>3 DEF FlipsByRuns
<1> QED
  BY <1>5, <1>6

-----------------------------------------------------------------------------
(* What each action records.                                               *)

\* What a move of a loop changes.
LEMMA MoveShape ==
    ASSUME IInv, NEW g \in Generations, NEW b \in Targets, NEW from, NEW to \in LoopStages,
           Moves(g, b, from, to)
    PROVE  /\ loops' \in [Generations -> [Targets -> LoopStages]]
           /\ \A h \in Generations, c \in Targets :
                 loops'[h][c] = IF h = g /\ c = b THEN to ELSE loops[h][c]
BY DEF IInv, Others, Moves

\* It is recorded as an outcome only when it ends in the select.
LEMMA MoveOutcome ==
    ASSUME IInv, NEW g \in Generations, NEW b \in Targets, NEW from, NEW to \in LoopStages,
           Moves(g, b, from, to), UNCHANGED reports,
           NEW c \in Targets, NEW t \in BOOLEAN
    PROVE  Outcome(c, t) <=> /\ c \in Known /\ c = b /\ to = "waiting"
                             /\ from = IF t THEN "good" ELSE "bad"
<1>1. Outcome(c, t) <=> /\ c \in Known
                        /\ \E h \in Generations :
                              /\ loops[h][c] = IF t THEN "good" ELSE "bad"
                              /\ loops'[h][c] = "waiting"
  BY DEF Outcome
<1>2. loops[g][b] = from
  BY DEF Moves
<1> QED
  BY <1>1, <1>2, MoveShape

LEMMA MoveRecordsNothing ==
    ASSUME IInv, NEW g \in Generations, NEW b \in Targets, NEW from, NEW to \in LoopStages,
           Moves(g, b, from, to), UNCHANGED reports, to # "waiting"
    PROVE  NothingRecorded
BY MoveOutcome DEF NothingRecorded

LEMMA MoveRecordsOne ==
    ASSUME IInv, NEW g \in Generations, NEW b \in Targets, NEW succeeded \in BOOLEAN,
           Moves(g, b, IF succeeded THEN "good" ELSE "bad", "waiting"), UNCHANGED reports
    PROVE  OneRecorded(b, succeeded)
<1> DEFINE from == IF succeeded THEN "good" ELSE "bad"
<1>1. \A t \in BOOLEAN : from = (IF t THEN "good" ELSE "bad") <=> t = succeeded
  OBVIOUS
<1>2. Moves(g, b, from, "waiting") /\ "waiting" \in LoopStages
  BY DEF LoopStages
<1> HIDE DEF from
<1>3. \A c \in Targets, t \in BOOLEAN :
          Outcome(c, t) <=> c \in Known /\ c = b /\ from = IF t THEN "good" ELSE "bad"
  BY <1>2, MoveOutcome
<1> QED
  BY <1>1, <1>3 DEF OneRecorded

\* A loop keeps the records.
LEMMA ProbingRecords ==
    ASSUME IInv, RunMoves, NEW g \in Generations, NEW b \in Targets, Probing(g, b)
    PROVE  Records' /\ FlipsByRuns
<1> USE DEF LoopStages
<1>1. CASE RecordProbe(g, b)
  <2>1. CASE Moves(g, b, "good", "waiting") /\ Recorded(b, TRUE)
    <3>1. OneRecorded(b, TRUE)
      BY <1>1, <2>1, MoveRecordsOne DEF RecordProbe
    <3> QED
      BY <1>1, <2>1, <3>1, OutcomeStep DEF RecordProbe
  <2>2. CASE Moves(g, b, "bad", "waiting") /\ Recorded(b, FALSE)
    <3>1. OneRecorded(b, FALSE)
      BY <1>1, <2>2, MoveRecordsOne DEF RecordProbe
    <3> QED
      BY <1>1, <2>2, <3>1, OutcomeStep DEF RecordProbe
  <2> QED
    BY <1>1, <2>1, <2>2 DEF RecordProbe
<1>2. ASSUME NEW from \in LoopStages, NEW to \in LoopStages \ {"waiting"},
             Moves(g, b, from, to), UNCHANGED <<generation, health, reports>>
      PROVE  Records' /\ FlipsByRuns
  <2>1. from \in LoopStages /\ to \in LoopStages /\ to # "waiting" /\ UNCHANGED reports /\ Moves(g, b, from, to)
    BY <1>2
  <2> HIDE DEF LoopStages
  <2>2. NothingRecorded
    BY <2>1, MoveRecordsNothing
  <2> QED
    BY <1>2, <2>2, QuietStep
<1>3. CASE BeginProbe(g, b)
  <2> DEFINE to == IF Live(g) THEN "probing" ELSE "bad"
  <2>1. to \in LoopStages \ {"waiting"}
    OBVIOUS
  <2>2. Moves(g, b, "due", to) /\ UNCHANGED <<generation, health, reports>>
    BY <1>3 DEF BeginProbe
  <2> HIDE DEF to
  <2> QED
    BY <2>1, <2>2, <1>2
<1>4. CASE ProbeAnswered(g, b)
  BY <1>4, <1>2 DEF ProbeAnswered
<1>5. CASE ProbeFailed(g, b)
  BY <1>5, <1>2 DEF ProbeFailed
<1>6. CASE ProbeCancelled(g, b)
  BY <1>6, <1>2 DEF ProbeCancelled
<1>7. CASE TickerFires(g, b)
  BY <1>7, <1>2 DEF TickerFires
<1>8. CASE LoopReturns(g, b)
  BY <1>8, <1>2 DEF LoopReturns
<1> QED
  BY <1>1, <1>3, <1>4, <1>5, <1>6, <1>7, <1>8 DEF Probing

\* So does everything else: the records follow the runs in every step.
LEMMA RecordsStep ==
    ASSUME IInv, [NextR]_varsR
    PROVE  Records' /\ FlipsByRuns
<1>1. CASE NextR
  <2> USE <1>1 DEF NextR
  <2>0. RunMoves
    BY DEF RunMoves
  <2>1. CASE Reload
    BY <2>0, <2>1, ReloadStep
  <2>2. CASE \E g \in Generations, b \in Targets : Probing(g, b)
    BY <2>0, <2>2, ProbingRecords
  <2>3. ASSUME UNCHANGED <<generation, health, loops>>, reports \ reports' = {}
        PROVE  Records' /\ FlipsByRuns
    <3>1. NothingRecorded
      BY <2>3 DEF NothingRecorded, Outcome
    <3> QED
      BY <2>0, <2>3, <3>1, QuietStep
  <2>4. CASE StopChecker \/ \E b \in Targets : RequestEnds(b) \/ Turn(b)
    BY <2>3, <2>4 DEF StopChecker, RequestEnds, Turn
  <2>5. ASSUME NEW b \in Targets, NEW succeeded \in BOOLEAN, Report(b, succeeded)
        PROVE  Records' /\ FlipsByRuns
    <3>1. reports \ reports' = {<<b, succeeded>>}
      BY <2>5 DEF Report
    <3>2. \A c \in Targets, t \in BOOLEAN :
              <<c, t>> \in reports \ reports' <=> c = b /\ t = succeeded
      BY <3>1
    <3>3. OneRecorded(b, succeeded)
      BY <2>5, <3>2 DEF OneRecorded, Outcome, Report
    <3> QED
      BY <2>0, <2>5, <3>3, OutcomeStep DEF Report
  <2> QED
    BY <2>1, <2>2, <2>4, <2>5 DEF CheckerNext
<1>2. CASE UNCHANGED varsR
  BY <1>2 DEF varsR, checkerVars, IInv, Records, FlipsByRuns, Known
<1> QED
  BY <1>1, <1>2

-----------------------------------------------------------------------------
(* The loops.                                                              *)

\* The loops of the configuration in force stay one for each known backend.
LEMMA WatchedStep ==
    ASSUME IInv, [CheckerNext]_checkerVars
    PROVE  Others' /\ Watched'
<1> USE DEF IInv, Others
<1>1. CASE Reload
  <2>1. generation' = generation + 1 /\ generation' \in Generations
    BY <1>1 DEF Reload, Generations
  <2>2. \A g \in Generations, c \in Targets :
            loops'[g][c] = IF g = generation'
                           THEN (IF c \in Configs[generation'].backends THEN "due" ELSE "none")
                           ELSE loops[g][c]
    BY <1>1, <2>1 DEF Reload
  <2>3. loops' \in [Generations -> [Targets -> LoopStages]]
    BY <1>1 DEF Reload, LoopStages
  <2>4. Known' = Configs[generation'].backends
    BY <2>1 DEF Known, Generations
  <2>5. Others'
    BY <1>1, <2>1, <2>3 DEF Reload, Generations
  <2>6. Watched'
    BY <2>1, <2>2, <2>4 DEF Watched, Generations
  <2> QED
    BY <2>5, <2>6
<1>2. ASSUME NEW g \in Generations, NEW b \in Targets, Probing(g, b)
      PROVE  Others' /\ Watched'
  <2>1. UNCHANGED <<generation, stopped, up, reports>>
    BY <1>2 DEF Probing, BeginProbe, ProbeAnswered, ProbeFailed, ProbeCancelled,
                RecordProbe, TickerFires, LoopReturns
  <2>2. PICK from \in LoopStages \ {"none"}, to \in LoopStages :
            Moves(g, b, from, to) /\ (to = "none" => ~Live(g))
    <3>1. CASE BeginProbe(g, b)
      <4> DEFINE to == IF Live(g) THEN "probing" ELSE "bad"
      <4>1. to \in LoopStages /\ to # "none"
        BY DEF LoopStages
      <4>2. Moves(g, b, "due", to)
        BY <3>1 DEF BeginProbe
      <4> HIDE DEF to
      <4> QED
        BY <4>1, <4>2 DEF LoopStages
    <3>2. CASE \/ ProbeAnswered(g, b) \/ ProbeFailed(g, b) \/ ProbeCancelled(g, b)
               \/ RecordProbe(g, b) \/ TickerFires(g, b)
      BY <3>2 DEF ProbeAnswered, ProbeFailed, ProbeCancelled, RecordProbe, TickerFires, LoopStages
    <3>3. CASE LoopReturns(g, b)
      BY <3>3 DEF LoopReturns, LoopStages
    <3> QED
      BY <1>2, <3>1, <3>2, <3>3 DEF Probing
  <2>3. /\ loops' \in [Generations -> [Targets -> LoopStages]]
        /\ \A h \in Generations, c \in Targets :
              loops'[h][c] = IF h = g /\ c = b THEN to ELSE loops[h][c]
    <3>1. g \in Generations /\ b \in Targets /\ to \in LoopStages /\ Moves(g, b, from, to)
      BY <1>2, <2>2
    <3> QED
      BY <3>1, MoveShape
  <2>4. loops[g][b] = from
    BY <2>2 DEF Moves
  <2>5. ~(g > generation)
    BY <2>2, <2>4 DEF Watched
  <2>6. Known' = Known
    BY <2>1 DEF Known
  <2>7. generation # 0 => generation \in Generations
    BY DEF Generations
  <2>8. Watched'
    BY <2>1, <2>2, <2>3, <2>4, <2>5, <2>6, <2>7 DEF Watched, Live
  <2> QED
    BY <2>1, <2>3, <2>8
<1>3. ASSUME UNCHANGED <<generation, loops>>, stopped => stopped', stopped' \in BOOLEAN,
             up' \in [Targets -> BOOLEAN], reports' \subseteq Targets \X BOOLEAN
      PROVE  Others' /\ Watched'
  BY <1>3 DEF Watched, Known
<1>4. CASE StopChecker
  BY <1>4, <1>3 DEF StopChecker
<1>5. ASSUME NEW b \in Targets, RequestEnds(b) \/ Turn(b) \/ \E s \in BOOLEAN : Report(b, s)
      PROVE  Others' /\ Watched'
  <2>1. up[b] \in BOOLEAN
    OBVIOUS
  <2>2. CASE RequestEnds(b)
    BY <2>1, <2>2, <1>3 DEF RequestEnds
  <2>3. CASE Turn(b)
    BY <2>1, <2>3, <1>3 DEF Turn
  <2>4. CASE \E s \in BOOLEAN : Report(b, s)
    BY <2>4, <1>3 DEF Report
  <2> QED
    BY <1>5, <2>2, <2>3, <2>4
<1>6. CASE UNCHANGED checkerVars
  BY <1>6, <1>3 DEF checkerVars
<1> QED
  BY <1>1, <1>2, <1>4, <1>5, <1>6 DEF CheckerNext

-----------------------------------------------------------------------------
\* The checker starts with nothing known and no loop.
LEMMA InitIInv == InitR => IInv
<1> SUFFICES ASSUME InitR PROVE IInv
  OBVIOUS
<1>1. Len(Configs) \in Nat
  OBVIOUS
<1>2. Others
  <2> DEFINE idle == [b \in Targets |-> "none"]
  <2>1. idle \in [Targets -> LoopStages]
    BY DEF LoopStages
  <2>2. loops = [g \in Generations |-> idle]
    BY DEF InitR, CheckerInit
  <2>3. loops \in [Generations -> [Targets -> LoopStages]]
    <3> HIDE DEF idle
    <3> QED BY <2>1, <2>2
  <2> QED
    <3>1. generation = 0 /\ stopped = FALSE /\ reports = {}
      BY DEF InitR, CheckerInit
    <3>2. up \in [Targets -> BOOLEAN]
      BY DEF InitR, CheckerInit
    <3>3. generation \in 0..Len(Configs)
      BY <1>1, <3>1
    <3>4. stopped \in BOOLEAN /\ reports \subseteq Targets \X BOOLEAN
      BY <3>1
    <3> QED
      BY <2>3, <3>2, <3>3, <3>4 DEF Others
<1>3. Watched
  BY DEF InitR, CheckerInit, Watched
<1>4. Records
  BY NewTied DEF InitR, CheckerInit, Records
<1> QED
  BY <1>2, <1>3, <1>4 DEF IInv

\* Every step keeps the invariant.
LEMMA InvariantStep == IInv /\ [NextR]_varsR => IInv'
<1>1. [NextR]_varsR => [CheckerNext]_checkerVars
  BY DEF NextR, varsR
<1> QED
  BY <1>1, RecordsStep, WatchedStep DEF IInv

\* The inductive invariant holds in every reachable state of the checker.
THEOREM Invariance == SpecR => []IInv
<1> QED
  BY InitIInv, InvariantStep, PTL DEF SpecR

\* The checker's variables stay of their types (HTTPChecker).
THEOREM TypeCorrect == SpecR => []TypeOKR
<1>1. IInv => TypeOKR
  BY DEF IInv, Others, Records, TypeOKR, CheckerTypeOK, Runs
<1> QED
  BY <1>1, Invariance, PTL

\* Whatever the reloads, every known backend has one live loop and no other
\* backend has any (HTTPChecker.Reload).
THEOREM WatchedOnce == SpecR => []OneLoopEach
<1>1. IInv => OneLoopEach
  <2> SUFFICES ASSUME IInv, NEW b \in Targets
               PROVE  {g \in Generations : Live(g) /\ loops[g][b] # "none"} =
                          IF b \in Known /\ ~stopped THEN {generation} ELSE {}
    BY DEF OneLoopEach
  <2>1. generation # 0 => generation \in Generations
    BY DEF IInv, Others, Generations
  <2>2. generation = 0 => generation \notin Generations /\ Known = {}
    BY DEF Generations, Known
  <2> QED
    BY <2>1, <2>2 DEF IInv, Watched, Live
<1> QED
  BY <1>1, Invariance, PTL

\* A run that reached the threshold has decided the backend's health: no outcome
\* is lost between loops, reports and reloads (record).
THEOREM DecidedByRuns == SpecR => []RunsDecide
<1>1. IInv => RunsDecide
  BY KnownShape DEF IInv, Records, Tied, RunsDecide
<1> QED
  BY <1>1, Invariance, PTL

\* Nothing but such a run takes a backend out or back (record, Reload).
THEOREM DecidedByRunsOnly == SpecR => OnlyRunsDecide
<1>1. IInv /\ [NextR]_varsR => FlipsByRuns
  BY RecordsStep
<1>2. FlipsByRuns =>
          \A b \in Known \cap Known' :
              health'[b].healthy # health[b].healthy =>
                  /\ series'[b].length >= series'[b].bar
                  /\ series'[b].succeeded = health'[b].healthy
  BY DEF FlipsByRuns
<1>3. SpecR => [][FlipsByRuns]_varsR
  BY <1>1, Invariance, PTL DEF SpecR
<1> QED
  BY <1>2, <1>3, PTL DEF OnlyRunsDecide

=============================================================================
