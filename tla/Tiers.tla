-------------------------------- MODULE Tiers --------------------------------
(* The complexity tiers of go-core, L0 to L7: what a scan of a project says   *)
(* its tier should be (auto_detect.go, tier_check.go), the monitor that keeps *)
(* a history of such scans and predicts the next tier (tier_drift.go), and    *)
(* the manager that enables the modules between two tiers one after the other *)
(* (tier_transition.go), with the adapters for them (tier_bridge.go). A       *)
(* project's files change between any two scans.                              *)
EXTENDS Integers, Sequences, FiniteSets, SequencesExt

CONSTANTS
    Projects,   \* What a scan may find: files, languages, modules and teams.
    Routes,     \* The pairs of tiers a manager may be made for.
    Users,      \* Callers of a manager.
    MaxHistory, \* maxHistory (100).
    Steady, Firm, \* Points of the history that make a prediction more confident (5, 10).
    MaxChecks, MaxWeeks, MaxEdits, MaxCalls  \* Bounds: checks, weeks, changes of the project,
                                             \* calls of the manager.

VARIABLES
    project, edits,       \* What is in the directory, and how often it has changed.
    shrunk,               \* It has shrunk since the check under way began.
    week,                 \* The time.
    currentTier, history, \* TierDriftMonitor.
    check,                \* Check: the scans it has made.
    checks,               \* The checks made.
    prediction,           \* Its last prediction.
    from, to, current, flags, done, \* TierTransitionManager.
    loop,                 \* Each user: idle, in AdvanceAll, or its error.
    calls                 \* Calls of Advance, Rollback and AdvanceAll.

monitorVars == <<project, edits, shrunk, week, currentTier, history, check, checks, prediction>>
managerVars == <<from, to, current, flags, done, loop, calls>>
vars == <<monitorVars, managerVars>>

Tier == 0 .. 7

\* min of a tier and L7.
Capped(t) == IF t > 7 THEN 7 ELSE t

-----------------------------------------------------------------------------
\* Detection.

\* AutoDetect: below 10 files L0, below 100 L1 and so on.
DetectTier(files) == Capped(Cardinality({k \in 1 .. 7 : files >= 10 ^ k}))

\* AutoDetectWithBoost scans a second time for the languages, modules and teams.
Boost(p) ==
    Cardinality({signal \in {<<1, p.languages >= 3>>, <<2, p.modules >= 5>>, <<3, p.teams >= 10>>} : signal[2]})

\* TierCheck and the suggestion of Check, by the drift.
TierStatus(drift) == IF drift <= 0 THEN "ok" ELSE IF drift = 1 THEN "drift_detected" ELSE "oversized"

-----------------------------------------------------------------------------
\* The monitor. Check holds the lock over its three scans, which is no matter to those
\* who edit files.

NoScan == [at |-> "idle", files |-> 0, tier |-> 0]

Edit ==
    /\ edits < MaxEdits /\ edits' = edits + 1
    /\ \E p \in Projects \ {project} : project' = p /\ shrunk' = (shrunk \/ p.files < project.files)
    /\ UNCHANGED <<week, currentTier, history, check, checks, prediction>>

Wait ==
    /\ week < MaxWeeks /\ week' = week + 1
    /\ UNCHANGED <<project, edits, shrunk, currentTier, history, check, checks, prediction>>

\* The stats of the report, the files of AutoDetect, and the signals of the boost.
Scan ==
    /\ \/ /\ check.at = "idle" /\ checks < MaxChecks
          /\ check' = [at |-> "stats", files |-> project.files, tier |-> 0] /\ shrunk' = FALSE
       \/ /\ check.at = "stats" /\ UNCHANGED shrunk
          /\ check' = [check EXCEPT !.at = "files", !.tier = DetectTier(project.files)]
       \/ /\ check.at = "files" /\ UNCHANGED shrunk
          /\ check' = [check EXCEPT !.at = "boosted", !.tier = Capped(@ + Boost(project))]
    /\ UNCHANGED <<project, edits, week, currentTier, history, checks, prediction>>

NoPrediction == [confidence |-> 0, growth |-> 0, next |-> 0, soon |-> FALSE, tier |-> 0]

\* The number of files that the prediction counts up to: the end of the next tier, which
\* is not where the next tier begins.
TierEnd(next) == 10 ^ (next + 1)

\* predictLocked; confidence in percent. The growth is of the first to the last point kept.
Predicted(points) ==
    LET delta == Last(points).files - Head(points).files
        next == Capped(currentTier + 1)
        known(confidence, soon) ==
            [confidence |-> confidence, growth |-> delta, next |-> next, soon |-> soon, tier |-> currentTier]
    IN
    IF Len(points) < 2 \/ Last(points).week = Head(points).week THEN NoPrediction
    ELSE IF Last(points).files >= TierEnd(next) THEN known(100, TRUE)
    ELSE IF delta <= 0 THEN known(10, FALSE)
    ELSE known(IF Len(points) >= Firm THEN 95 ELSE IF Len(points) >= Steady THEN 80 ELSE 50, FALSE)

\* A mutant: the newest points are dropped.
Oldest(points) == SubSeq(points, 1, IF Len(points) > MaxHistory THEN MaxHistory ELSE Len(points))

\* A mutant: one point too many is kept.
TrimmedLate(points) == SubSeq(points, IF Len(points) > MaxHistory THEN Len(points) - MaxHistory ELSE 1, Len(points))

Trimmed(points) == SubSeq(points, IF Len(points) > MaxHistory THEN Len(points) - MaxHistory + 1 ELSE 1, Len(points))

CheckEnds ==
    LET point == [files |-> check.files, tier |-> check.tier, week |-> week, number |-> checks', exact |-> ~shrunk] IN
    /\ check.at = "boosted" /\ check' = NoScan /\ checks' = checks + 1
    /\ history' = Trimmed(Append(history, point))
    /\ prediction' = Predicted(history')
    /\ UNCHANGED <<project, edits, shrunk, week, currentTier>>

\* SetCurrentTier, which the lock keeps out of a check.
SetCurrentTier ==
    /\ check.at = "idle"
    /\ \E t \in {Last(history).tier : h \in {x \in {history} : x # <<>>}} : currentTier' = t
    /\ UNCHANGED <<project, edits, shrunk, week, history, check, checks, prediction>>

MonitorNext == Edit \/ Wait \/ Scan \/ CheckEnds \/ SetCurrentTier

-----------------------------------------------------------------------------
\* The manager.

\* The modules of generatePhases in their order.
AllModules ==
    [i \in 1 .. 28 |-> [name |-> <<
       "degradation", "fastpath", "eventstore", "eventbus", "config", "patterns_resilience",
       "port_contract", "architecture_registry", "eventstore_persistent", "eventbus_persistent",
       "storage_fs", "security", "transaction", "handoff", "handoff_persistence", "schema",
       "scheduler", "guardian", "observation_pipeline", "observation_store", "agent_submit",
       "projection", "idempotent", "tenant", "patterns_distributed", "eventstore_upgrade",
       "remote_composer", "app">>[i],
     tier |-> IF i <= 2 THEN 1 ELSE IF i <= 8 THEN 2 ELSE IF i <= 17 THEN 3 ELSE IF i <= 24 THEN 4 ELSE 5]]

\* A mutant: the modules of the first tier are enabled again.
FromTier(low, high) == SelectSeq(AllModules, LAMBDA m : m.tier >= low /\ m.tier <= high)

\* generatePhases: one phase per module; none has a validation or a rollback of its own.
Phases(low, high) == SelectSeq(AllModules, LAMBDA m : m.tier > low /\ m.tier <= high)
Names(phases) == {phases[i].name : i \in DOMAIN phases}

Count == Len(Phases(from, to))

\* What Advance does to a manager that is not done.
StepOn ==
    IF current = Count THEN done' = TRUE /\ UNCHANGED <<current, flags>>
    ELSE /\ current' = current + 1
         /\ flags' = flags \cup {Phases(from, to)[current + 1].name}
         /\ done' = (current + 1 = Count)

Call == calls < MaxCalls /\ calls' = calls + 1

Advance(u) ==
    /\ loop[u] = "idle" /\ Call
    /\ IF done THEN UNCHANGED <<current, flags, done>> ELSE StepOn
    /\ UNCHANGED <<from, to, loop>>

\* current counts the phases that are through, where the code has the index of the last.
RollbackPhase(u) ==
    /\ loop[u] = "idle" /\ Call /\ current > 0
    /\ flags' = flags \ {Phases(from, to)[current].name}
    /\ current' = current - 1 /\ done' = FALSE
    /\ UNCHANGED <<from, to, loop>>

\* AdvanceAll reads done without the lock, and calls Advance, which takes it.
AdvanceAll(u) ==
    /\ \/ loop[u] = "idle" /\ Call /\ loop' = [loop EXCEPT ![u] = "reads"]
       \/ /\ loop[u] = "reads" /\ UNCHANGED calls
          /\ loop' = [loop EXCEPT ![u] = IF done THEN "complete" ELSE "advances"]
    /\ UNCHANGED <<from, to, current, flags, done>>

AdvanceInLoop(u) ==
    /\ loop[u] = "advances"
    /\ IF done THEN loop' = [loop EXCEPT ![u] = "error"] /\ UNCHANGED <<current, flags, done>>
       ELSE StepOn /\ loop' = [loop EXCEPT ![u] = "reads"]
    /\ UNCHANGED <<from, to, calls>>

ManagerNext == \E u \in Users : Advance(u) \/ RollbackPhase(u) \/ AdvanceAll(u) \/ AdvanceInLoop(u)

\* The standard bridges: the module, and the tiers it leads from and to.
Bridges == {<<"eventstore", 1, 2>>, <<"eventbus", 1, 2>>, <<"config", 1, 2>>, <<"security", 2, 3>>}

ListAvailableBridges(low, high) == {b \in Bridges : b[3] > low /\ b[3] <= high}
GenerateTierBridge(low, high, module) == {b \in Bridges : b[1] = module /\ b[2] <= low /\ b[3] <= high}

-----------------------------------------------------------------------------

MonitorInit ==
    /\ project \in Projects /\ edits = 0 /\ shrunk = FALSE /\ week = 0
    /\ currentTier \in {0, 1} /\ history = <<>> /\ check = NoScan /\ checks = 0
    /\ prediction = NoPrediction

ManagerInit ==
    /\ \E route \in Routes : from = route[1] /\ to = route[2]
    /\ current = 0 /\ flags = {} /\ done = FALSE
    /\ loop = [u \in Users |-> "idle"] /\ calls = 0

Init == MonitorInit /\ ManagerInit
Next == (MonitorNext /\ UNCHANGED managerVars) \/ (ManagerNext /\ UNCHANGED monitorVars)
Spec == Init /\ [][Next]_vars

\* A caller of AdvanceAll goes on.
ManagerFairness == \A u \in Users : WF_managerVars(loop[u] = "reads" /\ AdvanceAll(u)) /\ WF_managerVars(AdvanceInLoop(u))

-----------------------------------------------------------------------------

TypeOK ==
    /\ project \in Projects /\ currentTier \in Tier /\ Len(history) <= MaxHistory
    /\ check.at \in {"idle", "stats", "files", "boosted"}
    /\ current \in 0 .. Count /\ flags \subseteq Names(AllModules) /\ done \in BOOLEAN
    /\ \A u \in Users : loop[u] \in {"idle", "reads", "advances", "complete", "error"}

\* However advances and rollbacks of several callers interleave, the modules enabled are
\* those of the phases that are through, a transition that is done has enabled all of
\* them, and what is enabled in two transitions one after the other is what one
\* transition over both would enable (tier_transition.go).
TransitionIsExact ==
    /\ flags = {Phases(from, to)[i].name : i \in 1 .. current}
    /\ done => current = Count
    /\ \A mid \in from .. to : Phases(from, mid) \o Phases(mid, to) = Phases(from, to)

\* A bridge is listed for exactly the modules that the transition enables, and from one
\* tier to the next it is the one that is generated (tier_bridge.go); over several tiers
\* one may be listed that is not generated.
BridgesFit ==
    /\ {b[1] : b \in ListAvailableBridges(from, to)} =
          {b[1] : b \in Bridges} \cap Names(Phases(from, to))
    /\ to = from + 1 => \A b \in ListAvailableBridges(from, to) :
                           GenerateTierBridge(from, to, b[1]) = {b}

\* A prediction that the next tier is over already means that the project, unless it
\* shrank while it was scanned, has outgrown its tier by two, or there is no tier above;
\* no growth is never predicted with confidence, and none at all is predicted of points
\* of one moment (tier_drift.go).
PredictionsFollow ==
    prediction # NoPrediction =>
       LET last == Last(history) IN
       /\ prediction.soon /\ last.exact => last.tier - prediction.tier >= 2 \/ last.tier = 7
       /\ prediction.confidence \in {50, 80, 95} => prediction.growth > 0
       /\ Head(history).week < last.week

\* The history is the last checks, all of them while there is room, in the order in
\* which they were made (Check, maxHistory).
HistoryIsLatest ==
    /\ \A i \in DOMAIN history : history[i].number = checks - Len(history) + i
    /\ Len(history) = (IF checks < MaxHistory THEN checks ELSE MaxHistory)

\* Who advances all phases gets to an end, if nobody rolls back for ever (AdvanceAll).
AdvanceEnds == <>[](\A u \in Users : loop[u] \in {"idle", "complete", "error"})

=============================================================================
