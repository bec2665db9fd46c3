---------------------------- MODULE MCScheduler ----------------------------
(* Small instances of what schedules agents and of what watches them, one     *)
(* scenario for each.  Schedulers share three tasks and two agents, of which  *)
(* only a1 has the capabilities of the most urgent task: in "races" there are *)
(* two schedulers, a2 leaves and comes back and heartbeats are late; in       *)
(* "calm" one scheduler runs over a pool that stays and is heard of in time.  *)
(* The observation pipeline runs with a blocking and a non-blocking feeder    *)
(* ("observe"); the sharded store of steps overflows and is cleared ("ring")  *)
(* or is read while it fills ("pages"); three aggregators are given the same  *)
(* batches ("aggregate"); two goroutines ask the guardian ("guard"), and its  *)
(* dependency graph is analysed while it changes ("graph").  The command line *)
(* scans and judges a project of three files that is edited twice ("arch");   *)
(* four instances vote on two proposals ("votes"), and two components are     *)
(* asked how they are ("health").  Schemas are registered and listed          *)
(* ("schemas"), and data is migrated from the first to the last of five       *)
(* versions ("migrations").                                                   *)
EXTENDS Scheduler

CONSTANTS s1, s2, a1, a2, t1, t2, t3

VARIABLES
    scenario,
    oRunning, oLoop, oCancelled, oInput, oInputClosed, oBuffer, oTodo, fed,
    aggregated, sampled, oRing, oHead, oSize, recorded,
    slots, head, size, index, count, left, group, at,
    page, pAt, need, skipped, query, stayed, clearing, cleared,
    batches, results, windows, evicted, shards,
    hasPrevious, previous, published, gPc, input, before, level, decision,
    clock, lastAlert, alerts, lost, outcome,
    edges, nodes, changes, phase, colour, path, unseen, cycles,
    inDegree, dQueue, sorted, redundant, islands, violations,
    project, edits, todo, open, scan, steady, scanned, baseline, version,
    mode, proposal, votes, said,
    registered, up, asking, answers, health, flipped,
    registry, registrations, listing, keysBefore, ranged,
    chain, search, mQueue, entry, neighbors, visited, route, applied

observeVars == <<oRunning, oLoop, oCancelled, oInput, oInputClosed, oBuffer, oTodo, fed,
                 aggregated, sampled, oRing, oHead, oSize, recorded>>
storeVars == <<slots, head, size, index, count, left, group, at,
               page, pAt, need, skipped, query, stayed, clearing, cleared>>
aggregateVars == <<batches, results, windows, evicted, shards>>
guardVars == <<hasPrevious, previous, published, gPc, input, before, level, decision,
               clock, lastAlert, alerts, lost, outcome>>
graphVars == <<edges, nodes, changes, phase, colour, path, unseen, cycles,
               inDegree, dQueue, sorted, redundant, islands, violations>>
archVars == <<project, edits, todo, open, scan, steady, scanned, baseline, version>>
federationVars == <<mode, proposal, votes, said,
                    registered, up, asking, answers, health, flipped>>
schemaVars == <<registry, registrations, listing, keysBefore, ranged>>
chainVars == <<chain, search, mQueue, entry, neighbors, visited, route, applied>>
versionVars == <<schemaVars, chainVars>>
judgeVars == <<guardVars, graphVars, archVars, federationVars, versionVars>>
watchVars == <<observeVars, storeVars, aggregateVars, judgeVars>>
mcVars == <<scenario, vars, watchVars>>

UrgentFirst == [t \in Tasks |-> IF t = t1 THEN 2 ELSE 1]
OnlyA1RunsT1 == [t \in Tasks |-> IF t = t1 THEN {a1} ELSE {a1, a2}]

Calm == INSTANCE Scheduler WITH Schedulers <- {s1}, Churn <- {}, LateHeartbeats <- FALSE

-----------------------------------------------------------------------------

Feeders == {"f", "g"}
Sample(a, p, u, f, m, s) ==
    [age |-> a, pattern |-> p, unit |-> u, failed |-> f, ms |-> m, shard |-> s]
Observe == INSTANCE Observation WITH
    Batches <- [f \in Feeders |-> IF f = "f" THEN <<<<"x1", "x2">>, <<"x3">>>>
                                  ELSE <<<<"y1">>, <<"y2">>>>],
    Failed <- {"x2", "y1"}, Blocking <- {"f"}, BufferSize <- 1, Capacity <- 3,
    running <- oRunning, loop <- oLoop, cancelled <- oCancelled, input <- oInput,
    inputClosed <- oInputClosed, buffer <- oBuffer, todo <- oTodo, dropped <- sampled,
    ring <- oRing, head <- oHead, size <- oSize,
    SampleSteps <- {Sample(0, "p", "", FALSE, 1, 1), Sample(2, "p", "u", TRUE, 4, 2),
                    Sample(0, "", "u", FALSE, 9, 2)},
    Durations <- <<1, 3>>, MaxWindows <- 10, MaxBatches <- 3, MaxBatch <- 2,
    Compression <- 12, MaxCentroids <- 2

\* Two goroutines record seven steps, four of them in the first of two shards.
Steps == {"a1", "a2", "a3", "a4", "b1", "b2", "b3"}
Recorders == {"r1", "r2"}
Recorded == [r \in Recorders |->
    IF r = "r1" THEN <<<<"a1", "b1", "a2">>, <<"a3", "b2">>>> ELSE <<<<"a4", "b3">>>>]
ShardOfStep == [s \in Steps |-> IF s \in {"a1", "a2", "a3", "a4"} THEN 1 ELSE 2]
FieldOfStep == [f \in {"trace", "unit"} |-> [s \in Steps |->
    IF f = "trace" THEN IF s \in {"a1", "a3", "b3"} THEN "t" ELSE "u"
    ELSE IF s \in {"a1", "a2", "a4"} THEN "w" ELSE ""]]
TimeOfStep == [s \in Steps |-> CHOOSE i \in 1 .. 7 :
    <<"b1", "a1", "a4", "b3", "a2", "b2", "a3">>[i] = s]
Asks(trace, unit, through_, limit_) ==
    [where |-> [f \in {"trace", "unit"} |-> IF f = "trace" THEN trace ELSE unit],
     through |-> through_, limit |-> limit_]
Asked == {Asks("", "w", Steps, 1), Asks("u", "", {"a4", "b2"}, 0)}

Ring == INSTANCE StepStores WITH
    Calls <- Recorded, Shards <- {1, 2}, ShardOf <- ShardOfStep,
    Fields <- {"trace", "unit"}, Value <- FieldOfStep, Blank <- "",
    Capacity <- 2, Limit <- 2, Offset <- 1, Clears <- 1,
    Queries <- Asked,
    Selective <- <<"trace", "unit">>, Time <- TimeOfStep
Pages == INSTANCE StepStores WITH
    Calls <- Recorded, Shards <- {1, 2}, ShardOf <- ShardOfStep,
    Fields <- {"trace", "unit"}, Value <- FieldOfStep, Blank <- "",
    Capacity <- 7, Limit <- 3, Offset <- 1, Clears <- 0,
    Queries <- Asked,
    Selective <- <<"trace", "unit">>, Time <- TimeOfStep

\* An agent that fails and takes its time, and one that also oversteps.
Agent(success, executed, done_) ==
    [baseline |-> 90, success |-> success, usual |-> 10, duration |-> 15, otherPhase |-> FALSE,
     executed |-> executed, allowed |-> {"read"}, tasks |-> done_]
Guard == INSTANCE Guardian WITH
    Callers <- {"g1", "g2"}, Scores <- {1, 3}, Yellow <- 2, Orange <- 4, Red <- 6,
    Drifts <- {Agent(10, {"read"}, 4), Agent(50, {"read", "write"}, 1)},
    MaxErrors <- 1, Cooldown <- 1, MaxClock <- 1, AlertBuffer <- 1,
    Nodes <- {"a", "b", "c"}, MaxChanges <- 1,
    pc <- gPc, left <- unseen, queue <- dQueue

\* The second name has the prefix of two layers; the first is no directory.
Project == INSTANCE Arch WITH
    Levels <- <<{1}, {0, 3}, {4}>>, Dotted <- {2, 3},
    Versions <- {<<0, 5, 2>>, <<2, 0, 3>>}, MaxEdits <- 2

Federated == INSTANCE Federation WITH
    Instances <- 1..4, Proposals <- {"p", "q"}, Proposer <- [p |-> 1, q |-> 2],
    ModeOf <- [p |-> "safe", q |-> "emergency"], Components <- {"c", "d"}, status <- up

\* The name of the second type begins like that of the first.
Structs == {[f |-> "int"], [f |-> "string"], [f |-> "int", g |-> "int"]}
Versioned == INSTANCE Schema WITH
    Types <- {<<"a">>, <<"a", "b">>}, VersionNames <- {"v1", "v2"}, Schemas <- Structs,
    MaxRegistrations <- 3,
    Versions <- 1..5, Source <- 1, Target <- 5,
    Migrations <- {<<1, 2>>, <<1, 3>>, <<1, 5>>, <<2, 3>>, <<2, 5>>, <<3, 4>>, <<4, 2>>,
                   <<4, 5>>, <<5, 1>>},
    registered <- registrations, before <- keysBefore, queue <- mQueue

-----------------------------------------------------------------------------

MCInit ==
    /\ scenario \in {"races", "calm", "observe", "ring", "pages", "aggregate",
                     "guard", "graph", "arch", "votes", "health",
                     "schemas", "migrations"}
    /\ Init
    /\ IF scenario = "pages" THEN Pages!Init ELSE Ring!Init
    /\ Observe!Init /\ Observe!AggregateInit /\ Guard!Init /\ Guard!GraphInit
    /\ Project!ArchInit /\ Federated!FederationInit
    /\ Versioned!SchemaInit /\ Versioned!ChainInit
    /\ scenario # "arch" =>
        version = <<2, 0, 3>> /\ \A n \in DOMAIN project : project[n].deps = {}

In(s) == scenario = s /\ UNCHANGED scenario

Races == In("races") /\ Next /\ UNCHANGED watchVars
CalmSchedule == In("calm") /\ Calm!Next /\ UNCHANGED watchVars

ObserveOthers == UNCHANGED <<vars, storeVars, aggregateVars, judgeVars>>
Observes == In("observe") /\ Observe!Next /\ ObserveOthers
RingFills ==
    /\ In("ring")
    /\ \/ \E r \in Recorders : Ring!Begin(r) \/ Ring!RecordShard(r) \/ Ring!AddCount(r)
       \/ (\E q \in Asked : Ring!Query(q)) \/ Ring!QueryNext \/ Ring!QueryReturns
       \/ Ring!ClearShard
    /\ UNCHANGED <<vars, observeVars, aggregateVars, judgeVars>>
PagesFill ==
    /\ In("pages")
    /\ \/ \E r \in Recorders : Pages!Begin(r) \/ Pages!RecordShard(r) \/ Pages!AddCount(r)
       \/ Pages!GetSteps \/ Pages!ReadShard \/ Pages!PageDone
    /\ UNCHANGED <<vars, observeVars, aggregateVars, judgeVars>>
Aggregates ==
    In("aggregate") /\ Observe!AggregateNext /\ UNCHANGED <<vars, observeVars, storeVars, judgeVars>>

Verdicts ==
    /\ \/ In("guard") /\ Guard!Next /\ UNCHANGED <<graphVars, archVars, federationVars>>
       \/ In("graph") /\ Guard!GraphNext /\ UNCHANGED <<guardVars, archVars, federationVars>>
       \/ In("arch") /\ Project!ArchNext /\ UNCHANGED <<guardVars, graphVars, federationVars>>
       \/ In("votes") /\ Federated!VoteNext /\ UNCHANGED <<guardVars, graphVars, archVars>>
       \/ In("health") /\ Federated!HealthNext /\ UNCHANGED <<guardVars, graphVars, archVars>>
    /\ UNCHANGED <<vars, observeVars, storeVars, aggregateVars, versionVars>>

Migrates ==
    /\ \/ In("schemas") /\ Versioned!RegistryNext /\ UNCHANGED chainVars
       \/ In("migrations") /\ Versioned!ChainNext /\ UNCHANGED schemaVars
    /\ UNCHANGED <<guardVars, graphVars, archVars, federationVars>>
    /\ UNCHANGED <<vars, observeVars, storeVars, aggregateVars>>

\* What is observed, recorded and reviewed runs out, by the bounds of the modules.
Exhausted ==
    /\ scenario \notin {"races", "calm"}
    /\ UNCHANGED mcVars

MCNext ==
    \/ Races \/ CalmSchedule
    \/ Observes \/ RingFills \/ PagesFill \/ Aggregates
    \/ Verdicts \/ Migrates
    \/ Exhausted

\* The fairness of Scheduler!FairSpec and of Observation!Spec.
Fairness ==
    /\ WF_mcVars(CalmSchedule /\ Calm!ScheduleNext(s1))
    /\ \A a \in Agents : WF_mcVars(CalmSchedule /\ \E t \in Tasks : Calm!Finish(a, t))
    /\ WF_mcVars(In("observe") /\ Observe!Loop /\ ObserveOthers)
    /\ WF_mcVars(In("observe") /\ Observe!Stop /\ ObserveOthers)
    /\ \A f \in Feeders : WF_mcVars(In("observe") /\ Observe!Send(f) /\ ObserveOthers)

MCSpec == MCInit /\ [][MCNext]_mcVars /\ Fairness

-----------------------------------------------------------------------------

\* The types of the scenario's schedulers, queue and pool, and of what watches.
TypesOK ==
    CASE scenario \in {"races", "calm"} -> TypeOK
      [] scenario = "observe" -> Observe!TypeOK
      [] scenario = "ring" -> Ring!TypeOK
      [] scenario = "pages" -> Pages!TypeOK
      [] scenario = "aggregate" -> Observe!AggregateTypeOK
      [] scenario = "guard" -> Guard!TypeOK
      [] scenario = "graph" -> Guard!GraphTypeOK
      [] scenario = "arch" -> Project!ArchTypeOK
      [] scenario \in {"votes", "health"} -> Federated!FederationTypeOK
      [] OTHER -> Versioned!SchemaTypeOK

\* In the calm pool an agent has one task at a time, and while ScheduleAll is called again
\* after each error that ends it (scheduler_composer.go) no task starves behind an urgent
\* one that is requeued while its agent is busy; an observation pipeline that is not
\* cancelled takes every batch and ends after the last (observation_pipeline.go).
WorkEnds ==
    /\ scenario = "calm" => []Calm!OneTaskPerAgent /\ Calm!EveryTaskEnds
    /\ scenario = "observe" => Observe!PipelineDrains

\* What is observed is kept in order: the pipeline flushes what it accepted, the ring
\* holds the last of it, an index of a store finds what a scan finds, a page is exact
\* (observation_pipeline.go, observation_store.go, perf_sharded_observation_*.go);
\* the three aggregators agree on counts and failures, and no digest of theirs loses
\* a value or its order (observation_aggregator*.go, perf_tdigest.go).
ObservationsKept ==
    CASE scenario = "observe" -> Observe!FlushedInOrder /\ Observe!RingHoldsTheLast
      [] scenario = "ring" -> Ring!IndexMatchesScan /\ Ring!QueryFinds
      [] scenario = "pages" -> Pages!IndexMatchesScan /\ Pages!PageIsExact
      [] scenario = "aggregate" -> Observe!DigestsAreSound /\ Observe!AggregatorsAgree
      [] OTHER -> TRUE

\* The guardian compares with a score that was given, answers what is worse no more
\* mildly, and keeps silent only about what it has said (guardian_entropy_watcher.go,
\* guardian_alert.go); cycles are reported when there are some, and a redundant edge
\* may be removed without a loss (guardian_dependency_graph.go).  The command line
\* judges the project as it stands, blocks what breaks its layers and suggests a newer
\* version exactly for what changed (go-core/arch); instances degrade by a majority
\* (patterns_degradation_federated.go), and a health response is that of its
\* components (patterns_health_dist.go); schemas are compatible if one extends the
\* other, and data is migrated along a shortest chain (schema_*.go).
VerdictsSound ==
    CASE scenario = "guard" ->
            Guard!PreviousIsReal /\ Guard!WorseIsNotMilder /\ Guard!SuppressedWasSaid
      [] scenario = "graph" -> Guard!CyclesAreFound /\ Guard!RedundantMayGo
      [] scenario = "arch" ->
            /\ Project!ScanIsCurrent /\ Project!CycleMeansCycle /\ Project!DecisionFits
            /\ Project!DriftIsSeen /\ Project!NextIsNewer
      [] scenario = "votes" ->
            Federated!MajorityDegrades /\ Federated!VotesDecide /\ Federated!DegradingNarrows
      [] scenario = "health" -> Federated!HealthIsCurrent
      [] scenario = "schemas" -> Versioned!ListsAreFound /\ Versioned!CompatibleExtends
      [] scenario = "migrations" -> Versioned!ShortestChain
      [] OTHER -> TRUE
=============================================================================
