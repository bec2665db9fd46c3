----------------------------- MODULE MCWorkflow -----------------------------
(* Small instances of what runs work for its callers, one scenario for each:  *)
(* a saga, the handoff of a snapshot, agents' submissions of which two share  *)
(* their ID, an event bus, and three programs of stream primitives; and of    *)
(* what changes under the work: the files of a pipeline and of an application *)
(* that are reloaded, and the releases of the code.                           *)
EXTENDS Saga, Workbench, Handoff, EventBus

CONSTANTS s1, s2, s3, u1, u2, u3, u4, pub, Unset, Zero, None

VARIABLES
    scenario,
    buffer, closed, held, window, sPc, got, done,
    pipeFile, pipeWritten, current, lastHash, hash, hotPc, stopping, errors,
    appFile, stamp, cfg, told, modTime, since, watchPc, loading, missed,
    log, tags, changes, records, drafts, rPc, plan, releases, changelogs

streamVars == <<buffer, closed, held, window, sPc, got, done>>
configVars == <<pipeFile, pipeWritten, current, lastHash, hash, hotPc, stopping, errors,
                appFile, stamp, cfg, told, modTime, since, watchPc, loading, missed>>
releaseVars == <<log, tags, changes, records, drafts, rPc, plan, releases, changelogs>>
changeVars == <<configVars, releaseVars, poolVars>>
mcVars == <<scenario, vars, handoffVars, benchVars, busVars, streamVars, changeVars>>

\* Two submissions of the workbench share their ID, the third is alone.
SharedID == (s1 :> "a1") @@ (s2 :> "a1") @@ (s3 :> "a2")

-----------------------------------------------------------------------------
(* FromSlice | StreamMap | StreamFilter | Window | Collect *)

Fn(v) == v + 10
Keep(v) == v # 12
Route(v) == v - 1   \* 0, 1 and 2, of which Split has 1 and 2

ChainNodes == 1 .. 5
Chain == INSTANCE Streams WITH
        Nodes <- ChainNodes,
        Kind <- <<"slice", "map", "filter", "window", "collect">>,
        In <- <<"none", "c1", "c2", "c3", "c4">>,
        Out <- <<<<"c1">>, <<"c2">>, <<"c3">>, <<"c4">>, <<>>>>,
        Items <- <<<<1, 2, 3, 4>>, <<>>, <<>>, <<>>, <<>>>>,
        Channels <- {"c1", "c2", "c3", "c4"}, Cap <- 1, Size <- 2, pc <- sPc

\* The same by a loop over the slice: 11 | 13, 14 in windows of two.
ChainReference == <<<<11, 13>>, <<14>>>>

(* Two FromSlices | Merge | Split | a Collect for each output *)

MergeNodes == 1 .. 7
Merged == INSTANCE Streams WITH
        Nodes <- MergeNodes,
        Kind <- <<"slice", "slice", "merge", "merge", "split", "collect", "collect">>,
        In <- <<"none", "none", "c1", "c2", "c3", "c4", "c5">>,
        Out <- <<<<"c1">>, <<"c2">>, <<"c3">>, <<"c3">>, <<"c4", "c5">>, <<>>, <<>>>>,
        Items <- <<<<1, 3>>, <<2>>, <<>>, <<>>, <<>>, <<>>, <<>>>>,
        Channels <- {"c1", "c2", "c3", "c4", "c5"}, Cap <- 1, Size <- 2, pc <- sPc

(* FromSlice | WindowByTime | Collect *)

TickNodes == 1 .. 3
Ticks == INSTANCE Streams WITH
        Nodes <- TickNodes,
        Kind <- <<"slice", "windowByTime", "collect">>,
        In <- <<"none", "c1", "c2">>,
        Out <- <<<<"c1">>, <<"c2">>, <<>>>>,
        Items <- <<<<1, 2, 3>>, <<>>, <<>>>>,
        Channels <- {"c1", "c2"}, Cap <- 1, Size <- 2, pc <- sPc

-----------------------------------------------------------------------------
(* Pipelines of which one needs an adapter of another kind and one has no id, and *)
(* application configurations of which one refers to a secret that is not there   *)

Step(t, n) == [type |-> t, name |-> n]
Pipe(id, steps) == [id |-> id, steps |-> steps]
TwoSteps == Pipe("p", <<Step("atom", "a"), Step("port", "b")>>)
OneStep == Pipe("p", <<Step("port", "b")>>)

Config == INSTANCE ConfigReload WITH
        Pipelines <- {TwoSteps, OneStep, Pipe("p", <<Step("port", "a")>>),
                      Pipe("", <<Step("atom", "a")>>)},
        Registry <- ("a" :> "atom") @@ ("b" :> "port"),
        Apps <- {[db |-> "1", jwt |-> "ref1"], [db |-> "2", jwt |-> "plain"],
                 [db |-> "2", jwt |-> "ref2"]},
        Env <- [db |-> Unset, jwt |-> Unset],
        Secrets <- ("ref1" :> "s1") @@ ("ref2" :> Unset),
        Numeric <- {"db"}, Numbers <- {"1", "2"}, Confidential <- {"jwt"},
        MaxWrites <- 3, MaxErrors <- 1,
        hPc <- hotPc, wPc <- watchPc

\* A log that grows while releases are tagged and nobody writes an intent or a record,
R == INSTANCE Release WITH
        Commits <- {[type |-> "feat", bang |-> FALSE], [type |-> "fix", bang |-> TRUE],
                    [type |-> "other", bang |-> FALSE]},
        Numbers <- {1}, Intents <- {}, Writers <- {}, FirstLog <- 2,
        MaxCommits <- 3, MaxReleases <- 3, MaxRecords <- 2, Restarts <- TRUE,
        pc <- rPc

\* and a log of one commit that is released twice beside a person who writes records.
Records == INSTANCE Release WITH
        Commits <- {[type |-> "feat", bang |-> FALSE], [type |-> "other", bang |-> FALSE]},
        Numbers <- {1}, Intents <- {"i"}, Writers <- {"ann"}, FirstLog <- 2,
        MaxCommits <- 1, MaxReleases <- 2, MaxRecords <- 2, Restarts <- TRUE,
        pc <- rPc

-----------------------------------------------------------------------------

MCInit ==
    /\ Init /\ HandoffInit /\ BenchInit /\ BusInit /\ PoolInit /\ Config!Init
    /\ \/ scenario \in {"saga", "handoff", "workbench", "bus", "pool", "chain",
                        "hotReload", "configWatcher", "release", "records"} /\ Chain!Init
       \/ scenario = "merge" /\ Merged!Init
       \/ scenario = "ticks" /\ Ticks!Init
    /\ IF scenario = "records" THEN Records!Init ELSE R!Init
    /\ scenario # "handoff" => persistence = "json" /\ transport = "http"
    /\ scenario # "hotReload" => pipeFile = OneStep
    /\ scenario # "configWatcher" => appFile.jwt = "ref1"

In(s) == scenario = s /\ UNCHANGED scenario

Others == UNCHANGED <<vars, handoffVars, benchVars, busVars, changeVars>>
Works == <<vars, handoffVars, benchVars, busVars, streamVars>>

SagaRuns ==
    In("saga") /\ Next /\ UNCHANGED <<handoffVars, benchVars, busVars, streamVars, changeVars>>
HandsOff ==
    In("handoff") /\ HandoffNext /\ UNCHANGED <<vars, benchVars, busVars, streamVars, changeVars>>
Submits ==
    In("workbench") /\ BenchNext /\ UNCHANGED <<vars, handoffVars, busVars, streamVars, changeVars>>
Publishes ==
    In("bus") /\ BusNext /\ UNCHANGED <<vars, handoffVars, benchVars, streamVars, changeVars>>
PoolRuns ==
    In("pool") /\ PoolNext /\ UNCHANGED <<Works, configVars, releaseVars>>
ChainFlows == In("chain") /\ Chain!Next /\ Others
MergeFlows == In("merge") /\ Merged!Next /\ Others
TicksFlow == In("ticks") /\ Ticks!Next /\ Others
HotReloads == In("hotReload") /\ Config!HotReload /\ UNCHANGED <<Works, releaseVars, poolVars>>
Watches == In("configWatcher") /\ Config!ConfigWatcher /\ UNCHANGED <<Works, releaseVars, poolVars>>
Releases == In("release") /\ R!Next /\ UNCHANGED <<Works, configVars, poolVars>>
WritesRecords == In("records") /\ Records!Next /\ UNCHANGED <<Works, configVars, poolVars>>

MCNext ==
    \/ SagaRuns \/ HandsOff \/ Submits \/ Publishes \/ PoolRuns
    \/ ChainFlows \/ MergeFlows \/ TicksFlow
    \/ HotReloads \/ Watches \/ Releases \/ WritesRecords

\* The fairness of Streams!Spec and of ConfigReload!Spec, and of the workers of the pool.
Fairness ==
    /\ \A n \in ChainNodes : WF_mcVars(In("chain") /\ Chain!Step(n) /\ Others)
    /\ \A n \in MergeNodes : WF_mcVars(In("merge") /\ Merged!Step(n) /\ Others)
    /\ \A n \in TickNodes : WF_mcVars(In("ticks") /\ Ticks!Step(n) /\ Others)
    /\ WF_mcVars(In("pool") /\ PoolStep /\ UNCHANGED <<Works, configVars, releaseVars>>)
    /\ WF_mcVars(In("hotReload") /\ Config!HotNext /\ UNCHANGED <<Works, releaseVars, poolVars>>)
    /\ WF_mcVars(In("configWatcher") /\ Config!WatchNext /\ UNCHANGED <<Works, releaseVars, poolVars>>)

MCSpec == MCInit /\ [][MCNext]_mcVars /\ Fairness

\* The streams alone.
StreamsSpec == (MCInit /\ scenario \in {"chain", "merge", "ticks"}) /\ [][MCNext]_mcVars /\ Fairness

-----------------------------------------------------------------------------

\* The state of every part keeps the shape that its source file gives it: no
\* buffer over its capacity, no full window kept, no increment by two goroutines.
TypesOK ==
    /\ scenario = "saga" => TypeOK
    /\ scenario = "handoff" => HandoffTypeOK
    /\ scenario = "workbench" => BenchTypeOK
    /\ scenario = "bus" => BusTypeOK
    /\ scenario = "pool" => PoolTypeOK
    /\ scenario \in {"hotReload", "configWatcher"} => Config!TypeOK
    /\ scenario = "release" => R!TypeOK
    /\ scenario = "records" => Records!TypeOK
    /\ scenario = "chain" => Chain!TypeOK
    /\ scenario = "merge" => Merged!TypeOK
    /\ scenario = "ticks" => Ticks!TypeOK

\* What changes under the work stays whole.  What runs was built from a file that is
\* complete and registered, and no reference is handed out in place of its secret
\* (config_hotreload.go, config_loader.go); along the tags versions grow and a commit is in
\* one changelog at most, whatever dies or is dry, but where git describe fails
\* (version_composer.go); a record takes the number of no other unless its writer races one
\* or cannot list them all (version_adr.go); and versions are sorted, messages parsed,
\* records and intents written and read back, without loss.
OperationsSound ==
    /\ Config!RunsWhatBuilds /\ Config!SecretsAreResolved
    /\ scenario = "records" => Records!RecordsDistinct
    /\ R!VersionsGrow /\ R!LoggedOnce
    /\ R!VersionsSort /\ R!MessagesParse /\ R!RecordsReadBack /\ R!IntentsReadBack

-----------------------------------------------------------------------------

Returned(nodes) == \A n \in nodes : sPc[n] = "returned"

FromSlice(seq, items) == SelectSeq(seq, LAMBDA v : v \in items)

\* composer_stream.go: whatever the interleaving of the goroutines and whenever
\* done is closed, consumers collect the elements in the order of each source and
\* once each, all windows but the last are full, and without done nothing is
\* missing at the end; each channel is closed by the last who writes it.
StreamsKeepOrder ==
    /\ scenario = "chain" =>
        /\ Chain!ClosedByTheLast
        /\ IsPrefix(FlattenSeq(got[5]), FlattenSeq(ChainReference))
        /\ \A i \in 1 .. Len(got[5]) - 1 : Len(got[5][i]) = 2
        /\ ~done /\ Returned(ChainNodes) => got[5] = ChainReference
    /\ scenario = "merge" =>
        /\ Merged!ClosedByTheLast
        /\ IsPrefix(FromSlice(got[6], {1}), <<1>>) /\ IsPrefix(FromSlice(got[6], {2}), <<2>>)
        /\ got[7] \in {<<>>, <<3>>}
        /\ got[7] = <<3>> => 1 \in Range(got[6]) \cup Range(buffer["c4"])
        /\ ~done /\ Returned(MergeNodes) =>
            Range(got[6]) = {1, 2} /\ Len(got[6]) = 2 /\ got[7] = <<3>>
    /\ scenario = "ticks" =>
        /\ Ticks!ClosedByTheLast
        /\ IsPrefix(FlattenSeq(got[3]), <<1, 2, 3>>)
        /\ <<>> \notin Range(got[3])
        /\ ~done /\ Returned(TickNodes) => FlattenSeq(got[3]) = <<1, 2, 3>>

AtRest ==
    IF scenario = "pool" THEN PoolAtRest ELSE \A n \in DOMAIN sPc : sPc[n] = "returned"

\* While the consumers read on and nobody closes done, every goroutine of a stream
\* ends: no full buffer, Merge or Split makes the others wait for ever
\* (composer_stream.go); tasks that return or panic are all run while a worker is
\* left, and Stop returns (eventstore_worker.go).  A content that stays in a watched
\* file and is good ends up current and known to the callbacks, unless it came back
\* around a rebuild or could not be read when it was seen, and Stop of the watch returns
\* (config_hotreload.go, config_validation_watcher.go).
FlowsSettle ==
    /\ scenario \in {"chain", "merge", "ticks", "pool"} => <>done \/ <>[]AtRest
    /\ scenario = "hotReload" => Config!PipelineCatchesUp /\ Config!StopReturns
    /\ scenario = "configWatcher" => Config!AppCatchesUp

\* The comment of every primitive: "the goroutine exits when done is closed".
DoneStopsStreams ==
    done ~> (\A n \in DOMAIN sPc : sPc[n] = "returned")
=============================================================================
