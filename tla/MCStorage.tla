----------------------------- MODULE MCStorage -----------------------------
(* Small instances of the stores, one scenario per behaviour: a persistent    *)
(* store whose one stream is written by one client or, with the constants of  *)
(* another run, by two, two goroutines saving files of their own, or one file *)
(* together, two clients racing on two streams in memory, the automatic       *)
(* snapshots of a sharded store, taken by goroutines or by the one client,    *)
(* two runs of a projection, and, on the other back ends, two callers of a    *)
(* key-value table, of the rows of an aggregate and of the records of         *)
(* subscriptions.  Then the files that processes of the command lines share.  *)
(* What a scenario is not about stays idle.                                   *)
EXTENDS PersistentEventStore, TLC

CONSTANTS p1, p2, k1, k2, a1, a2, c1, c2, e1, e2, g1, g2, r1, r2

VARIABLES
    scenario,
    sfile, stmp, spc, scall, sfd, soutcome, sclosed,     \* a backend of its own
    stream, versions, snapshot, since, overdue,          \* automatic snapshots
    cancelled, tPc, read,
    length, checkpoint, rPc, list, start, state, at,     \* a projection
    applied, processed, version,
    kind, table, tClosed, locks, job, calls, alone, before, stable,  \* a back end
    rows, expected, sent, answered, rowSnapshot, held,   \* the PostgreSQL event store
    live, records, saving, deleting, dropped, earlier,   \* the persistent event bus
    windows, latest, exe, backup, download, remaining, runs, wants, writes, accidents,
    stateFile, clock, memory, checking, caches, answer, shown, raced,
    project, unseen, markdown, phase, holds, update, commands, done, mishaps

fileVars == <<sfile, stmp, spc, scall, sfd, soutcome, sclosed>>
diskVars == <<fsVars, op, bootVars, acked>>
snapshotVars == <<stream, versions, snapshot, since, overdue, cancelled, tPc, read>>
projectionVars == <<length, checkpoint, rPc, list, start, state, at, applied, processed,
                    version>>
derivedVars == <<snapshotVars, projectionVars>>
tableVars == <<kind, table, tClosed, locks, job, calls, alone, before, stable>>
rowVars == <<rows, expected, sent, answered, rowSnapshot, held>>
busVars == <<live, records, saving, deleting, dropped, earlier>>
backendVars == <<tableVars, rowVars, busVars>>
upgradeVars == <<windows, latest, exe, backup, download, remaining, runs, wants, writes, accidents>>
checkVars == <<stateFile, clock, memory, checking, caches, answer, shown, raced>>
projectVars == <<project, unseen, markdown, phase, holds, update, commands, done, mishaps>>
commandVars == <<upgradeVars, checkVars, projectVars>>
mcVars == <<scenario, fileVars, pesVars, derivedVars, backendVars, commandVars>>

\* Each goroutine saves a key of its own.
OwnKey == (k1 :> {p1}) @@ (k2 :> {p2})

\* Both save one key.
OneKey == k1 :> {p1, p2}

\* All clients write the one aggregate: one client, and two in the other run.
EveryClient == a1 :> Clients

Memory == INSTANCE EventStore WITH
        Aggregates <- {a1, a2}, Clients <- {c1, c2}, EventIDs <- {e1, e2}, MaxEvents <- 2

Saves == INSTANCE FileStorage WITH
        Procs <- {p1, p2}, Keys <- {k1, k2}, Data <- {"d1", "d2"}, Writers <- OwnKey,
        file <- sfile, tmp <- stmp, pc <- spc, call <- scall, fd <- sfd,
        outcome <- soutcome, closed <- sclosed

Shared == INSTANCE FileStorage WITH
        Procs <- {p1, p2}, Keys <- {k1}, Data <- {"d1", "d2"}, Writers <- OneKey,
        file <- sfile, tmp <- stmp, pc <- spc, call <- scall, fd <- sfd,
        outcome <- soutcome, closed <- sclosed

Async == INSTANCE AutoSnapshot WITH
        Clients <- {c1, c2}, Goroutines <- {g1, g2}, EventIDs <- {e1},
        MaxEventsPerSnapshot <- 2, AsyncSnapshot <- TRUE, MaxEvents <- 4,
        events <- stream, pc <- tPc

Sync == INSTANCE AutoSnapshot WITH
        Clients <- {c1}, Goroutines <- {}, EventIDs <- {e1, e2},
        MaxEventsPerSnapshot <- 2, AsyncSnapshot <- FALSE, MaxEvents <- 4,
        events <- stream, pc <- tPc

Folded == INSTANCE Projection WITH
        Runs <- {r1, r2}, BatchSize <- 2, CheckpointInterval <- 2, MaxEvents <- 3,
        pc <- rPc

Stores == INSTANCE Backends WITH
        Callers <- {p1, p2}, Rows <- {k1, k2}, Absent <- NoFile, MaxCalls <- 2,
        MaxVersion <- 3, SubIDs <- {e1, e2, a1},
        closed <- tClosed, events <- rows, acked <- answered, snapshot <- rowSnapshot

Commands == INSTANCE CommandLine WITH
        Processes <- {p1, p2}, MaxVersion <- 3, Interval <- 2, MaxClock <- 4,
        TaskIDs <- {k1}, MaxUpdates <- 2, EventCap <- 2,
        None <- NoFile, EmptyFile <- Empty, MixedFile <- Torn,
        fd <- writes, todo <- remaining

CommandsInit == Commands!UpgradeInit /\ Commands!CheckInit /\ Commands!ProjectInit

IdleBackends == Stores!KVInit /\ kind = "memory" /\ Stores!PgInit /\ Stores!BusInit

MCInit ==
    /\ \/ scenario \in {"files", "shared", "disk"} /\ PInit
       \/ /\ scenario \in {"memory", "async", "sync", "projection", "table", "rows", "bus",
                          "upgrade", "check", "progress"}
          /\ Memory!Init /\ IdleDisk
    /\ IF scenario = "shared" THEN Shared!Init ELSE Saves!Init
    /\ IF scenario = "sync" THEN Sync!Init ELSE Async!Init
    /\ Folded!Init
    /\ Stores!KVInit /\ Stores!PgInit /\ Stores!BusInit
    /\ scenario # "table" => kind = "memory"
    /\ CommandsInit
    /\ scenario # "upgrade" => ~windows /\ latest = 1
    /\ scenario # "progress" => project = NoFile

In(s) == scenario = s /\ UNCHANGED scenario

SaveFiles ==
    /\ In("files") /\ Saves!Next
    /\ UNCHANGED <<pesVars, derivedVars, backendVars, commandVars>>
ShareFile ==
    /\ In("shared") /\ Shared!Next
    /\ UNCHANGED <<pesVars, derivedVars, backendVars, commandVars>>
AppendInMemory ==
    /\ In("memory") /\ Memory!Next
    /\ UNCHANGED <<fileVars, diskVars, derivedVars, backendVars, commandVars>>
AppendOnDisk ==
    In("disk") /\ PNext /\ UNCHANGED <<fileVars, derivedVars, backendVars, commandVars>>
SnapshotAsync ==
    /\ In("async") /\ Async!Next
    /\ UNCHANGED <<fileVars, pesVars, projectionVars, backendVars, commandVars>>
SnapshotSync ==
    /\ In("sync") /\ Sync!Next
    /\ UNCHANGED <<fileVars, pesVars, projectionVars, backendVars, commandVars>>
Project ==
    /\ In("projection") /\ Folded!Next
    /\ UNCHANGED <<fileVars, pesVars, snapshotVars, backendVars, commandVars>>
UseTable ==
    /\ In("table") /\ Stores!KVNext
    /\ UNCHANGED <<fileVars, pesVars, derivedVars, rowVars, busVars, commandVars>>
UseRows ==
    /\ In("rows") /\ Stores!PgNext
    /\ UNCHANGED <<fileVars, pesVars, derivedVars, tableVars, busVars, commandVars>>
UseBus ==
    /\ In("bus") /\ Stores!BusNext
    /\ UNCHANGED <<fileVars, pesVars, derivedVars, tableVars, rowVars, commandVars>>

AllStores == <<fileVars, pesVars, derivedVars, backendVars>>

Upgrades ==
    In("upgrade") /\ Commands!UpgradeNext /\ UNCHANGED <<AllStores, checkVars, projectVars>>
Checks ==
    In("check") /\ Commands!CheckNext /\ UNCHANGED <<AllStores, upgradeVars, projectVars>>
Tracks ==
    In("progress") /\ Commands!ProjectNext /\ UNCHANGED <<AllStores, upgradeVars, checkVars>>

MCNext ==
    \/ SaveFiles \/ ShareFile \/ AppendInMemory \/ AppendOnDisk
    \/ SnapshotAsync \/ SnapshotSync \/ Project
    \/ UseTable \/ UseRows \/ UseBus
    \/ Upgrades \/ Checks \/ Tracks

MCSpec == MCInit /\ [][MCNext]_mcVars

\* The persistent store alone.
DiskSpec == MCInit /\ scenario = "disk" /\ [][AppendOnDisk]_mcVars

\* Every file, stream, call and restore in progress has its type.
TypesOK ==
    /\ scenario = "files" => Saves!TypeOK
    /\ scenario = "shared" => Shared!TypeOK
    /\ scenario = "memory" => Memory!TypeOK
    /\ scenario = "disk" => PTypeOK
    /\ scenario = "async" => Async!TypeOK
    /\ scenario = "sync" => Sync!TypeOK
    /\ scenario = "projection" => Folded!TypeOK
    /\ scenario = "table" => Stores!KVTypeOK
    /\ scenario = "rows" => Stores!PgTypeOK
    /\ scenario = "upgrade" => Commands!UpgradeTypeOK

\* EventStore's VersionsContiguous and ResumeMissesNothing, in memory and, between
\* restarts, on disk, and the versions of PostgresEventStore's rows, which have no
\* gap; a listing of a back end has every row that was there all the time.
NothingIsMissing ==
    /\ scenario = "memory" => Memory!VersionsContiguous /\ Memory!ResumeMissesNothing
    /\ scenario = "disk" => VersionsContiguous /\ ResumeMissesNothing
    /\ scenario = "rows" => Stores!VersionsHaveNoGap
    /\ scenario = "table" => Stores!ListIsComplete

\* What a call has acknowledged is there: the rows of a SaveBatch, all of them or
\* none; the event that PostgresEventStore's Append has stored; and the record of
\* every subscription.
AnswersAreTrue ==
    /\ scenario = "table" => Stores!BatchesDoNotMix /\ Stores!BatchResultIsTrue
    /\ scenario = "rows" => Stores!AckedEventsStand
    /\ scenario = "bus" => Stores!RecordsMatchBus

\* Streams, rows and listings are whole, and what was answered about them is true, over
\* stale versions, restarts, batches and lost replies (eventstore.go,
\* eventstore_persistent.go, eventstore_postgres.go, storage_redis.go, storage_postgres.go).
StreamsComplete == NothingIsMissing /\ AnswersAreTrue

\* What was written is not undone by another: a Save that fails or dies leaves the
\* document of its one writer as it is, and of several writers never removes it
\* (FileStorage), and of two clients that append on versions they
\* read earlier one is refused (EventStore, PostgresEventStore).
WritesAreKept ==
    /\ [][scenario = "files" =>
            Saves!DocumentsStay /\ \A p \in {p1, p2} : Saves!AllOrNothing(p)]_mcVars
    /\ [][scenario = "shared" => Shared!DocumentsStay]_mcVars
    /\ [][scenario = "memory" => Memory!NoUpdateLost]_mcVars
    /\ [][scenario = "rows" => Stores!AppendsAreSerial]_mcVars

\* What is derived from a stream agrees with it, whatever was concurrent, failed or
\* was resumed: a snapshot has the events up to its version, a tracker of one client
\* counts those behind it, a checkpoint and the result of a projection are those of
\* a full replay (AutoSnapshotTrigger, ExecuteWithCheckpoint), and a PostgreSQL
\* snapshot with the stream behind it has every event, whoever saved it last.
DerivedStateMatches ==
    /\ scenario = "async" => Async!SnapshotMatchesStream
    /\ scenario = "sync" => Sync!SnapshotMatchesStream /\ Sync!NothingUncounted
    /\ scenario = "projection" => Folded!MatchesReplay
    /\ scenario = "rows" => Stores!SnapshotsRehydrate

\* Files that processes share stay usable.  storage_fs.go: two goroutines with keys of
\* their own never leave a half-written file.  arch/upgrade.go: versions are ordered, and
\* an upgrade leaves an executable that runs and is no older, but for copies and renames
\* that are interrupted.
\* cmd/arch-cli/upgrade.go: what a check shows without asking was an answer of less than
\* an interval ago.  cmd/progress: documents make sense, no update is lost unless
\* commands overlap or are killed while they write, and then the Markdown shows it.
SharedFilesHold ==
    /\ scenario = "files" => Saves!NoTornFile
    /\ scenario = "upgrade" =>
        Commands!VersionsAreOrdered /\ Commands!ExecutableRuns /\ Commands!NeverOlder
    /\ scenario = "check" => Commands!ShownIsRecent
    /\ scenario = "progress" =>
        Commands!DocumentsMakeSense /\ Commands!UpdatesStand /\ Commands!MarkdownShows
=============================================================================
