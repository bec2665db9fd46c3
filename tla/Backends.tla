------------------------------ MODULE Backends ------------------------------
(***************************************************************************)
(* The storage back ends behind StorageBackend (a map, a PostgreSQL table, *)
(* Redis, files), the PostgreSQL event store and the event bus that        *)
(* records its subscriptions in a back end: go-core/storage_memory.go,     *)
(* storage_postgres.go, storage_redis.go, storage_fs.go,                   *)
(* eventstore_postgres.go and eventbus_persistent.go.                      *)
(*                                                                         *)
(* The database servers are external: one statement or command is atomic,  *)
(* a transaction locks the rows it writes and its writes show at the       *)
(* commit, a pipeline is one command after the other.  A call may fail     *)
(* before the server acts, and its reply may be lost after it has acted.   *)
(* A Save of a file is atomic here: FileStorage has its system calls.      *)
(***************************************************************************)
EXTENDS Integers, Sequences, FiniteSets, SequencesExt

CONSTANTS
    Callers,     \* goroutines that use a back end
    Rows,        \* keys of a back end
    Absent,      \* there is no row
    MaxCalls,    \* bounds the calls of a goroutine on a back end
    MaxVersion,  \* bounds an aggregate's stream
    SubIDs       \* subscription IDs, each generated once

\* MaxVersion and MaxCalls are naturals; Absent is no caller and not "save".

-----------------------------------------------------------------------------
(* A key-value back end *)

VARIABLES
    kind,     \* which StorageBackend it is
    table,    \* table[k]: whose SaveBatch wrote the row last, or "save"
    closed,
    locks,    \* locks[k]: whose transaction has written row k
    job,      \* job[c]: the call c is in, or what its last SaveBatch or List gave
    calls,    \* calls[c]: the calls c has begun
    alone,    \* alone[c]: nobody else has written since c's SaveBatch began
    before,   \* before[c]: the table when c's transaction began
    stable    \* stable[c]: the rows that were there since c's List began

kvVars == <<kind, table, closed, locks, job, calls, alone, before, stable>>

Job(step) == [op |-> step, todo |-> {}, found |-> {}]

Present == {k \in Rows : table[k] # Absent}

KVInit ==
    /\ kind \in {"memory", "postgres", "redis", "file"}
    /\ table = [k \in Rows |-> Absent]
    /\ closed = FALSE
    /\ locks = [k \in Rows |-> Absent]
    /\ job = [c \in Callers |-> Job("idle")]
    /\ calls = [c \in Callers |-> 0]
    /\ alone = [c \in Callers |-> TRUE]
    /\ before = [c \in Callers |-> table]
    /\ stable = [c \in Callers |-> {}]

\* A call checks closed first; one on a database goes on when it is set after that.
Begin(c) ==
    /\ job[c].op \notin {"tx", "pipe", "scan"}
    /\ ~closed
    /\ calls[c] < MaxCalls
    /\ calls' = [calls EXCEPT ![c] = @ + 1]

Becomes(c, next) == job' = [job EXCEPT ![c] = next]

\* What the others' calls know of a write (for the properties).
Wrote(c, gone) ==
    /\ alone' = [q \in Callers |-> q = c /\ alone[c]]
    /\ stable' = [q \in Callers |-> stable[q] \ gone]

\* A call that is no transaction needs no table to compare with.
Forgets(c) == [before EXCEPT ![c] = [k \in Rows |-> Absent]]

RowFree(c, k) == locks[k] \in {Absent, c}

\* Save and Delete: one critical section, statement or command, which waits for the
\* transaction that holds the row.
SaveOrDelete(c, k, value) ==
    /\ Begin(c) /\ RowFree(c, k)
    /\ table' = [table EXCEPT ![k] = value]
    /\ Becomes(c, Job("idle"))
    /\ Wrote(c, IF value = Absent THEN {k} ELSE {})
    /\ before' = Forgets(c)
    /\ UNCHANGED <<kind, closed, locks>>

Save(c, k) == SaveOrDelete(c, k, "save")
Delete(c, k) == SaveOrDelete(c, k, Absent)

\* MemoryStorageBackend.SaveBatch: all rows under one lock.
SaveBatchInMemory(c) ==
    /\ kind = "memory" /\ Begin(c)
    /\ table' = [k \in Rows |-> c]
    /\ Becomes(c, Job("saved"))
    /\ alone' = [q \in Callers |-> q = c]
    /\ UNCHANGED <<kind, closed, locks, before, stable>>

\* SaveBatch of the others opens a transaction, fills a pipeline or begins a loop of
\* Saves, with the rows in the order of a walk over a map: any.
SaveBatch(c) ==
    /\ kind # "memory" /\ Begin(c)
    /\ Becomes(c, [op |-> IF kind = "postgres" THEN "tx" ELSE "pipe", todo |-> Rows, found |-> {}])
    /\ alone' = [alone EXCEPT ![c] = TRUE]
    /\ before' = IF kind = "postgres" THEN [before EXCEPT ![c] = table] ELSE before
    /\ UNCHANGED <<kind, table, closed, locks, stable>>

\* A mutant: the statement goes to the pool, not to the transaction.
ExecOnPool(c, k) ==
    /\ job[c].op = "tx" /\ k \in job[c].todo /\ RowFree(c, k)
    /\ table' = [table EXCEPT ![k] = c]
    /\ job' = [job EXCEPT ![c].todo = @ \ {k}]
    /\ Wrote(c, {})
    /\ UNCHANGED <<kind, closed, locks, calls, before>>

\* An INSERT of the transaction waits for its row, and keeps it.
TxExec(c, k) ==
    /\ job[c].op = "tx" /\ k \in job[c].todo /\ RowFree(c, k)
    /\ locks' = [locks EXCEPT ![k] = c]
    /\ job' = [job EXCEPT ![c].todo = @ \ {k}]
    /\ UNCHANGED <<kind, table, closed, calls, alone, before, stable>>

Unlocked(c) == [k \in Rows |-> IF locks[k] = c THEN Absent ELSE locks[k]]

\* Commit: the rows show together.  Its reply may be lost, which is an error too.
TxCommit(c) ==
    /\ job[c].op = "tx" /\ job[c].todo = {}
    /\ table' = [k \in Rows |-> c]
    /\ locks' = Unlocked(c)
    /\ \E answer \in {"saved", "unknown"} : Becomes(c, Job(answer))
    /\ Wrote(c, {})
    /\ UNCHANGED <<kind, closed, calls, before>>

\* A statement or the commit fails before the server has acted: the error is
\* returned and the deferred Rollback drops what was written.  Of two batches that
\* wait for each other's rows the server ends one in this way.
TxFails(c) ==
    /\ job[c].op = "tx"
    /\ locks' = Unlocked(c)
    /\ Becomes(c, Job("failed"))
    /\ UNCHANGED <<kind, table, closed, calls, alone, before, stable>>

SetRow(c, k) ==
    /\ job[c].op = "pipe" /\ k \in job[c].todo
    /\ table' = [table EXCEPT ![k] = c]
    /\ job' = [job EXCEPT ![c].todo = @ \ {k}]
    /\ Wrote(c, {})
    /\ UNCHANGED <<kind, closed, locks, calls, before>>

\* One SET of the pipeline: other calls run between them.
PipeSet(c, k) == kind = "redis" /\ SetRow(c, k)

\* FileStorageBackend.SaveBatch: one Save after the other, each looks at closed.
SaveNext(c, k) == kind = "file" /\ ~closed /\ SetRow(c, k)

\* A mutant: the error of the pipeline is dropped.
ExecIgnored(c) ==
    /\ job[c].op = "pipe"
    /\ Becomes(c, Job("saved"))
    /\ UNCHANGED <<kind, table, closed, locks, calls, alone, before, stable>>

\* Exec, or the loop, returns nil after all of them and an error after any of them.
PipeEnds(c) ==
    /\ job[c].op = "pipe"
    /\ \/ job[c].todo = {} /\ Becomes(c, Job("saved"))
       \/ Becomes(c, Job("unknown"))
    /\ UNCHANGED <<kind, table, closed, locks, calls, alone, before, stable>>

\* List of a map or of a table: one critical section, one statement.
ListAtOnce(c) ==
    /\ kind \in {"memory", "postgres"} /\ Begin(c)
    /\ Becomes(c, [Job("listed") EXCEPT !.found = Present])
    /\ stable' = [stable EXCEPT ![c] = Present]
    /\ before' = Forgets(c)
    /\ UNCHANGED <<kind, table, closed, locks, alone>>

\* List of the others goes over the rows it has left while other calls run.
BeginScan(c) ==
    /\ kind \in {"redis", "file"} /\ Begin(c)
    /\ Becomes(c, [op |-> "scan", todo |-> Rows, found |-> {}])
    /\ stable' = [stable EXCEPT ![c] = Present]
    /\ UNCHANGED <<kind, table, closed, locks, alone, before>>

LookAt(c, keys) ==
    /\ job[c].op = "scan" /\ keys \subseteq job[c].todo
    /\ job' = [job EXCEPT ![c].todo = @ \ keys, ![c].found = @ \cup (keys \cap Present)]
    /\ UNCHANGED <<kind, table, closed, locks, calls, alone, before, stable>>

\* SCAN answers with a page, which may be empty.
ScanPage(c, page) == kind = "redis" /\ page # {} /\ LookAt(c, page)

\* filepath.Walk comes to the next file.
WalkFile(c, k) == kind = "file" /\ LookAt(c, {k})

\* A mutant: the first page is taken for the whole.
FirstPage(c) == job[c].todo # Rows

\* It ends when the cursor comes back as 0, when the walk has seen every file.
CursorIsZero(c) == job[c].todo = {}

EndScan(c) ==
    /\ job[c].op = "scan" /\ CursorIsZero(c)
    /\ Becomes(c, [job[c] EXCEPT !.op = "listed"])
    /\ UNCHANGED <<kind, table, closed, locks, calls, alone, before, stable>>

\* Close: memory drops its map under the lock; the databases keep theirs.
Close ==
    /\ ~closed
    /\ closed' = TRUE
    /\ table' = IF kind = "memory" THEN [k \in Rows |-> Absent] ELSE table
    /\ UNCHANGED <<kind, locks, job, calls, alone, before, stable>>

\* Every call after Close returns ErrStorageClosed.
Refused == closed /\ UNCHANGED kvVars

KVNext ==
    \/ \E c \in Callers, k \in Rows :
        \/ Save(c, k) \/ Delete(c, k) \/ TxExec(c, k)
        \/ PipeSet(c, k) \/ SaveNext(c, k) \/ WalkFile(c, k)
    \/ \E c \in Callers :
        \/ SaveBatchInMemory(c) \/ SaveBatch(c) \/ TxCommit(c) \/ TxFails(c) \/ PipeEnds(c)
        \/ ListAtOnce(c) \/ BeginScan(c) \/ EndScan(c)
        \/ \E page \in SUBSET Rows : ScanPage(c, page)
    \/ Close \/ Refused

KVSpec == KVInit /\ [][KVNext]_kvVars

KVTypeOK ==
    /\ kind \in {"memory", "postgres", "redis", "file"}
    /\ table \in [Rows -> Callers \cup {"save", Absent}]
    /\ closed \in BOOLEAN
    /\ locks \in [Rows -> Callers \cup {Absent}]
    /\ \A c \in Callers :
        /\ job[c].op \in {"idle", "tx", "pipe", "scan", "saved", "failed", "unknown", "listed"}
        /\ job[c].todo \cup job[c].found \cup stable[c] \subseteq Rows

\* SaveBatch is atomic in memory and in PostgreSQL ("SaveBatch 使用事务保证原子性",
\* storage_postgres.go): rows of two batches never stand side by side.
BatchesDoNotMix ==
    kind \in {"memory", "postgres"} =>
        \A k, l \in Rows : {table[k], table[l]} \subseteq Callers => table[k] = table[l]

\* What a SaveBatch returned is true as long as nobody else wrote meanwhile: after
\* nil its rows are there, after a transaction that failed nothing has changed, and
\* after a commit without an answer it is one of the two.
BatchResultIsTrue ==
    \A c \in Callers :
        LET all == \A k \in Rows : table[k] = c
            nothing == table = before[c]
        IN  alone[c] /\ ~closed =>
                /\ job[c].op = "saved" => all
                /\ job[c].op = "failed" => nothing
                /\ job[c].op = "unknown" /\ kind = "postgres" => all \/ nothing

\* A listing has every row that was there from its beginning to its end.
ListIsComplete ==
    \A c \in Callers : job[c].op = "listed" => stable[c] \subseteq job[c].found

-----------------------------------------------------------------------------
(* PostgresEventStore: one aggregate's rows of lc_events and lc_snapshots. *)

VARIABLES
    events,     \* the set of its rows, each with a version and a caller's event
    expected,   \* expected[c]: the latest version as c has read it, or -1
    sent,       \* sent[c]: the events c has sent
    acked,      \* the rows that Append has told its caller are there
    snapshot,   \* the row of lc_snapshots, or none
    held        \* held[c]: the snapshot that c is about to save

pgVars == <<events, expected, sent, acked, snapshot, held>>

NoSnapshot == [version |-> 0, state |-> {}]

PgInit ==
    /\ events = {}
    /\ expected = [c \in Callers |-> -1]
    /\ sent = [c \in Callers |-> 0]
    /\ acked = {}
    /\ snapshot = NoSnapshot
    /\ held = [c \in Callers |-> NoSnapshot]

\* SELECT COALESCE(MAX(version), 0)
Latest == Max({0} \cup {e.version : e \in events})

GetLatestVersion(c) ==
    /\ expected' = [expected EXCEPT ![c] = Latest]
    /\ UNCHANGED <<events, sent, acked, snapshot, held>>

Row(c, v) == [version |-> v, event |-> <<c, sent[c] + 1>>]

\* A mutant: no PRIMARY KEY (aggregate_id, version).
NoConflict(v) == TRUE

\* isUniqueViolation is the only check of expectedVersion: it is not compared with
\* the latest version.
Unique(v) == \A e \in events : e.version # v

\* Append: inserts version expectedVersion + 1.  The answer may be lost: the caller
\* gets an error that is no conflict, and sends the event again.
AppendEvent(c) ==
    /\ expected[c] # -1 /\ expected[c] < MaxVersion
    /\ LET row == Row(c, expected[c] + 1)
       IN  /\ Unique(row.version)
           /\ events' = events \cup {row}
           /\ \/ /\ acked' = acked \cup {row}
                 /\ sent' = [sent EXCEPT ![c] = @ + 1]
                 /\ expected' = [expected EXCEPT ![c] = row.version]
              \/ UNCHANGED <<acked, sent, expected>>
    /\ UNCHANGED <<snapshot, held>>

\* ErrESVersionConflict: the caller reads the version again.
Conflict(c) ==
    /\ expected[c] # -1 /\ expected[c] < MaxVersion
    /\ ~Unique(expected[c] + 1)
    /\ expected' = [expected EXCEPT ![c] = -1]
    /\ UNCHANGED <<events, sent, acked, snapshot, held>>

UpTo(v) == {e \in events : e.version <= v}

\* A mutant: the events after the snapshot's version are not read.
SnapshotAlone(s) == s.state

\* The state of a snapshot with the events Stream(version + 1) puts on top.
Rehydrated(s) == s.state \cup {e \in events : e.version >= s.version + 1}

\* GetSnapshot and Stream, as one who is about to save a newer snapshot.
TakeSnapshot(c) ==
    /\ Latest > snapshot.version
    /\ held' = [held EXCEPT ![c] = [version |-> Latest, state |-> Rehydrated(snapshot)]]
    /\ UNCHANGED <<events, expected, sent, acked, snapshot>>

\* INSERT ... ON CONFLICT DO UPDATE, whichever version is there.
SaveSnapshot(c) ==
    /\ held[c] # NoSnapshot
    /\ snapshot' = held[c]
    /\ held' = [held EXCEPT ![c] = NoSnapshot]
    /\ UNCHANGED <<events, expected, sent, acked>>

PgNext ==
    \E c \in Callers :
        \/ GetLatestVersion(c) \/ AppendEvent(c) \/ Conflict(c)
        \/ TakeSnapshot(c) \/ SaveSnapshot(c)

PgSpec == PgInit /\ [][PgNext]_pgVars

PgTypeOK ==
    /\ \A e \in events : e.version \in 1..MaxVersion
    /\ \A c \in Callers : expected[c] \in -1..MaxVersion
    /\ snapshot.version \in 0..MaxVersion

\* As long as callers append on versions they have read, the versions are 1, 2, 3,
\* ... without a gap or a double, though Append does not compare expectedVersion
\* with the latest one.
VersionsHaveNoGap ==
    /\ {e.version : e \in events} = 1..Latest
    /\ Cardinality(events) = Latest

\* An event whose Append returned a version is the one that Stream returns at it.
AckedEventsStand ==
    /\ acked \subseteq events
    /\ \A e, f \in acked : e.event = f.event => e = f

\* Nothing is appended on a version that is not the latest.
AppendsAreSerial == events' # events => \A e \in events' \ events : e.version = Latest + 1

\* Snapshots saved out of order replace newer ones, and still GetSnapshot with the
\* Stream behind it gives every event.
SnapshotsRehydrate == Rehydrated(snapshot) = events

-----------------------------------------------------------------------------
(* PersistentEventBus: subscriptions and the records of them *)

VARIABLES
    live,       \* the subscriptions of the bus in this process
    records,    \* the keys under subscriptions/
    saving,     \* subscribed, its record not saved yet
    deleting,   \* unsubscribed, its record not deleted yet
    dropped,    \* the Save or Delete of its record failed, and the error is dropped
    earlier     \* subscriptions of processes that have ended

busVars == <<live, records, saving, deleting, dropped, earlier>>

BusInit ==
    /\ live = {} /\ records = {} /\ saving = {} /\ deleting = {}
    /\ dropped = {} /\ earlier = {}

Subscribe(id) ==
    /\ id \notin live \cup deleting \cup earlier \cup dropped
    /\ live' = live \cup {id}
    /\ saving' = saving \cup {id}
    /\ UNCHANGED <<records, deleting, dropped, earlier>>

\* persistSubscription; the caller learns its ID when it has returned.
PersistSubscription(id) ==
    /\ id \in saving
    /\ saving' = saving \ {id}
    /\ \/ records' = records \cup {id} /\ UNCHANGED dropped
       \/ dropped' = dropped \cup {id} /\ UNCHANGED records
    /\ UNCHANGED <<live, deleting, earlier>>

Unsubscribe(id) ==
    /\ id \in live \ saving
    /\ live' = live \ {id}
    /\ deleting' = deleting \cup {id}
    /\ UNCHANGED <<records, saving, dropped, earlier>>

\* A mutant: the record stays.
KeepRecord(id) ==
    /\ id \in deleting
    /\ deleting' = deleting \ {id}
    /\ UNCHANGED <<live, records, saving, dropped, earlier>>

DeleteRecord(id) ==
    /\ id \in deleting
    /\ deleting' = deleting \ {id}
    /\ \/ records' = records \ {id} /\ UNCHANGED dropped
       \/ dropped' = dropped \cup {id} /\ UNCHANGED records
    /\ UNCHANGED <<live, saving, earlier>>

\* The process ends.  Restoring only lists the records: handlers register anew, with
\* new IDs, and the old records stay.
Restart ==
    /\ earlier' = earlier \cup live \cup deleting
    /\ live' = {} /\ saving' = {} /\ deleting' = {}
    /\ UNCHANGED <<records, dropped>>

BusNext ==
    \/ \E id \in SubIDs :
        \/ Subscribe(id) \/ PersistSubscription(id)
        \/ Unsubscribe(id) \/ DeleteRecord(id)
    \/ Restart

BusSpec == BusInit /\ [][BusNext]_busVars

\* RestoredSubscriptions lists every subscription of the bus whose record was saved,
\* and nothing but those, the ones that earlier processes left, and the ones whose
\* Delete failed.
RecordsMatchBus ==
    /\ live \subseteq records \cup saving \cup dropped
    /\ records \subseteq live \cup deleting \cup dropped \cup earlier
=============================================================================
