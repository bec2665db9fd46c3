------------------------ MODULE PersistentEventStore ------------------------
(***************************************************************************)
(* PersistentEventStore (go-core/eventstore_persistent.go): an EventStore  *)
(* whose streams and snapshots are also kept as JSON files in a            *)
(* FileStorageBackend, and restored from them by the next process.         *)
(*                                                                         *)
(* Execute is three critical sections: append in memory, list the stream,  *)
(* save the list.  Nothing holds them together, so two Executes on one     *)
(* aggregate interleave between them and inside the Save.                  *)
(***************************************************************************)
EXTENDS EventStore

CONSTANTS
    Owners,              \* Owners[a]: the clients that write aggregate a
    NoFile, Empty, Torn, NoCall

VARIABLES
    file, tmp, pc, call, fd, outcome, closed,  \* the FileStorageBackend
    op,      \* op[c]: the operation client c is in, and its progress
    mode,    \* "up", or "restoring" in NewPersistentEventStore
    todo,    \* files that restore has still to load
    replay,  \* [agg, list]: events of the loaded file still to be replayed
    acked    \* acked[a]: the events of a that Execute has acknowledged

storeVars == <<events, snapshots, seen>>
fsVars == <<file, tmp, pc, call, fd, outcome, closed>>
bootVars == <<mode, todo, replay>>
pesVars == <<storeVars, fsVars, op, bootVars, acked>>

EventFile(a) == [dir |-> "events", agg |-> a]
SnapshotFile(a) == [dir |-> "snapshots", agg |-> a]

Files == [dir : {"events", "snapshots"}, agg : Aggregates]

\* The two kinds of JSON document.
EventList(stream) == [events |-> stream]
SnapshotDoc(version) == [snapshot |-> version]

Documents == [events : Seq(Envelope)] \cup [snapshot : Int]

FS == INSTANCE FileStorage WITH
        Procs <- Clients, Keys <- Files,
        Data <- Documents,
        Writers <- [f \in Files |-> Owners[f.agg]]

ASSUME OwnersAssumption == Owners \in [Aggregates -> SUBSET Clients]

\* What stands for a file without a document, or for no call, is neither.
ASSUME MarkersAssumption ==
    /\ {NoFile, Empty, Torn} \cap Documents = {} /\ NoFile \notin {Empty, Torn}
    /\ NoCall \notin [key : Files, data : Documents]

Idle == [step |-> "idle"]

NoReplay == [agg |-> "none", list |-> <<>>]

\* The backend's files and the calls, before anything is saved.
IdleDisk ==
    /\ FS!Init
    /\ op = [c \in Clients |-> Idle]
    /\ mode = "up"
    /\ todo = {}
    /\ replay = NoReplay
    /\ acked = [a \in Aggregates |-> {}]

PInit == Init /\ IdleDisk

At(c, step) == mode = "up" /\ op[c].step = step

\* Execute 1: the in-memory append; a version conflict returns at once and
\* changes nothing.
ExecuteInMemory(c, a, id, version) ==
    /\ At(c, "idle")
    /\ c \in Owners[a]
    /\ Execute(a, id, version)
    /\ op' = [op EXCEPT ![c] = [step |-> "list", agg |-> a, id |-> id,
                                version |-> LatestVersion(events[a]) + 1]]
    /\ UNCHANGED <<fsVars, bootVars, acked>>

\* Execute 2: the stream as it is now, other clients' events included.
ListAndSave(c) ==
    /\ At(c, "list")
    /\ \/ FS!BeginSave(c, EventFile(op[c].agg),
                        EventList(StreamAll(events[op[c].agg])))
       \/ FS!RejectSave(c)
    /\ op' = [op EXCEPT ![c].step = "save"]
    /\ UNCHANGED <<storeVars, bootVars, acked>>

\* Execute 3, and the Save of SaveSnapshot: the backend's system calls.
SaveProceeds(c) ==
    /\ mode = "up"
    /\ FS!SaveStep(c)
    /\ UNCHANGED <<storeVars, op, bootVars, acked>>

\* The event that c's Execute has appended.
Appended(c) == [id |-> op[c].id, version |-> op[c].version]

\* Mutant: the error of the Save is dropped.
ExecuteIgnoresSaveError(c) ==
    /\ At(c, "save")
    /\ pc[c] = "idle"
    /\ acked' = [acked EXCEPT ![op[c].agg] = @ \cup {Appended(c)}]
    /\ op' = [op EXCEPT ![c] = Idle]
    /\ UNCHANGED <<storeVars, fsVars, bootVars>>

\* Execute returns the result, and the error of the Save if there is one.
ExecuteReturns(c) ==
    /\ At(c, "save")
    /\ pc[c] = "idle"
    /\ acked' = IF outcome[c] = "ok"
                THEN [acked EXCEPT ![op[c].agg] = @ \cup {Appended(c)}]
                ELSE acked
    /\ op' = [op EXCEPT ![c] = Idle]
    /\ UNCHANGED <<storeVars, fsVars, bootVars>>

\* SaveSnapshot: the version the client has taken the state at, in memory
\* first; the error of the Save is dropped.
SnapshotInMemory(c, a) ==
    /\ At(c, "idle")
    /\ c \in Owners[a]
    /\ SaveSnapshot(a, LatestVersion(events[a]))
    /\ op' = [op EXCEPT ![c] = [step |-> "snapshot", agg |-> a,
                                version |-> LatestVersion(events[a])]]
    /\ UNCHANGED <<fsVars, bootVars, acked>>

SnapshotToDisk(c) ==
    /\ At(c, "snapshot")
    /\ \/ FS!BeginSave(c, SnapshotFile(op[c].agg), SnapshotDoc(op[c].version))
       \/ FS!RejectSave(c)
    /\ op' = [op EXCEPT ![c].step = "snapshotSave"]
    /\ UNCHANGED <<storeVars, bootVars, acked>>

SnapshotReturns(c) ==
    /\ At(c, "snapshotSave")
    /\ pc[c] = "idle"
    /\ op' = [op EXCEPT ![c] = Idle]
    /\ UNCHANGED <<storeVars, fsVars, bootVars, acked>>

-----------------------------------------------------------------------------
(* Crash and restore.                                                      *)

\* What List returns: temporary files are listed like any other.
Listed ==
    {[name |-> f, part |-> "file"] : f \in {g \in Files : file[g] # NoFile}} \cup
    {[name |-> f, part |-> "tmp"] : f \in {g \in Files : tmp[g] # NoFile}}

CrashAndRestart ==
    /\ FS!Crash
    /\ events' = [a \in Aggregates |-> <<>>]
    /\ snapshots' = [a \in Aggregates |-> NoSnapshot]
    /\ seen' = [c \in Clients |-> [a \in Aggregates |-> 0]]
    /\ op' = [c \in Clients |-> Idle]
    /\ mode' = "restoring"
    /\ todo' = Listed
    /\ replay' = NoReplay
    /\ UNCHANGED acked

\* Files are visited in lexical order: events before snapshots, and a file
\* before the temporary file whose name extends its own.
ComesBefore(f, g) ==
    \/ f.name.dir = "events" /\ g.name.dir = "snapshots"
    \/ f.name = g.name /\ f.part = "file" /\ g.part = "tmp"

LoadNext(f) ==
    LET content == IF f.part = "file" THEN file[f.name] ELSE tmp[f.name] IN
    /\ mode = "restoring"
    /\ replay = NoReplay
    /\ f \in todo
    /\ \A g \in todo : ~ComesBefore(g, f)
    /\ todo' = todo \ {f}
    /\ \/ /\ content \in {Empty, Torn}      \* skipped as corrupt
          /\ UNCHANGED <<snapshots, replay>>
       \/ /\ content \notin {Empty, Torn}
          /\ f.name.dir = "events"
          /\ replay' = [agg |-> f.name.agg, list |-> content.events]
          /\ UNCHANGED snapshots
       \/ /\ content \notin {Empty, Torn}
          /\ f.name.dir = "snapshots"
          /\ snapshots' = [snapshots EXCEPT ![f.name.agg] = content.snapshot]
          /\ UNCHANGED replay
    /\ UNCHANGED <<events, seen, fsVars, op, mode, acked>>

\* Mutant: the events of a file are appended without the version rule.
ReplayUnchecked ==
    LET a == replay.agg IN
    /\ mode = "restoring"
    /\ replay # NoReplay
    /\ replay' = IF Len(replay.list) = 1 THEN NoReplay
                 ELSE [replay EXCEPT !.list = Tail(@)]
    /\ events' = [events EXCEPT ![a] = Append(@, Head(replay.list))]
    /\ UNCHANGED <<snapshots, seen, fsVars, op, mode, todo, acked>>

\* Each event goes through the in-memory Execute with the version it was stored
\* with; the error of a conflict is ignored.
ReplayEvent ==
    LET a == replay.agg
        e == Head(replay.list)
    IN
    /\ mode = "restoring"
    /\ replay # NoReplay
    /\ replay' = IF Len(replay.list) = 1 THEN NoReplay
                 ELSE [replay EXCEPT !.list = Tail(@)]
    /\ events' = IF Accepts(events[a], e.version)
                 THEN [events EXCEPT ![a] = Extended(@, e.id, e.version)]
                 ELSE events
    /\ UNCHANGED <<snapshots, seen, fsVars, op, mode, todo, acked>>

RestoreReturns ==
    /\ mode = "restoring"
    /\ todo = {}
    /\ replay = NoReplay
    /\ mode' = "up"
    /\ UNCHANGED <<storeVars, fsVars, op, todo, replay, acked>>

PNext ==
    \/ \E c \in Clients :
        \/ \E a \in Aggregates :
            \/ \E id \in EventIDs, version \in 0 .. MaxEvents + 1 :
                  ExecuteInMemory(c, a, id, version)
            \/ SnapshotInMemory(c, a)
        \/ ListAndSave(c)
        \/ SaveProceeds(c)
        \/ ExecuteReturns(c)
        \/ SnapshotToDisk(c)
        \/ SnapshotReturns(c)
    \/ CrashAndRestart
    \/ \E f \in todo : LoadNext(f)
    \/ ReplayEvent
    \/ RestoreReturns

PSpec == PInit /\ [][PNext]_pesVars

-----------------------------------------------------------------------------

PTypeOK ==
    /\ TypeOK
    /\ FS!TypeOK
    /\ mode \in {"up", "restoring"}
    /\ todo \subseteq [name : Files, part : {"file", "tmp"}]
    /\ replay.list \in Seq(Envelope)
    /\ acked \in [Aggregates -> SUBSET Envelope]
    /\ \A c \in Clients : op[c].step \in
            {"idle", "list", "save", "snapshot", "snapshotSave"}

\* No aggregate has two clients that write it.
OneWriterEach == \A a \in Aggregates : \A c, d \in Owners[a] : c = d

\* No file that restore could read is half-written, and a Save's result tells whether
\* its document is in place, whatever fails and wherever the process dies.
NoTornFile == FS!NoTornFile

SaveIsAllOrNothing == [][\A c \in Clients : FS!AllOrNothing(c)]_fsVars

\* An event whose Execute returned success is in the stream, at the version that
\* was returned, in every later process ("synchronous write, consistency").
AcknowledgedIsKept ==
    mode = "up" =>
        \A a \in Aggregates : \A e \in acked[a] :
            e.version \in DOMAIN events[a] /\ events[a][e.version] = e

\* The ids of the stream that restore would rebuild from the files.
Ids(stream) == [i \in DOMAIN stream |-> stream[i].id]

Longest(s, t) == IF Len(t) > Len(s) THEN t ELSE s

Document(content) == IF content \in {NoFile, Empty, Torn} THEN <<>> ELSE content.events

Recoverable(a) ==
    Longest(Document(file[EventFile(a)]), Document(tmp[EventFile(a)]))

\* The refinement mapping: the log is the stream in memory while the process
\* serves, and what the files hold while it restores.
Log == INSTANCE DurableLog WITH
        log <- [a \in Aggregates |->
                    Ids(IF mode = "up" THEN events[a] ELSE Recoverable(a))],
        acked <- [a \in Aggregates |-> {e.version : e \in acked[a]}]

\* The store implements a log that loses nothing acknowledged.
ImplementsDurableLog == Log!Init /\ [][Log!Next]_(Log!vars)
=============================================================================
