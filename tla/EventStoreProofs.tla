-------------------------- MODULE EventStoreProofs --------------------------
(***************************************************************************)
(* Theorems about the event stores of go-core/eventstore.go and            *)
(* eventstore_persistent.go, for any aggregates, events and clients.       *)
(*                                                                         *)
(* EventStore needs no more than its types and that versions have no gaps. *)
(* For PersistentEventStore every aggregate has at most one client that    *)
(* writes it (OneWriterEach: the run Storage_SharedAggregate shows that a  *)
(* second one may overwrite a newer file).  Its invariant, PInv, says that *)
(* each aggregate's file is a prefix of its temporary file and both are    *)
(* prefixes of the stream in memory; that everything acknowledged is in    *)
(* the file; and, while restore runs, that memory is a prefix of what the  *)
(* files hold and misses only what is still to be loaded.                  *)
(*                                                                         *)
(* At the end, Stores are the other back ends (Backends.tla), with an      *)
(* invariant for each of their three parts, Snap the automatic snapshots   *)
(* of a sharded store (AutoSnapshot.tla), and Command the files that the   *)
(* processes of the command lines share (CommandLine.tla): CheckInv for    *)
(* the state of the checks for releases, ProjectInv and ShowInv for the    *)
(* project file and its Markdown.                                          *)
(***************************************************************************)
EXTENDS PersistentEventStore, FiniteSetTheorems, SequenceTheorems,
        WellFoundedInduction, TLAPS

CONSTANTS
    Callers, Rows, Absent, MaxCalls, MaxVersion, SubIDs,   \* of Backends
    Goroutines, MaxEventsPerSnapshot, AsyncSnapshot,       \* of AutoSnapshot
    Processes, MaxRelease, Interval, MaxClock, TaskIDs,    \* of CommandLine
    MaxUpdates, EventCap, NoDocument, EmptyFile, MixedFile

VARIABLES
    kind, table, tableClosed, locks, job, calls, alone, before, stable,
    rows, expected, sent, answered, rowSnapshot, held,
    live, records, saving, deleting, dropped, earlier,
    shard, versions, saved, since, overdue, cancelled, tPc, read,
    windows, latest, exe, backup, download, remaining, runs, wants, writes, accidents,
    stateFile, clock, memory, checking, caches, reply, shown, raced,
    project, unseen, markdown, phase, holds, update, commands, done, mishaps

Stores == INSTANCE Backends WITH
    closed <- tableClosed, events <- rows, acked <- answered, snapshot <- rowSnapshot

Snap == INSTANCE AutoSnapshot WITH events <- shard, snapshot <- saved, pc <- tPc

Command == INSTANCE CommandLine WITH
    MaxVersion <- MaxRelease, None <- NoDocument, todo <- remaining, fd <- writes, answer <- reply

-----------------------------------------------------------------------------
(***************************************************************************)
(* Theorems about EventStore, for any aggregates, events, clients and      *)
(* stream lengths.  The inductive invariant is TypeOK /\ VersionsContiguous *)
(* itself: getLatestVersionLocked, a maximum over the stream, equals the   *)
(* stream's length exactly because the versions are contiguous.            *)
(***************************************************************************)
\* The latest version of a stream without gaps is its length.
LEMMA LatestIsLength ==
    ASSUME NEW stream \in Seq(Envelope), Contiguous(stream)
    PROVE  LatestVersion(stream) = Len(stream)
<1> DEFINE S == {0} \cup {stream[i].version : i \in DOMAIN stream}
<1>1. \A x \in S : x \in Int /\ x <= Len(stream)
  BY DEF Contiguous, Envelope
<1>2. Len(stream) \in S
  <2>1. CASE Len(stream) = 0
    BY <2>1
  <2>2. CASE Len(stream) # 0
    <3>1. Len(stream) \in DOMAIN stream
      BY <2>2
    <3>2. stream[Len(stream)].version = Len(stream)
      BY <3>1 DEF Contiguous
    <3> QED BY <3>1, <3>2
  <2> QED BY <2>1, <2>2
<1>3. \A x \in S : (\A y \in S : x >= y) => x = Len(stream)
  BY <1>1, <1>2
<1>4. \A y \in S : Len(stream) >= y
  BY <1>1
<1>5. Max(S) = Len(stream)
  BY <1>2, <1>3, <1>4 DEF Max
<1> QED BY <1>5 DEF LatestVersion

\* What is appended to a stream, however the event's version was given.
NextEvent(stream, id) == [id |-> id, version |-> Len(stream) + 1]

\* An accepted version and version 0 both append the next event.
LEMMA AppendsNext ==
    ASSUME NEW stream \in Seq(Envelope), Contiguous(stream), NEW id
    PROVE  /\ Extended(stream, id, 0) = Append(stream, NextEvent(stream, id))
           /\ \A version \in Int : Accepts(stream, version) =>
                  Extended(stream, id, version) = Append(stream, NextEvent(stream, id))
BY LatestIsLength DEF Extended, Accepts, Assigned, NextEvent

\* Appending the next event keeps a stream typed and without gaps.
LEMMA NextEventIsContiguous ==
    ASSUME NEW stream \in Seq(Envelope), Contiguous(stream), NEW id \in EventIDs
    PROVE  /\ Append(stream, NextEvent(stream, id)) \in Seq(Envelope)
           /\ Contiguous(Append(stream, NextEvent(stream, id)))
<1>1. NextEvent(stream, id) \in Envelope
  BY DEF NextEvent, Envelope
<1>2. NextEvent(stream, id).version = Len(stream) + 1
  BY DEF NextEvent
<1> QED BY <1>1, <1>2 DEF Contiguous

IInv == TypeOK /\ VersionsContiguous

\* An empty store is typed and its streams have no gaps.
LEMMA InitIInv == Init => IInv
BY DEF Init, IInv, TypeOK, VersionsContiguous, Contiguous, NoSnapshot

\* Both ways of appending do the same to the streams.
AppendsTo(a, id) ==
    events' = [events EXCEPT ![a] = Append(@, NextEvent(@, id))]

\* Execute and Append of eventstore.go, whatever version the event came with,
\* append the next event.
LEMMA AppendStep ==
    ASSUME IInv, NEW a \in Aggregates, NEW id \in EventIDs
    PROVE  /\ \A v \in Int : Execute(a, id, v) => AppendsTo(a, id)
           /\ \A c \in Clients : AppendExpected(c, a, id) => AppendsTo(a, id)
<1>1. events[a] \in Seq(Envelope) /\ Contiguous(events[a])
  BY DEF IInv, TypeOK, VersionsContiguous
<1> QED BY <1>1, AppendsNext DEF Execute, AppendExpected, AppendsTo

\* Appending the next event to a stream keeps the invariant.
LEMMA AppendKeepsIInv ==
    ASSUME IInv, NEW a \in Aggregates, NEW id \in EventIDs, AppendsTo(a, id),
           UNCHANGED <<snapshots, seen>>
    PROVE  IInv'
<1> USE DEF IInv, TypeOK, VersionsContiguous
<1> DEFINE stream == Append(events[a], NextEvent(events[a], id))
<1>1. stream \in Seq(Envelope) /\ Contiguous(stream)
  BY NextEventIsContiguous
<1>2. events' = [events EXCEPT ![a] = stream]
  BY DEF AppendsTo
<1> HIDE DEF stream
<1> QED BY <1>1, <1>2

\* So does every step of the in-memory store.
LEMMA NextIInv == IInv /\ [Next]_vars => IInv'
<1> SUFFICES ASSUME IInv, [Next]_vars PROVE IInv'
  OBVIOUS
<1> USE DEF IInv, TypeOK, VersionsContiguous
<1>1. ASSUME NEW a \in Aggregates, NEW id \in EventIDs, NEW v \in -1 .. MaxEvents + 1,
             Execute(a, id, v)
      PROVE  IInv'
  <2>1. AppendsTo(a, id)
    BY <1>1, AppendStep
  <2> QED BY <1>1, <2>1, AppendKeepsIInv DEF Execute
<1>2. ASSUME NEW a \in Aggregates, NEW v \in 0 .. MaxEvents, SaveSnapshot(a, v)
      PROVE  IInv'
  BY <1>2 DEF SaveSnapshot
<1>3. ASSUME NEW a \in Aggregates, NEW c \in Clients, GetLatestVersion(c, a)
      PROVE  IInv'
  <2>1. LatestVersion(events[a]) \in Nat
    BY LatestIsLength
  <2> QED BY <1>3, <2>1 DEF GetLatestVersion
<1>4. ASSUME NEW a \in Aggregates, NEW c \in Clients, NEW id \in EventIDs,
             AppendExpected(c, a, id)
      PROVE  IInv'
  BY <1>4, AppendStep, AppendKeepsIInv DEF AppendExpected
<1>5. CASE UNCHANGED vars
  BY <1>5 DEF vars
<1> QED BY <1>1, <1>2, <1>3, <1>4, <1>5 DEF Next

\* The versions of every stream are 1, 2, 3, ... in every reachable state of
\* the store, for any number of clients and any interleaving of their calls.
THEOREM StoreIsContiguous == Spec => [](TypeOK /\ VersionsContiguous)
BY InitIInv, NextIInv, PTL DEF Spec, IInv

\* Optimistic concurrency control: an append on an expected version is granted
\* only on a stream that has not changed since the client read that version.
THEOREM AppendsLoseNoUpdate == Spec => NoLostUpdate
<1>1. IInv => NoUpdateLost
  <2> SUFFICES ASSUME IInv, NEW c \in Clients, NEW a \in Aggregates, NEW id \in EventIDs,
                      AppendExpected(c, a, id)
               PROVE  Len(events'[a]) = seen[c][a] + 1
    BY DEF NoUpdateLost
  <2> USE DEF IInv, TypeOK, VersionsContiguous
  <2>1. LatestVersion(events[a]) = Len(events[a])
    BY LatestIsLength
  <2>2. AppendsTo(a, id)
    BY AppendStep
  <2> QED BY <2>1, <2>2 DEF AppendExpected, AppendsTo
<1> QED BY <1>1, InitIInv, NextIInv, PTL DEF Spec, NoLostUpdate

\* Streams are append-only.
THEOREM StreamsAppendOnly == Spec => StreamsOnlyGrow
<1>1. IInv /\ [Next]_vars =>
        [\A a \in Aggregates : IsPrefix(events[a], events'[a])]_vars
  <2> SUFFICES ASSUME IInv, Next, NEW a \in Aggregates
               PROVE  IsPrefix(events[a], events'[a])
    OBVIOUS
  <2> USE DEF IInv, TypeOK, VersionsContiguous
  <2>1. events' = events \/ \E b \in Aggregates, id \in EventIDs : AppendsTo(b, id)
    BY AppendStep DEF Next, SaveSnapshot, GetLatestVersion
  <2>2. \/ events'[a] = events[a]
        \/ \E e : events'[a] = Append(events[a], e)
    BY <2>1 DEF AppendsTo
  <2>3. events[a] \in Seq(Envelope)
    OBVIOUS
  <2> QED BY <2>2, <2>3 DEF IsPrefix
<1> QED BY <1>1, InitIInv, NextIInv, PTL DEF Spec, StreamsOnlyGrow

-----------------------------------------------------------------------------

\* StreamAll sorts a stream by version; a stream without gaps is sorted already,
\* so what ListAndSave writes is the stream itself.
LEMMA SortedAlready ==
    ASSUME NEW stream \in Seq(Envelope), Contiguous(stream)
    PROVE  StreamAll(stream) = stream
<1> DEFINE n == Len(stream)
           D == DOMAIN stream
           Sorts(p) == /\ p \in Bijection(D, D)
                       /\ \A i, j \in D : i < j => stream[p[i]].version <= stream[p[j]].version
           order == CHOOSE p \in Bijection(D, D) :
                \A i, j \in D : i < j => stream[p[i]].version <= stream[p[j]].version
<1>1. n \in Nat /\ D = 1 .. n
  OBVIOUS
<1>2. Sorts([i \in D |-> i])
  <2>1. [i \in D |-> i] \in Bijection(D, D)
    BY DEF Bijection, Injection, Surjection, IsInjective
  <2> QED
    BY <1>1, <2>1 DEF Contiguous
<1>3. Sorts(order)
  <2> HIDE DEF D
  <2> QED
    BY <1>2
<1>4. \A i, j \in D : order[i] \in D /\ (i < j => order[i] < order[j])
  <2>1. order \in [D -> D] /\ \A i, j \in D : order[i] = order[j] => i = j
    BY <1>3 DEF Bijection, Injection, IsInjective
  <2> HIDE DEF order
  <2>2. \A i, j \in D : i < j => order[i] <= order[j]
    BY <1>3, <2>1 DEF Contiguous
  <2> QED
    BY <1>1, <2>1, <2>2
<1> HIDE DEF order
<1>5. ASSUME NEW i \in D PROVE order[i] = i
  <2> DEFINE below == [j \in 1 .. i |-> order[j]]
             above == [j \in i .. n |-> order[j]]
             o == order[i]
  <2>1. o \in 1 .. n /\ i \in 1 .. n
    BY <1>1, <1>4
  <2>2. below \in Injection(1 .. i, 1 .. o)
    <3>1. \A j \in 1 .. i : order[j] \in 1 .. o
      BY <1>1, <1>4
    <3>2. \A j, k \in 1 .. i : order[j] = order[k] => j = k
      BY <1>1, <1>4
    <3> QED
      BY <3>1, <3>2 DEF Injection, IsInjective
  <2>3. above \in Injection(i .. n, o .. n)
    <3>1. \A j \in i .. n : order[j] \in o .. n
      BY <1>1, <1>4
    <3>2. \A j, k \in i .. n : order[j] = order[k] => j = k
      BY <1>1, <1>4
    <3> QED
      BY <3>1, <3>2 DEF Injection, IsInjective
  <2> HIDE DEF below, above, o
  <2>4. i <= o
    <3>1. /\ Cardinality(1 .. i) = i /\ Cardinality(1 .. o) = o
          /\ IsFiniteSet(1 .. o)
      BY <2>1, FS_Interval
    <3> QED
      BY <2>2, <3>1, FS_Injection
  <2>5. o <= i
    <3>1. /\ Cardinality(i .. n) = n - i + 1 /\ Cardinality(o .. n) = n - o + 1
          /\ IsFiniteSet(o .. n)
      BY <1>1, <2>1, FS_Interval
    <3>2. n - i + 1 <= n - o + 1
      BY <2>3, <3>1, FS_Injection
    <3> QED
      BY <1>1, <2>1, <3>2
  <2> QED
    BY <2>1, <2>4, <2>5 DEF o
<1>6. StreamAll(stream) = [i \in D |-> stream[order[i]]]
  BY DEF StreamAll, order
<1> QED
  BY <1>5, <1>6

-----------------------------------------------------------------------------

\* What the operation of a client consists of, by its step.
Ops ==
    [step : {"idle"}]
    \cup [step : {"list", "save"}, agg : Aggregates, id : EventIDs, version : Int]
    \cup [step : {"snapshot", "snapshotSave"}, agg : Aggregates, version : Int]

\* The types of the variables that neither EventStore nor FileStorage types.
Types ==
    /\ op \in [Clients -> Ops]
    /\ mode \in {"up", "restoring"}
    /\ todo \subseteq [name : Files, part : {"file", "tmp"}]
    /\ replay.list \in Seq(Envelope)
    /\ acked \in [Aggregates -> SUBSET Envelope]

\* s is a prefix of t.
Begins(s, t) == Len(s) <= Len(t) /\ \A i \in DOMAIN s : s[i] = t[i]

\* A document of events/: a non-empty list without gaps, starting at version 1.
IsList(doc) ==
    doc \in [events : Seq(Envelope)] /\ Contiguous(doc.events) /\ doc.events # <<>>

\* The events in the file of a, and in its temporary file.
Saved(a) == Document(file[EventFile(a)])

Pending(a) == Document(tmp[EventFile(a)])

\* The files of a: the file is absent or a list, the temporary file is absent,
\* half-written, or a list that extends it, and everything acknowledged is in the
\* file.
FilesAgree(a) ==
    /\ file[EventFile(a)] = NoFile \/ IsList(file[EventFile(a)])
    /\ tmp[EventFile(a)] \in {NoFile, Empty, Torn} \/ IsList(tmp[EventFile(a)])
    /\ Pending(a) = <<>> \/ Begins(Saved(a), Pending(a))
    /\ \A e \in acked[a] : e.version \in DOMAIN Saved(a) /\ Saved(a)[e.version] = e
    /\ file[SnapshotFile(a)] \in [snapshot : Int] \cup {NoFile}
    /\ tmp[SnapshotFile(a)] \in [snapshot : Int] \cup {NoFile, Empty, Torn}

\* While the process serves, both files are prefixes of the stream in memory.
MemoryAgrees(a) == Begins(Saved(a), events[a]) /\ Begins(Pending(a), events[a])

\* Where the call of c is: the event it appended stays at its version, the list
\* it saves lies between the file and the stream, and a Save that returned
\* without an error has put the event into the file.
Calling(c) ==
    LET a == op[c].agg
        doc == call[c].data
    IN
    /\ op[c].step \in {"idle", "list", "snapshot"} => pc[c] = "idle"
    /\ op[c].step # "idle" => mode = "up" /\ c \in Owners[a]
    /\ op[c].step \in {"list", "save"} =>
          op[c].version \in DOMAIN events[a] /\ events[a][op[c].version] = Appended(c)
    /\ op[c].step = "save" /\ pc[c] # "idle" =>
          /\ call[c].key = EventFile(a)
          /\ IsList(doc) /\ Begins(Saved(a), doc.events) /\ Begins(doc.events, events[a])
          /\ op[c].version \in DOMAIN doc.events
    /\ op[c].step = "save" /\ pc[c] = "idle" /\ outcome[c] = "ok" =>
          op[c].version \in DOMAIN Saved(a)
    /\ op[c].step = "snapshotSave" /\ pc[c] # "idle" =>
          call[c].key = SnapshotFile(a) /\ doc \in [snapshot : Int]

\* The content of a listed file.
Contents(f) == IF f.part = "file" THEN file[f.name] ELSE tmp[f.name]

Part(a, part) == [name |-> EventFile(a), part |-> part]

\* How many events of the list in replay have been replayed or skipped.
Replayed == replay.list[1].version - 1

\* The list in replay is what the files can restore, from the version it stands
\* at.
Replays ==
    /\ replay.agg \in Aggregates
    /\ replay.list # <<>>
    /\ Replayed <= Len(events[replay.agg])
    /\ \A i \in DOMAIN replay.list :
        /\ Replayed + i \in DOMAIN Recoverable(replay.agg)
        /\ replay.list[i] = Recoverable(replay.agg)[Replayed + i]

\* The part of a's files that is loaded already is in memory, or in replay.
Restored(a, part) ==
    LET doc == Document(Contents(Part(a, part))) IN
    \/ Len(doc) <= Len(events[a])
    \/ replay # NoReplay /\ replay.agg = a /\ Len(doc) <= Replayed + Len(replay.list)

\* While restore runs, memory is a prefix of what the files hold, and holds all
\* of what has been loaded.
Restores ==
    /\ \A a \in Aggregates : Begins(events[a], Recoverable(a))
    /\ \A f \in todo : Contents(f) # NoFile
    /\ replay # NoReplay => Replays
    /\ \A a \in Aggregates, part \in {"file", "tmp"} : Part(a, part) \notin todo => Restored(a, part)

\* Files, memory, calls and restore agree.
Agreement ==
    /\ \A a \in Aggregates : FilesAgree(a)
    /\ mode = "up" => \A a \in Aggregates : MemoryAgrees(a)
    /\ \A c \in Clients : Calling(c)
    /\ mode = "restoring" => Restores

\* The inductive invariant: the one of the in-memory store, the one of the
\* backend, the types, and their agreement.
PInv == IInv /\ FS!IInv /\ Types /\ Agreement

\* A prefix of a prefix is a prefix.
LEMMA BeginsIsTransitive ==
    ASSUME NEW s \in Seq(Envelope), NEW t \in Seq(Envelope), NEW u \in Seq(Envelope),
           Begins(s, t), Begins(t, u)
    PROVE  Begins(s, u)
<1>1. \A i \in DOMAIN s : i \in DOMAIN t /\ s[i] = t[i]
  BY DEF Begins
<1>2. \A i \in DOMAIN t : i \in DOMAIN u /\ t[i] = u[i]
  BY DEF Begins
<1> QED
  BY <1>1, <1>2 DEF Begins

\* A prefix stays one when the longer sequence grows.
LEMMA BeginsAppended ==
    ASSUME NEW s \in Seq(Envelope), NEW t \in Seq(Envelope), NEW e \in Envelope, Begins(s, t)
    PROVE  Begins(s, Append(t, e))
  BY DEF Begins

\* Event and snapshot files have names of their own, from which the aggregate can
\* be told.
LEMMA FileNames ==
    ASSUME NEW a \in Aggregates, NEW b \in Aggregates
    PROVE  /\ EventFile(a) \in Files /\ SnapshotFile(a) \in Files
           /\ EventFile(a) = EventFile(b) => a = b
           /\ SnapshotFile(a) = SnapshotFile(b) => a = b
           /\ EventFile(a) # SnapshotFile(b)
           /\ EventFile(a).agg = a /\ SnapshotFile(a).agg = a
  BY DEF EventFile, SnapshotFile, Files

\* A list of events is a document, and none of the markers.
LEMMA ListIsDocument ==
    ASSUME NEW doc, IsList(doc)
    PROVE  /\ doc \in Documents /\ doc \notin {NoFile, Empty, Torn}
           /\ Document(doc) = doc.events
           /\ doc.events \in Seq(Envelope) /\ Contiguous(doc.events)
<1>1. doc \in Documents
  BY DEF IsList, Documents
<1>2. doc \notin {NoFile, Empty, Torn}
  BY <1>1, MarkersAssumption
<1> QED
  BY <1>1, <1>2 DEF IsList, Document

\* Restore reads no event from an absent, empty or half-written file.
LEMMA MarkersAreEmpty == \A m \in {NoFile, Empty, Torn} : Document(m) = <<>>
  BY DEF Document

\* What the two files of an aggregate hold is a typed list without gaps.
LEMMA FilesAreLists ==
    ASSUME NEW a \in Aggregates, FilesAgree(a)
    PROVE  /\ Saved(a) \in Seq(Envelope) /\ Contiguous(Saved(a))
           /\ Pending(a) \in Seq(Envelope) /\ Contiguous(Pending(a))
<1>1. <<>> \in Seq(Envelope) /\ Contiguous(<<>>)
  BY DEF Contiguous
<1>2. ASSUME NEW doc, doc \in {NoFile, Empty, Torn} \/ IsList(doc)
      PROVE  Document(doc) \in Seq(Envelope) /\ Contiguous(Document(doc))
  <2>1. CASE doc \in {NoFile, Empty, Torn}
    BY <1>1, <2>1, MarkersAreEmpty
  <2>2. CASE IsList(doc)
    BY <2>2, ListIsDocument
  <2> QED
    BY <1>2, <2>1, <2>2
<1> QED
  BY <1>2 DEF FilesAgree, Saved, Pending

\* What restore can rebuild is the longer of the two, and extends both.
LEMMA RecoverableIsLonger ==
    ASSUME NEW a \in Aggregates, FilesAgree(a)
    PROVE  /\ Recoverable(a) \in Seq(Envelope) /\ Contiguous(Recoverable(a))
           /\ Recoverable(a) \in {Saved(a), Pending(a)}
           /\ Begins(Saved(a), Recoverable(a)) /\ Begins(Pending(a), Recoverable(a))
<1>1. /\ Saved(a) \in Seq(Envelope) /\ Contiguous(Saved(a))
      /\ Pending(a) \in Seq(Envelope) /\ Contiguous(Pending(a))
  BY FilesAreLists
<1>2. Pending(a) = <<>> \/ Begins(Saved(a), Pending(a))
  BY DEF FilesAgree
<1>3. Recoverable(a) = IF Len(Pending(a)) > Len(Saved(a)) THEN Pending(a) ELSE Saved(a)
  BY DEF Recoverable, Longest, Saved, Pending
<1> HIDE DEF Recoverable, Saved, Pending
<1>4. \A s \in Seq(Envelope) : Begins(s, s) /\ Begins(<<>>, s)
  BY DEF Begins
<1>5. CASE Len(Pending(a)) > Len(Saved(a))
  <2>1. Pending(a) # <<>>
    BY <1>1, <1>5
  <2> QED
    BY <1>1, <1>2, <1>3, <1>4, <1>5, <2>1
<1>6. CASE ~(Len(Pending(a)) > Len(Saved(a)))
  <2>1. Recoverable(a) = Saved(a)
    BY <1>3, <1>6
  <2>2. Begins(Pending(a), Saved(a))
    <3>1. CASE Pending(a) = <<>>
      BY <1>1, <1>4, <3>1
    <3>2. CASE Begins(Saved(a), Pending(a))
      <4>1. Len(Pending(a)) = Len(Saved(a))
        BY <1>1, <1>6, <3>2 DEF Begins
      <4> QED
        BY <1>1, <3>2, <4>1 DEF Begins
    <3> QED
      BY <1>2, <3>1, <3>2
  <2> QED
    BY <1>1, <1>4, <2>1, <2>2
<1> QED
  BY <1>5, <1>6

\* The backend that the store uses has a single writer of every file.
LEMMA BackendOwners ==
    ASSUME OneWriterEach
    PROVE  /\ [f \in Files |-> Owners[f.agg]] \in [Files -> SUBSET Clients]
           /\ FS!SingleWriter
  BY OwnersAssumption DEF OneWriterEach, FS!SingleWriter, Files

\* The backend's own invariant, proved in FileStorage, for the files of the
\* store.
LEMMA BackendKept ==
    ASSUME OneWriterEach
    PROVE  /\ FS!Init => FS!IInv
           /\ FS!IInv /\ [FS!Next]_(FS!vars) => FS!IInv'
<1>1. FS!SingleWriter /\ FS!CallsAreDistinct
  BY BackendOwners, MarkersAssumption DEF FS!CallsAreDistinct
<1>2. FS!Init => FS!IInv
  BY FS!InitIInv
<1>3. FS!IInv /\ [FS!Next]_(FS!vars) => FS!IInv'
  BY <1>1, FS!NextIInv
<1> QED
  BY <1>2, <1>3

\* Every step of the store is a step of the backend, or leaves it alone.
LEMMA BackendStep ==
    ASSUME PInv, [PNext]_pesVars
    PROVE  [FS!Next]_(FS!vars)
<1> USE DEF FS!vars, fsVars
<1>1. ASSUME NEW c \in Clients, ListAndSave(c)
      PROVE  FS!Next
  <2>1. op[c].agg \in Aggregates
    BY <1>1 DEF ListAndSave, At, PInv, Agreement, Types, Ops
  <2>2. EventFile(op[c].agg) \in Files
    BY <2>1, FileNames
  <2>3. EventList(StreamAll(events[op[c].agg])) \in Documents
    BY <2>1, SortedAlready DEF PInv, Agreement, IInv, TypeOK, VersionsContiguous, EventList, Documents
  <2> QED
    BY <1>1, <2>2, <2>3 DEF ListAndSave, FS!Next
<1>2. ASSUME NEW c \in Clients, SnapshotToDisk(c)
      PROVE  FS!Next
  <2>1. op[c].agg \in Aggregates /\ op[c].version \in Int
    BY <1>2 DEF SnapshotToDisk, At, PInv, Agreement, Types, Ops
  <2>2. SnapshotFile(op[c].agg) \in Files
    BY <2>1, FileNames
  <2>3. SnapshotDoc(op[c].version) \in Documents
    BY <2>1 DEF SnapshotDoc, Documents
  <2> QED
    BY <1>2, <2>2, <2>3 DEF SnapshotToDisk, FS!Next
<1>3. ASSUME NEW c \in Clients, SaveProceeds(c)
      PROVE  FS!Next
  BY <1>3 DEF SaveProceeds, FS!SaveStep, FS!Next
<1>4. CASE CrashAndRestart
  BY <1>4 DEF CrashAndRestart, FS!Next
<1>5. ASSUME NEW c \in Clients, NEW a \in Aggregates,
             \/ \E id \in EventIDs, version \in 0 .. MaxEvents + 1 :
                    ExecuteInMemory(c, a, id, version)
             \/ SnapshotInMemory(c, a)
             \/ ExecuteReturns(c) \/ SnapshotReturns(c)
      PROVE  UNCHANGED fsVars
  BY <1>5 DEF ExecuteInMemory, SnapshotInMemory, ExecuteReturns, SnapshotReturns
<1>6. ASSUME NEW c \in Clients, ExecuteReturns(c) \/ SnapshotReturns(c)
      PROVE  UNCHANGED fsVars
  BY <1>6 DEF ExecuteReturns, SnapshotReturns
<1>7. ASSUME \/ \E f \in todo : LoadNext(f)
             \/ ReplayEvent
             \/ RestoreReturns
             \/ UNCHANGED pesVars
      PROVE  UNCHANGED fsVars
  BY <1>7 DEF LoadNext, ReplayEvent, RestoreReturns, pesVars
<1> QED
  BY <1>1, <1>2, <1>3, <1>4, <1>5, <1>6, <1>7 DEF PNext

\* One event of a file that is replayed.
LEMMA ReplayedEvent ==
    ASSUME PInv, ReplayEvent
    PROVE  LET a == replay.agg
               e == Head(replay.list)
           IN  /\ a \in Aggregates /\ e \in Envelope /\ e.version \in Nat \ {0}
               /\ e.version \in DOMAIN Recoverable(a) /\ e = Recoverable(a)[e.version]
               /\ e.version <= Len(events[a]) + 1
               /\ IF e.version = Len(events[a]) + 1
                  THEN events' = [events EXCEPT ![a] = Append(events[a], e)]
                  ELSE events' = events
<1> DEFINE a == replay.agg
           e == Head(replay.list)
<1>1. mode = "restoring" /\ Restores /\ Replays
  BY DEF ReplayEvent, PInv, Agreement, Restores
<1>2. a \in Aggregates /\ replay.list \in Seq(Envelope) /\ replay.list # <<>>
  BY <1>1 DEF Replays, PInv, Agreement, Types
<1>3. e \in Envelope /\ e = replay.list[1] /\ 1 \in DOMAIN replay.list
  BY <1>2
<1>4. e.version \in Int /\ e = [id |-> e.id, version |-> e.version] /\ e.id \in EventIDs
  BY <1>3 DEF Envelope
<1>5. Replayed = e.version - 1 /\ Replayed + 1 = e.version
  BY <1>3, <1>4 DEF Replayed
<1>6. e.version \in DOMAIN Recoverable(a) /\ e = Recoverable(a)[e.version]
  BY <1>1, <1>3, <1>5 DEF Replays
<1>7. events[a] \in Seq(Envelope) /\ Contiguous(events[a])
  BY <1>2 DEF PInv, Agreement, IInv, TypeOK, VersionsContiguous
<1>8. e.version <= Len(events[a]) + 1
  BY <1>1, <1>4, <1>5, <1>7 DEF Replays
<1>9. e.version \in Nat \ {0}
  BY <1>2, <1>6, RecoverableIsLonger DEF PInv, Agreement
<1>10. LatestVersion(events[a]) = Len(events[a])
  BY <1>7, LatestIsLength
<1>11. Assigned(events[a], e.version) = e.version
  BY <1>9 DEF Assigned
<1>12. Extended(events[a], e.id, e.version) = Append(events[a], e)
  BY <1>4, <1>11 DEF Extended
<1>13. events' = IF e.version = Len(events[a]) + 1
                 THEN [events EXCEPT ![a] = Extended(@, e.id, e.version)]
                 ELSE events
  BY <1>10, <1>11 DEF ReplayEvent, Accepts
<1> QED
  BY <1>2, <1>3, <1>6, <1>8, <1>9, <1>12, <1>13

\* Every step of the persistent store, restore included, keeps the streams typed
\* and without gaps.
LEMMA StreamsKept ==
    ASSUME PInv, [PNext]_pesVars
    PROVE  IInv'
<1> USE DEF IInv
<1>0. IInv
  BY DEF PInv, Agreement
<1>1. ASSUME NEW c \in Clients, NEW a \in Aggregates, NEW id \in EventIDs,
             NEW v \in 0 .. MaxEvents + 1, ExecuteInMemory(c, a, id, v)
      PROVE  IInv'
  <2>1. Execute(a, id, v)
    BY <1>1 DEF ExecuteInMemory
  <2>2. AppendsTo(a, id) /\ UNCHANGED <<snapshots, seen>>
    <3>1. v \in Int
      OBVIOUS
    <3> QED
      BY <1>0, <2>1, <3>1, AppendStep DEF Execute
  <2> QED
    BY <1>0, <2>2, AppendKeepsIInv
<1>2. ASSUME NEW c \in Clients, NEW a \in Aggregates, SnapshotInMemory(c, a)
      PROVE  IInv'
  <2>1. LatestVersion(events[a]) \in Nat
    BY <1>0, LatestIsLength DEF TypeOK, VersionsContiguous
  <2> QED
    BY <1>0, <1>2, <2>1 DEF SnapshotInMemory, SaveSnapshot, TypeOK, VersionsContiguous
<1>3. CASE UNCHANGED storeVars
  BY <1>0, <1>3 DEF storeVars, TypeOK, VersionsContiguous
<1>4. CASE CrashAndRestart
  BY <1>4 DEF CrashAndRestart, TypeOK, VersionsContiguous, Contiguous, NoSnapshot
<1>5. ASSUME NEW f \in todo, LoadNext(f)
      PROVE  IInv'
  <2>1. f.name \in Files /\ Contents(f) # NoFile /\ f.part \in {"file", "tmp"}
    BY <1>5 DEF LoadNext, PInv, Agreement, Types, Restores
  <2>2. UNCHANGED <<events, seen>>
    BY <1>5 DEF LoadNext
  <2>3. snapshots' \in [Aggregates -> Int]
    <3>1. CASE UNCHANGED snapshots
      BY <1>0, <3>1 DEF TypeOK
    <3>2. CASE /\ Contents(f) \notin {Empty, Torn}
               /\ f.name.dir = "snapshots"
               /\ snapshots' = [snapshots EXCEPT ![f.name.agg] = Contents(f).snapshot]
      <4>1. f.name.agg \in Aggregates /\ f.name = SnapshotFile(f.name.agg)
        BY <2>1, <3>2 DEF Files, SnapshotFile
      <4>2. Contents(f) \in [snapshot : Int]
        BY <2>1, <3>2, <4>1 DEF PInv, Agreement, FilesAgree, Contents
      <4> QED
        BY <1>0, <3>2, <4>2 DEF TypeOK
    <3> QED
      BY <1>5, <3>1, <3>2 DEF LoadNext, Contents
  <2> QED
    BY <1>0, <2>2, <2>3 DEF TypeOK, VersionsContiguous
<1>6. CASE ReplayEvent
  <2> DEFINE a == replay.agg
             e == Head(replay.list)
  <2>1. /\ a \in Aggregates /\ e \in Envelope /\ e.version \in Nat \ {0}
        /\ IF e.version = Len(events[a]) + 1
           THEN events' = [events EXCEPT ![a] = Append(events[a], e)]
           ELSE events' = events
    BY <1>6, ReplayedEvent
  <2>2. UNCHANGED <<snapshots, seen>>
    BY <1>6 DEF ReplayEvent
  <2>3. events[a] \in Seq(Envelope) /\ Contiguous(events[a])
    BY <1>0, <2>1 DEF TypeOK, VersionsContiguous
  <2> HIDE DEF a, e
  <2>4. CASE events' = [events EXCEPT ![a] = Append(events[a], e)]
             /\ e.version = Len(events[a]) + 1
    <3>1. Append(events[a], e) \in Seq(Envelope) /\ Contiguous(Append(events[a], e))
      BY <2>1, <2>3, <2>4 DEF Contiguous
    <3> QED
      BY <1>0, <2>1, <2>2, <2>4, <3>1 DEF TypeOK, VersionsContiguous
  <2>5. CASE events' = events
    BY <1>0, <2>2, <2>5 DEF TypeOK, VersionsContiguous
  <2> QED
    BY <2>1, <2>4, <2>5
<1>7. ASSUME NEW c \in Clients,
             \/ ListAndSave(c) \/ SaveProceeds(c) \/ ExecuteReturns(c)
             \/ SnapshotToDisk(c) \/ SnapshotReturns(c)
      PROVE  UNCHANGED storeVars
  BY <1>7 DEF ListAndSave, SaveProceeds, ExecuteReturns, SnapshotToDisk, SnapshotReturns
<1>8. CASE RestoreReturns \/ UNCHANGED pesVars
  BY <1>3, <1>8 DEF RestoreReturns, pesVars
<1> QED
  BY <1>1, <1>2, <1>3, <1>4, <1>5, <1>6, <1>7, <1>8 DEF PNext

\* Every step keeps the types of the calls, the files to load, the replay and the
\* acknowledgements.
LEMMA TypesKeptOnDisk ==
    ASSUME PInv, [PNext]_pesVars
    PROVE  Types'
<1>0. Types
  BY DEF PInv, Agreement
<1>1. ASSUME NEW c \in Clients, NEW a \in Aggregates, NEW id \in EventIDs,
             NEW v \in 0 .. MaxEvents + 1, ExecuteInMemory(c, a, id, v)
      PROVE  Types'
  <2>1. LatestVersion(events[a]) + 1 \in Int
    BY LatestIsLength DEF PInv, Agreement, IInv, TypeOK, VersionsContiguous
  <2> QED
    BY <1>0, <1>1, <2>1 DEF ExecuteInMemory, Types, Ops, bootVars
<1>2. ASSUME NEW c \in Clients, NEW a \in Aggregates, SnapshotInMemory(c, a)
      PROVE  Types'
  <2>1. LatestVersion(events[a]) \in Int
    BY LatestIsLength DEF PInv, Agreement, IInv, TypeOK, VersionsContiguous
  <2> QED
    BY <1>0, <1>2, <2>1 DEF SnapshotInMemory, Types, Ops, bootVars
<1>3. ASSUME NEW c \in Clients, ListAndSave(c)
      PROVE  Types'
  <2>1. op' = [op EXCEPT ![c] = [op[c] EXCEPT !.step = "save"]] /\ op[c].step = "list"
    BY <1>3 DEF ListAndSave, At
  <2>2. [op[c] EXCEPT !.step = "save"] \in Ops
    BY <1>0, <2>1 DEF Types, Ops
  <2> QED
    BY <1>0, <1>3, <2>1, <2>2 DEF ListAndSave, Types, bootVars
<1>4. ASSUME NEW c \in Clients, SnapshotToDisk(c)
      PROVE  Types'
  <2>1. op' = [op EXCEPT ![c] = [op[c] EXCEPT !.step = "snapshotSave"]] /\ op[c].step = "snapshot"
    BY <1>4 DEF SnapshotToDisk, At
  <2>2. [op[c] EXCEPT !.step = "snapshotSave"] \in Ops
    BY <1>0, <2>1 DEF Types, Ops
  <2> QED
    BY <1>0, <1>4, <2>1, <2>2 DEF SnapshotToDisk, Types, bootVars
<1>5. ASSUME NEW c \in Clients, ExecuteReturns(c)
      PROVE  Types'
  <2>1. op[c] \in [step : {"save"}, agg : Aggregates, id : EventIDs, version : Int]
    BY <1>0, <1>5 DEF ExecuteReturns, At, Types, Ops
  <2>2. Appended(c) \in Envelope /\ op[c].agg \in Aggregates
    BY <2>1 DEF Appended, Envelope
  <2> QED
    BY <1>0, <1>5, <2>2 DEF ExecuteReturns, Types, Ops, Idle, bootVars
<1>6. ASSUME NEW c \in Clients, SaveProceeds(c) \/ SnapshotReturns(c)
      PROVE  Types'
  BY <1>0, <1>6 DEF SaveProceeds, SnapshotReturns, Types, Ops, Idle, bootVars
<1>7. CASE CrashAndRestart
  <2>1. Listed \subseteq [name : Files, part : {"file", "tmp"}]
    BY DEF Listed
  <2> QED
    BY <1>0, <1>7, <2>1 DEF CrashAndRestart, Types, Ops, Idle, NoReplay
<1>8. ASSUME NEW f \in todo, LoadNext(f)
      PROVE  Types'
  <2>1. f.name \in Files /\ Contents(f) # NoFile
    BY <1>8 DEF LoadNext, PInv, Agreement, Types, Restores
  <2>2. replay'.list \in Seq(Envelope)
    <3>1. CASE UNCHANGED replay
      BY <1>0, <3>1 DEF Types
    <3>2. CASE /\ Contents(f) \notin {Empty, Torn}
               /\ f.name.dir = "events"
               /\ replay' = [agg |-> f.name.agg, list |-> Contents(f).events]
      <4>1. f.name.agg \in Aggregates /\ f.name = EventFile(f.name.agg)
        BY <2>1, <3>2 DEF Files, EventFile
      <4>2. Contents(f) \in [events : Seq(Envelope)]
        BY <2>1, <3>2, <4>1 DEF PInv, Agreement, FilesAgree, Contents, IsList
      <4> QED
        BY <3>2, <4>2
    <3> QED
      BY <1>8, <3>1, <3>2 DEF LoadNext, Contents
  <2>3. UNCHANGED <<op, mode, acked>> /\ todo' \subseteq todo
    BY <1>8 DEF LoadNext
  <2> QED
    BY <1>0, <2>2, <2>3 DEF Types
<1>9. CASE ReplayEvent
  <2>1. replay.list \in Seq(Envelope) /\ replay.list # <<>>
    BY <1>0, <1>9 DEF ReplayEvent, PInv, Agreement, Restores, Replays, Types
  <2>2. replay'.list \in Seq(Envelope)
    BY <1>0, <1>9, <2>1 DEF ReplayEvent, Types, NoReplay
  <2> QED
    BY <1>0, <1>9, <2>2 DEF ReplayEvent, Types
<1>10. CASE RestoreReturns
  BY <1>0, <1>10 DEF RestoreReturns, Types
<1>11. CASE UNCHANGED pesVars
  BY <1>0, <1>11 DEF pesVars, bootVars, Types
<1> QED
  BY <1>1, <1>2, <1>3, <1>4, <1>5, <1>6, <1>7, <1>8, <1>9, <1>10, <1>11 DEF PNext

\* A step of c disturbs no call of d: their aggregates, and so their files,
\* differ.
LEMMA OtherCalls ==
    ASSUME OneWriterEach, PInv, NEW c \in Clients, NEW d \in Clients, d # c,
           op'[d] = op[d], pc'[d] = pc[d], call'[d] = call[d], outcome'[d] = outcome[d],
           mode' = mode,
           \A a \in Aggregates : c \notin Owners[a] =>
               events'[a] = events[a] /\ file'[EventFile(a)] = file[EventFile(a)]
    PROVE  Calling(d)'
<1> DEFINE a == op[d].agg
<1>1. Calling(d)
  BY DEF PInv, Agreement
<1>2. CASE op[d].step = "idle"
  BY <1>1, <1>2 DEF Calling
<1>3. CASE op[d].step # "idle"
  <2>1. a \in Aggregates
    BY <1>3 DEF PInv, Agreement, Types, Ops
  <2>2. d \in Owners[a]
    BY <1>1, <1>3 DEF Calling
  <2>3. c \notin Owners[a]
    BY <2>1, <2>2 DEF OneWriterEach
  <2>4. events'[a] = events[a] /\ file'[EventFile(a)] = file[EventFile(a)]
    BY <2>1, <2>3
  <2>5. op'[d].agg = a
    OBVIOUS
  <2> QED
    BY <1>1, <2>4 DEF Calling, Saved, Appended
<1> QED
  BY <1>2, <1>3

\* A step that leaves the files and the acknowledgements alone keeps the files in
\* agreement.
LEMMA FilesUntouched ==
    ASSUME PInv, UNCHANGED <<file, tmp, acked>>
    PROVE  \A a \in Aggregates : FilesAgree(a)'
  BY DEF PInv, Agreement, FilesAgree, Saved, Pending

\* A step that leaves files and streams alone keeps memory in agreement.
LEMMA MemoryUntouched ==
    ASSUME PInv, mode = "up", UNCHANGED <<file, tmp, events>>
    PROVE  \A a \in Aggregates : MemoryAgrees(a)'
  BY DEF PInv, Agreement, MemoryAgrees, Saved, Pending

\* ExecuteInMemory: the stream grows past its files.
LEMMA ExecuteKeepsAgreement ==
    ASSUME OneWriterEach, PInv,
           NEW c \in Clients, NEW a \in Aggregates, NEW id \in EventIDs,
           NEW v \in 0 .. MaxEvents + 1, ExecuteInMemory(c, a, id, v)
    PROVE  Agreement'
<1> DEFINE n == Len(events[a]) + 1
           e == NextEvent(events[a], id)
<1>1. /\ mode = "up" /\ op[c].step = "idle" /\ c \in Owners[a]
      /\ UNCHANGED <<file, tmp, pc, call, outcome, mode, acked>>
      /\ Execute(a, id, v)
  BY DEF ExecuteInMemory, At, fsVars, bootVars
<1>2. events[a] \in Seq(Envelope) /\ Contiguous(events[a]) /\ events \in [Aggregates -> Seq(Envelope)]
  BY DEF PInv, Agreement, IInv, TypeOK, VersionsContiguous
<1>3. events' = [events EXCEPT ![a] = Append(events[a], e)]
  <2>1. v \in Int
    OBVIOUS
  <2> QED
    BY <1>1, <2>1, AppendStep DEF PInv, Agreement, AppendsTo
<1>4. op' = [op EXCEPT ![c] = [step |-> "list", agg |-> a, id |-> id, version |-> n]]
  BY <1>2, LatestIsLength DEF ExecuteInMemory
<1>5. e \in Envelope /\ e = [id |-> id, version |-> n] /\ n \in Nat \ {0}
  BY <1>2 DEF NextEvent, Envelope
<1>6. \A b \in Aggregates : MemoryAgrees(b)'
  <2> SUFFICES ASSUME NEW b \in Aggregates PROVE MemoryAgrees(b)'
    OBVIOUS
  <2>1. MemoryAgrees(b) /\ Saved(b)' = Saved(b) /\ Pending(b)' = Pending(b)
    BY <1>1 DEF PInv, Agreement, Saved, Pending
  <2>2. Saved(b) \in Seq(Envelope) /\ Pending(b) \in Seq(Envelope)
    BY FilesAreLists DEF PInv, Agreement
  <2>3. events'[b] = IF b = a THEN Append(events[a], e) ELSE events[b]
    BY <1>2, <1>3
  <2> HIDE DEF e
  <2> QED
    BY <1>2, <1>5, <2>1, <2>2, <2>3, BeginsAppended DEF MemoryAgrees
<1>7. Calling(c)'
  <2>1. op'[c] = [step |-> "list", agg |-> a, id |-> id, version |-> n]
    BY <1>4 DEF PInv, Agreement, Types
  <2>2. pc[c] = "idle"
    BY <1>1 DEF PInv, Agreement, Calling
  <2>3. n \in DOMAIN events'[a] /\ events'[a][n] = e
    BY <1>2, <1>3
  <2> QED
    BY <1>1, <1>5, <2>1, <2>2, <2>3 DEF Calling, Appended
<1>8. ASSUME NEW d \in Clients, d # c PROVE Calling(d)'
  <2>1. \A b \in Aggregates : c \notin Owners[b] =>
            events'[b] = events[b] /\ file'[EventFile(b)] = file[EventFile(b)]
    BY <1>1, <1>3
  <2>2. op'[d] = op[d]
    BY <1>4, <1>8 DEF PInv, Agreement, Types
  <2> QED
    BY <1>1, <1>8, <2>1, <2>2, OtherCalls
<1> QED
  BY <1>1, <1>6, <1>7, <1>8, FilesUntouched DEF Agreement

\* SnapshotInMemory: no stream changes.
LEMMA SnapshotKeepsAgreement ==
    ASSUME OneWriterEach, PInv,
           NEW c \in Clients, NEW a \in Aggregates, SnapshotInMemory(c, a)
    PROVE  Agreement'
<1>1. /\ mode = "up" /\ op[c].step = "idle" /\ c \in Owners[a]
      /\ UNCHANGED <<events, file, tmp, pc, call, outcome, mode, acked>>
      /\ op' = [op EXCEPT ![c] = [step |-> "snapshot", agg |-> a,
                                  version |-> LatestVersion(events[a])]]
  BY DEF SnapshotInMemory, SaveSnapshot, At, fsVars, bootVars
<1>2. Calling(c)'
  <2>1. op'[c].step = "snapshot" /\ op'[c].agg = a
    BY <1>1 DEF PInv, Agreement, Types
  <2>2. pc[c] = "idle"
    BY <1>1 DEF PInv, Agreement, Calling
  <2> QED
    BY <1>1, <2>1, <2>2 DEF Calling
<1>3. ASSUME NEW d \in Clients, d # c PROVE Calling(d)'
  <2>1. op'[d] = op[d]
    BY <1>1, <1>3 DEF PInv, Agreement, Types
  <2> QED
    BY <1>1, <1>3, <2>1, OtherCalls
<1> QED
  BY <1>1, <1>2, <1>3, FilesUntouched, MemoryUntouched DEF Agreement

\* ListAndSave and SnapshotToDisk: a Save begins, with the stream as it is, or is
\* rejected.
LEMMA ListKeepsAgreement ==
    ASSUME OneWriterEach, PInv, NEW c \in Clients,
           ListAndSave(c) \/ SnapshotToDisk(c)
    PROVE  Agreement'
<1> DEFINE a == op[c].agg
           v == op[c].version
<1>1. /\ mode = "up"
      /\ UNCHANGED <<events, file, tmp, mode, acked>>
      /\ op' = [op EXCEPT ![c].step = IF op[c].step = "list" THEN "save" ELSE "snapshotSave"]
      /\ op[c].step \in {"list", "snapshot"}
  BY DEF ListAndSave, SnapshotToDisk, At, FS!BeginSave, FS!RejectSave, storeVars, bootVars
<1>2. /\ a \in Aggregates /\ c \in Owners[a]
      /\ pc \in [Clients -> {"idle", "open", "write", "rename", "cleanup"}]
      /\ call \in [Clients -> [key : Files, data : Documents] \cup {NoCall}]
      /\ outcome \in [Clients -> {"none", "ok", "error"}]
  <2>1. a \in Aggregates /\ c \in Owners[a]
    BY <1>1 DEF PInv, Agreement, Types, Ops, Calling
  <2> QED
    BY <2>1 DEF PInv, Agreement, FS!IInv, FS!TypeOK
<1>3. events[a] \in Seq(Envelope) /\ Contiguous(events[a])
  BY <1>2 DEF PInv, Agreement, IInv, TypeOK, VersionsContiguous
<1>4. \A d \in Clients : d # c => /\ op'[d] = op[d] /\ pc'[d] = pc[d]
                                /\ call'[d] = call[d] /\ outcome'[d] = outcome[d]
  BY <1>1, <1>2 DEF ListAndSave, SnapshotToDisk, FS!BeginSave, FS!RejectSave, FS!Return, PInv, Agreement, Types
<1>5. ASSUME NEW d \in Clients, d # c PROVE Calling(d)'
  BY <1>1, <1>4, <1>5, OtherCalls
<1>6. /\ op'[c].agg = a /\ op[c].step = "list" => op'[c].version = v /\ op'[c].id = op[c].id
      /\ op'[c].step = IF op[c].step = "list" THEN "save" ELSE "snapshotSave"
  BY <1>1 DEF PInv, Agreement, Types, Ops
<1>7. CASE FS!RejectSave(c)
  <2>1. pc'[c] = "idle" /\ outcome'[c] = "error"
    BY <1>2, <1>7 DEF FS!RejectSave, FS!Return
  <2>2. op[c].step = "list" => v \in DOMAIN events[a] /\ events[a][v] = Appended(c)
    BY DEF PInv, Agreement, Calling
  <2>3. Calling(c)'
    BY <1>1, <1>2, <1>6, <2>1, <2>2 DEF Calling, Appended
  <2> QED
    BY <1>1, <1>5, <2>3, FilesUntouched, MemoryUntouched DEF Agreement
<1>8. ASSUME FS!BeginSave(c, EventFile(a), EventList(StreamAll(events[a]))), op[c].step = "list"
      PROVE  Agreement'
  <2>1. StreamAll(events[a]) = events[a]
    BY <1>3, SortedAlready
  <2>2. /\ pc'[c] = "open" /\ outcome'[c] = "none"
        /\ call'[c].key = EventFile(a) /\ call'[c].data = EventList(events[a])
    BY <1>2, <1>8, <2>1 DEF FS!BeginSave
  <2>3. v \in DOMAIN events[a] /\ events[a][v] = Appended(c)
    BY <1>8 DEF PInv, Agreement, Calling
  <2>4. IsList(call'[c].data) /\ call'[c].data.events = events[a]
    BY <1>3, <2>2, <2>3 DEF IsList, EventList
  <2>5. Begins(events[a], events[a]) /\ Begins(Saved(a), events[a])
    BY <1>1, <1>2, <1>3 DEF Begins, PInv, Agreement, MemoryAgrees
  <2>6. Calling(c)'
    BY <1>1, <1>2, <1>6, <1>8, <2>2, <2>3, <2>4, <2>5 DEF Calling, Appended, Saved
  <2> QED
    BY <1>1, <1>5, <2>6, FilesUntouched, MemoryUntouched DEF Agreement
<1>9. ASSUME FS!BeginSave(c, SnapshotFile(a), SnapshotDoc(v)), op[c].step = "snapshot"
      PROVE  Agreement'
  <2>1. /\ pc'[c] = "open" /\ outcome'[c] = "none"
        /\ call'[c].key = SnapshotFile(a) /\ call'[c].data = SnapshotDoc(v)
    BY <1>2, <1>9 DEF FS!BeginSave
  <2>2. v \in Int
    BY <1>9 DEF PInv, Agreement, Types, Ops
  <2>3. call'[c].data \in [snapshot : Int]
    BY <2>1, <2>2 DEF SnapshotDoc
  <2>4. Calling(c)'
    BY <1>1, <1>2, <1>6, <1>9, <2>1, <2>3 DEF Calling
  <2> QED
    BY <1>1, <1>5, <2>4, FilesUntouched, MemoryUntouched DEF Agreement
<1> QED
  BY <1>7, <1>8, <1>9 DEF ListAndSave, SnapshotToDisk, At

\* ExecuteReturns and SnapshotReturns: what is acknowledged is in the file by
\* then.
LEMMA ReturnKeepsAgreement ==
    ASSUME OneWriterEach, PInv, NEW c \in Clients,
           ExecuteReturns(c) \/ SnapshotReturns(c)
    PROVE  Agreement'
<1> DEFINE a == op[c].agg
           v == op[c].version
<1>1. /\ mode = "up" /\ pc[c] = "idle" /\ op[c].step \in {"save", "snapshotSave"}
      /\ UNCHANGED <<events, file, tmp, pc, call, outcome, mode>>
      /\ op' = [op EXCEPT ![c] = Idle]
  BY DEF ExecuteReturns, SnapshotReturns, At, storeVars, fsVars, bootVars
<1>2. a \in Aggregates
  BY <1>1 DEF PInv, Agreement, Types, Ops
<1>3. Calling(c)'
  <2>1. op'[c].step = "idle"
    BY <1>1 DEF PInv, Agreement, Types, Idle
  <2> QED
    BY <1>1, <2>1 DEF Calling
<1>4. ASSUME NEW d \in Clients, d # c PROVE Calling(d)'
  <2>1. op'[d] = op[d]
    BY <1>1, <1>4 DEF PInv, Agreement, Types
  <2> QED
    BY <1>1, <1>4, <2>1, OtherCalls
<1>5. CASE UNCHANGED acked
  BY <1>1, <1>3, <1>4, <1>5, FilesUntouched, MemoryUntouched DEF Agreement
<1>6. CASE /\ op[c].step = "save" /\ outcome[c] = "ok"
           /\ acked' = [acked EXCEPT ![a] = @ \cup {Appended(c)}]
  <2>1. /\ v \in DOMAIN events[a] /\ events[a][v] = Appended(c)
        /\ v \in DOMAIN Saved(a)
    BY <1>1, <1>6 DEF PInv, Agreement, Calling
  <2>2. Begins(Saved(a), events[a])
    BY <1>1, <1>2 DEF PInv, Agreement, MemoryAgrees
  <2>3. Saved(a)[v] = Appended(c) /\ Appended(c).version = v
    BY <2>1, <2>2 DEF Begins, Appended
  <2>4. ASSUME NEW b \in Aggregates
        PROVE  \A e \in acked'[b] : e.version \in DOMAIN Saved(b) /\ Saved(b)[e.version] = e
    <3>1. \A e \in acked[b] : e.version \in DOMAIN Saved(b) /\ Saved(b)[e.version] = e
      BY DEF PInv, Agreement, FilesAgree
    <3>2. acked'[b] = IF b = a THEN acked[b] \cup {Appended(c)} ELSE acked[b]
      BY <1>2, <1>6 DEF PInv, Agreement, Types
    <3> QED
      BY <2>1, <2>3, <3>1, <3>2
  <2>5. \A b \in Aggregates : FilesAgree(b)'
    BY <1>1, <2>4 DEF PInv, Agreement, FilesAgree, Saved, Pending
  <2> QED
    BY <1>1, <1>3, <1>4, <2>5, MemoryUntouched DEF Agreement
<1> QED
  BY <1>5, <1>6 DEF ExecuteReturns, SnapshotReturns, At

\* CrashAndRestart: memory is lost, the files stay, and all of them are still to
\* be loaded.
LEMMA CrashKeepsAgreement ==
    ASSUME OneWriterEach, PInv, CrashAndRestart
    PROVE  Agreement'
<1>1. /\ UNCHANGED <<file, tmp, acked>>
      /\ pc' = [c \in Clients |-> "idle"]
      /\ events' = [a \in Aggregates |-> <<>>]
      /\ op' = [c \in Clients |-> Idle]
      /\ mode' = "restoring" /\ todo' = Listed /\ replay' = NoReplay
  BY DEF CrashAndRestart, FS!Crash
<1>2. \A c \in Clients : Calling(c)'
  BY <1>1 DEF Calling, Idle
<1>3. ASSUME NEW a \in Aggregates
      PROVE  Begins(events[a], Recoverable(a))'
  <2>1. Recoverable(a) \in Seq(Envelope) /\ Recoverable(a)' = Recoverable(a)
    BY <1>1, RecoverableIsLonger DEF PInv, Agreement, Recoverable
  <2>2. events'[a] = <<>>
    BY <1>1
  <2> HIDE DEF Recoverable
  <2> QED
    BY <2>1, <2>2 DEF Begins
<1>4. \A f \in todo' : Contents(f)' # NoFile
  BY <1>1 DEF Listed, Contents
<1>5. ASSUME NEW a \in Aggregates, NEW part \in {"file", "tmp"}, Part(a, part) \notin todo'
      PROVE  Restored(a, part)'
  <2>1. Contents(Part(a, part)) = NoFile
    BY <1>1, <1>5, FileNames DEF Listed, Contents, Part
  <2>2. Contents(Part(a, part))' = NoFile
    BY <1>1, <2>1 DEF Contents
  <2>3. Document(Contents(Part(a, part)))' = <<>> /\ events'[a] = <<>>
    BY <1>1, <2>2 DEF Document
  <2> QED
    BY <2>3 DEF Restored
<1>6. Restores'
  BY <1>1, <1>3, <1>4, <1>5 DEF Restores
<1> QED
  BY <1>1, <1>2, <1>6, FilesUntouched DEF Agreement

\* What a system call of the backend does for the store: it writes the temporary
\* file of the call's key, or puts the document in place and ends, or ends with
\* an error.
LEMMA SaveEffect ==
    ASSUME PInv, NEW c \in Clients, SaveProceeds(c)
    PROVE  LET k == call[c].key
               d == call[c].data
           IN  /\ mode = "up" /\ UNCHANGED <<events, op, mode, acked>>
               /\ pc[c] # "idle" /\ k \in Files
               /\ \A e \in Clients : e # c =>
                     pc'[e] = pc[e] /\ call'[e] = call[e] /\ outcome'[e] = outcome[e]
               /\ \/ /\ file' = file
                     /\ \E x \in {Empty, Torn, NoFile, d, tmp[k]} : tmp' = [tmp EXCEPT ![k] = x]
                     /\ \/ pc'[c] # "idle" /\ call'[c] = call[c]
                        \/ pc'[c] = "idle" /\ outcome'[c] = "error"
                  \/ /\ file' = [file EXCEPT ![k] = d]
                     /\ tmp' = [tmp EXCEPT ![k] = NoFile]
                     /\ pc'[c] = "idle"
<1> DEFINE k == call[c].key
           d == call[c].data
<1>1. mode = "up" /\ UNCHANGED <<events, op, mode, acked>> /\ FS!SaveStep(c)
  BY DEF SaveProceeds, storeVars, bootVars
<1>2. /\ pc \in [Clients -> {"idle", "open", "write", "rename", "cleanup"}]
      /\ call \in [Clients -> [key : Files, data : Documents] \cup {NoCall}]
      /\ outcome \in [Clients -> {"none", "ok", "error"}]
      /\ tmp \in [Files -> Documents \cup {Empty, Torn, NoFile}]
      /\ call[c] = NoCall <=> pc[c] = "idle"
  BY DEF PInv, Agreement, FS!IInv, FS!TypeOK, FS!Content
<1>3. pc[c] # "idle"
  BY <1>1 DEF FS!SaveStep, FS!OpenTmp, FS!WriteTmp, FS!FailOpen, FS!FailWrite,
              FS!RenameTmp, FS!FailRename, FS!RemoveTmp
<1>4. k \in Files
  BY <1>2, <1>3
<1>5. FS!WriterOwnsTmp(c)
  BY DEF PInv, Agreement, FS!IInv
<1>6. tmp = [tmp EXCEPT ![k] = tmp[k]]
  BY <1>2
<1>7. CASE FS!OpenTmp(c)
  BY <1>1, <1>2, <1>3, <1>4, <1>7 DEF FS!OpenTmp
<1>8. CASE FS!WriteTmp(c)
  <2>1. fd[c] = "tmp" /\ tmp[k] = Empty
    BY <1>5, <1>8 DEF FS!WriterOwnsTmp, FS!WriteTmp
  <2>2. file' = file /\ tmp' = [tmp EXCEPT ![k] = d]
    BY <1>8, <2>1 DEF FS!WriteTmp, FS!PutThroughFd, FS!OpenContent, FS!Written
  <2> QED
    BY <1>1, <1>2, <1>3, <1>4, <1>8, <2>2 DEF FS!WriteTmp
<1>9. CASE FS!FailOpen(c)
  BY <1>1, <1>2, <1>3, <1>4, <1>6, <1>9 DEF FS!FailOpen, FS!Return
<1>10. CASE FS!FailWrite(c)
  <2>1. fd[c] = "tmp" /\ tmp[k] = Empty
    BY <1>5, <1>10 DEF FS!WriterOwnsTmp, FS!FailWrite
  <2>2. file' = file /\ \E x \in {Empty, Torn} : tmp' = [tmp EXCEPT ![k] = x]
    BY <1>10, <2>1 DEF FS!FailWrite, FS!PutThroughFd, FS!OpenContent
  <2> QED
    BY <1>1, <1>2, <1>3, <1>4, <1>10, <2>2 DEF FS!FailWrite, FS!Return
<1>11. CASE FS!RenameTmp(c)
  <2>1. tmp[k] = d
    BY <1>5, <1>11 DEF FS!WriterOwnsTmp, FS!RenameTmp
  <2> QED
    BY <1>1, <1>2, <1>3, <1>4, <1>11, <2>1 DEF FS!RenameTmp
<1>12. CASE FS!FailRename(c)
  BY <1>1, <1>2, <1>3, <1>4, <1>6, <1>12 DEF FS!FailRename
<1>13. CASE FS!RemoveTmp(c)
  BY <1>1, <1>2, <1>3, <1>4, <1>13 DEF FS!RemoveTmp
<1> QED
  BY <1>1, <1>7, <1>8, <1>9, <1>10, <1>11, <1>12, <1>13 DEF FS!SaveStep

\* SaveProceeds: the rename puts a longer list in place of a prefix of it.
LEMMA SaveKeepsAgreement ==
    ASSUME OneWriterEach, PInv, NEW c \in Clients, SaveProceeds(c)
    PROVE  Agreement'
<1>1. op[c].step \in {"save", "snapshotSave"}
  BY SaveEffect DEF PInv, Agreement, Calling, Types, Ops
<1>2. op[c].agg \in Aggregates /\ c \in Owners[op[c].agg]
  BY <1>1 DEF PInv, Agreement, Calling, Types, Ops
<1>3. PICK a \in Aggregates, k \in {call[c].key}, d \in {call[c].data}, v \in {op[c].version} :
         a = op[c].agg /\ k = call[c].key /\ d = call[c].data /\ v = op[c].version
  BY <1>2
<1> DEFINE Fails == /\ file' = file
                    /\ \E x \in {Empty, Torn, NoFile, d, tmp[k]} : tmp' = [tmp EXCEPT ![k] = x]
                    /\ \/ pc'[c] # "idle" /\ call'[c] = call[c]
                       \/ pc'[c] = "idle" /\ outcome'[c] = "error"
           Renames == /\ file' = [file EXCEPT ![k] = d]
                      /\ tmp' = [tmp EXCEPT ![k] = NoFile]
                      /\ pc'[c] = "idle"
<1>4. /\ mode = "up" /\ UNCHANGED <<events, op, mode, acked>>
      /\ pc[c] # "idle" /\ k \in Files
      /\ \A e \in Clients : e # c =>
            pc'[e] = pc[e] /\ call'[e] = call[e] /\ outcome'[e] = outcome[e]
      /\ Fails \/ Renames
  BY <1>3, SaveEffect
<1>5. /\ file \in [Files -> Documents \cup {Empty, Torn, NoFile}]
      /\ tmp \in [Files -> Documents \cup {Empty, Torn, NoFile}]
  BY DEF PInv, Agreement, FS!IInv, FS!TypeOK, FS!Content
<1>6. /\ op[c].step = "save" =>
            /\ v \in DOMAIN events[a] /\ events[a][v] = Appended(c)
            /\ k = EventFile(a) /\ IsList(d) /\ Begins(Saved(a), d.events)
            /\ Begins(d.events, events[a]) /\ v \in DOMAIN d.events
      /\ op[c].step = "snapshotSave" => k = SnapshotFile(a) /\ d \in [snapshot : Int]
  BY <1>3, <1>4 DEF PInv, Agreement, Calling
<1>7. /\ events[a] \in Seq(Envelope)
      /\ \A b \in Aggregates : /\ FilesAgree(b) /\ MemoryAgrees(b)
                               /\ Saved(b) \in Seq(Envelope) /\ Pending(b) \in Seq(Envelope)
  BY <1>4, FilesAreLists DEF PInv, Agreement, IInv, TypeOK
<1>8. op[c].step = "save" => /\ Document(d) = d.events /\ d.events \in Seq(Envelope)
                             /\ d.events # <<>> /\ d \notin {NoFile, Empty, Torn}
  BY <1>6, ListIsDocument DEF IsList
<1> HIDE DEF Fails, Renames
<1>9. \A b \in Aggregates : a # b => /\ file'[EventFile(b)] = file[EventFile(b)]
                                    /\ tmp'[EventFile(b)] = tmp[EventFile(b)]
                                    /\ file'[SnapshotFile(b)] = file[SnapshotFile(b)]
                                    /\ tmp'[SnapshotFile(b)] = tmp[SnapshotFile(b)]
  <2>1. \A f \in Files : f # k => file'[f] = file[f] /\ tmp'[f] = tmp[f]
    BY <1>4, <1>5 DEF Fails, Renames
  <2>2. \A b \in Aggregates : a # b => EventFile(b) # k /\ SnapshotFile(b) # k
    BY <1>1, <1>3, <1>6, FileNames
  <2> QED
    BY <2>1, <2>2, FileNames
<1>10. ASSUME NEW e \in Clients, e # c PROVE Calling(e)'
  <2>1. \A b \in Aggregates : c \notin Owners[b] =>
            events'[b] = events[b] /\ file'[EventFile(b)] = file[EventFile(b)]
    BY <1>2, <1>3, <1>4, <1>9
  <2> QED
    BY <1>4, <1>10, <2>1, OtherCalls
<1>11. ASSUME NEW b \in Aggregates, b # a PROVE FilesAgree(b)' /\ MemoryAgrees(b)'
  <2>1. Saved(b)' = Saved(b) /\ Pending(b)' = Pending(b)
    BY <1>9, <1>11 DEF Saved, Pending
  <2>2. FilesAgree(b)'
    BY <1>4, <1>7, <1>9, <1>11, <2>1 DEF FilesAgree
  <2>3. MemoryAgrees(b)'
    BY <1>4, <1>7, <1>9, <1>11, <2>1 DEF MemoryAgrees
  <2> QED
    BY <2>2, <2>3
<1>12. CASE op[c].step = "save" /\ Fails
  <2>1. /\ file' = file /\ tmp'[SnapshotFile(a)] = tmp[SnapshotFile(a)]
        /\ tmp'[EventFile(a)] \in {Empty, Torn, NoFile, d, tmp[EventFile(a)]}
    BY <1>3, <1>5, <1>6, <1>12, FileNames DEF Fails
  <2>2. Document(tmp'[EventFile(a)]) \in {<<>>, d.events, Pending(a)}
    BY <1>8, <1>12, <2>1, MarkersAreEmpty DEF Pending
  <2>3. Begins(<<>>, events[a])
    BY <1>7 DEF Begins
  <2>4. FilesAgree(a)'
    BY <1>2, <1>3, <1>4, <1>6, <1>7, <1>12, <2>1, <2>2 DEF FilesAgree, Saved, Pending
  <2>5. MemoryAgrees(a)'
    BY <1>2, <1>3, <1>4, <1>6, <1>7, <1>12, <2>1, <2>2, <2>3 DEF MemoryAgrees, Saved, Pending
  <2>6. Calling(c)'
    <3>1. /\ op'[c] = op[c] /\ op'[c].agg = a /\ op'[c].version = v /\ Saved(a)' = Saved(a)
          /\ \/ call'[c].key = k /\ call'[c].data = d /\ pc'[c] # "idle"
             \/ pc'[c] = "idle" /\ outcome'[c] = "error"
      BY <1>3, <1>4, <1>12, <2>1 DEF Fails, Saved
    <3> QED
      BY <1>2, <1>3, <1>4, <1>6, <1>12, <2>1, <3>1 DEF Calling, Saved, Appended, Fails
  <2> QED
    BY <1>4, <1>10, <1>11, <2>4, <2>5, <2>6 DEF Agreement
<1>13. CASE op[c].step = "save" /\ Renames
  <2>1. /\ file'[EventFile(a)] = d /\ tmp'[EventFile(a)] = NoFile
        /\ file'[SnapshotFile(a)] = file[SnapshotFile(a)]
        /\ tmp'[SnapshotFile(a)] = tmp[SnapshotFile(a)]
    BY <1>3, <1>5, <1>6, <1>13, FileNames DEF Renames
  <2>2. Saved(a)' = d.events /\ Pending(a)' = <<>>
    <3>1. Document(file'[EventFile(a)]) = d.events /\ Document(tmp'[EventFile(a)]) = <<>>
      BY <1>8, <1>13, <2>1, MarkersAreEmpty
    <3> QED
      BY <3>1 DEF Saved, Pending
  <2>3. Begins(<<>>, events[a])
    BY <1>7 DEF Begins
  <2>4. \A e \in acked[a] : e.version \in DOMAIN d.events /\ d.events[e.version] = e
    <3>1. \A e \in acked[a] : e.version \in DOMAIN Saved(a) /\ Saved(a)[e.version] = e
      BY <1>3, <1>7 DEF FilesAgree
    <3>2. \A i \in DOMAIN Saved(a) : i \in DOMAIN d.events /\ d.events[i] = Saved(a)[i]
      BY <1>3, <1>6, <1>7, <1>8, <1>13 DEF Begins
    <3> QED
      BY <3>1, <3>2
  <2>5. FilesAgree(a)'
    BY <1>2, <1>3, <1>4, <1>6, <1>7, <1>13, <2>1, <2>2, <2>4 DEF FilesAgree, Saved, Pending
  <2>6. MemoryAgrees(a)'
    BY <1>4, <1>6, <1>13, <2>1, <2>2, <2>3 DEF MemoryAgrees, Saved, Pending
  <2>7. Calling(c)'
    BY <1>2, <1>3, <1>4, <1>6, <1>13, <2>2 DEF Calling, Appended, Renames
  <2> QED
    BY <1>4, <1>10, <1>11, <2>5, <2>6, <2>7 DEF Agreement
<1>14. CASE op[c].step = "snapshotSave"
  <2>1. /\ file'[EventFile(a)] = file[EventFile(a)] /\ tmp'[EventFile(a)] = tmp[EventFile(a)]
        /\ file'[SnapshotFile(a)] \in {d, file[SnapshotFile(a)]}
        /\ tmp'[SnapshotFile(a)] \in {Empty, Torn, NoFile, d, tmp[SnapshotFile(a)]}
    BY <1>3, <1>4, <1>5, <1>6, <1>14, FileNames DEF Fails, Renames
  <2>2. FilesAgree(a)' /\ MemoryAgrees(a)'
    BY <1>2, <1>3, <1>4, <1>6, <1>7, <1>14, <2>1 DEF FilesAgree, MemoryAgrees, Saved, Pending
  <2>3. Calling(c)'
    BY <1>2, <1>3, <1>4, <1>6, <1>14, <2>1 DEF Calling, Fails, Renames
  <2> QED
    BY <1>4, <1>10, <1>11, <2>2, <2>3 DEF Agreement
<1> QED
  BY <1>1, <1>4, <1>12, <1>13, <1>14

\* Of two prefixes of one sequence the shorter is a prefix of the longer.
LEMMA BeginningsCompare ==
    ASSUME NEW s \in Seq(Envelope), NEW t \in Seq(Envelope), NEW u \in Seq(Envelope),
           Begins(s, u), Begins(t, u), Len(s) <= Len(t)
    PROVE  Begins(s, t)
<1>1. \A i \in DOMAIN s : i \in DOMAIN t /\ s[i] = u[i] /\ t[i] = u[i]
  BY DEF Begins
<1> QED
  BY <1>1 DEF Begins

\* LoadNext: a file is skipped for holding no document, or its list is what
\* replay starts on.
LEMMA LoadKeepsAgreement ==
    ASSUME PInv, NEW f \in todo, LoadNext(f)
    PROVE  Agreement'
<1>1. /\ mode = "restoring" /\ replay = NoReplay /\ todo' = todo \ {f}
      /\ UNCHANGED <<events, seen, file, tmp, pc, call, outcome, op, mode, acked>>
      /\ \/ Contents(f) \in {Empty, Torn} /\ UNCHANGED replay
         \/ /\ Contents(f) \notin {Empty, Torn} /\ f.name.dir = "events"
            /\ replay' = [agg |-> f.name.agg, list |-> Contents(f).events]
         \/ /\ f.name.dir = "snapshots" /\ UNCHANGED replay
  BY DEF LoadNext, Contents, fsVars
<1>2. /\ Restores /\ Contents(f) # NoFile
      /\ f.name \in Files /\ f.part \in {"file", "tmp"}
  BY <1>1 DEF PInv, Agreement, Types, Restores
<1>3. \A c \in Clients : Calling(c)'
  BY <1>1 DEF PInv, Agreement, Calling, Saved, Appended
<1>4. \A a \in Aggregates : Begins(events[a], Recoverable(a))'
  BY <1>1, <1>2 DEF Restores, Recoverable
<1>5. \A g \in todo' : Contents(g)' # NoFile
  BY <1>1, <1>2 DEF Restores, Contents
<1>6. \A a \in Aggregates : events[a] \in Seq(Envelope)
  BY DEF PInv, Agreement, IInv, TypeOK
<1>7. ASSUME NEW a \in Aggregates, NEW part \in {"file", "tmp"}, f = Part(a, part),
             Contents(f) \notin {Empty, Torn}
      PROVE  /\ Replays' /\ replay'.agg = a /\ replay' # NoReplay
             /\ Replayed' + Len(replay'.list) = Len(Document(Contents(f)))
  <2>1. IsList(Contents(f)) /\ Document(Contents(f)) \in {Saved(a), Pending(a)}
    BY <1>2, <1>7 DEF PInv, Agreement, FilesAgree, Contents, Part, Saved, Pending
  <2>2. /\ Document(Contents(f)) = Contents(f).events /\ Contents(f).events # <<>>
        /\ Contents(f).events \in Seq(Envelope) /\ Contiguous(Contents(f).events)
    BY <2>1, ListIsDocument DEF IsList
  <2>3. replay' = [agg |-> a, list |-> Contents(f).events]
    BY <1>1, <1>7, FileNames DEF Part, EventFile
  <2>4. PICK list : list = Contents(f).events
    OBVIOUS
  <2>5. Begins(list, Recoverable(a)) /\ Recoverable(a) \in Seq(Envelope)
    BY <2>1, <2>2, <2>4, RecoverableIsLonger DEF PInv, Agreement
  <2>6. 1 \in DOMAIN list /\ list[1].version = 1
    BY <2>2, <2>4 DEF Contiguous
  <2>7. replay'.list = list /\ replay'.agg = a /\ Replayed' = 0
    BY <2>3, <2>4, <2>6 DEF Replayed
  <2>8. Recoverable(a)' = Recoverable(a) /\ events'[a] = events[a]
    BY <1>1 DEF Recoverable
  <2>9. \A i \in DOMAIN list : i \in DOMAIN Recoverable(a) /\ list[i] = Recoverable(a)[i]
    BY <2>2, <2>4, <2>5 DEF Begins
  <2>10. replay' # NoReplay
    BY <2>2, <2>3 DEF NoReplay
  <2>11. Replays'
    <3>1. Recoverable(replay.agg)' = Recoverable(a)
      BY <1>1, <2>7 DEF Recoverable
    <3> QED
      BY <1>6, <2>2, <2>4, <2>7, <2>8, <2>9, <3>1 DEF Replays
  <2> QED
    BY <2>2, <2>4, <2>7, <2>10, <2>11
<1>8. replay' # NoReplay => Replays'
  <2>1. CASE replay' = replay
    BY <1>1, <2>1
  <2>2. CASE /\ Contents(f) \notin {Empty, Torn} /\ f.name.dir = "events"
             /\ replay' = [agg |-> f.name.agg, list |-> Contents(f).events]
    <3>1. f.name.agg \in Aggregates /\ f = Part(f.name.agg, f.part)
      BY <1>2, <2>2 DEF Part, EventFile, Files, PInv, Agreement, Types
    <3> QED
      BY <1>2, <1>7, <2>2, <3>1
  <2> QED
    BY <1>1, <2>1, <2>2
<1>9. ASSUME NEW a \in Aggregates, NEW part \in {"file", "tmp"}, Part(a, part) \notin todo'
      PROVE  Restored(a, part)'
  <2>1. Contents(Part(a, part))' = Contents(Part(a, part)) /\ events'[a] = events[a]
    BY <1>1 DEF Contents
  <2>2. CASE f # Part(a, part)
    <3>1. Part(a, part) \notin todo
      BY <1>1, <1>9, <2>2
    <3> QED
      BY <1>1, <1>2, <2>1, <3>1 DEF Restores, Restored
  <2>3. CASE f = Part(a, part) /\ Contents(f) \in {Empty, Torn}
    <3>1. Document(Contents(Part(a, part)))' = <<>>
      BY <2>1, <2>3 DEF Document
    <3> QED
      BY <1>6, <2>1, <3>1 DEF Restored
  <2>4. CASE f = Part(a, part) /\ Contents(f) \notin {Empty, Torn}
    <3>1. Document(Contents(Part(a, part)))' = Document(Contents(f))
      BY <2>1, <2>4 DEF Document
    <3>2. IsList(Contents(f))
      BY <1>2, <2>4 DEF PInv, Agreement, FilesAgree, Contents, Part
    <3>3. Len(Document(Contents(f))) \in Nat
      BY <3>2, ListIsDocument
    <3> QED
      BY <1>7, <2>4, <3>1, <3>3 DEF Restored
  <2> QED
    BY <2>2, <2>3, <2>4
<1>10. Restores'
  BY <1>4, <1>5, <1>8, <1>9 DEF Restores
<1> QED
  BY <1>1, <1>3, <1>10, FilesUntouched DEF Agreement

\* ReplayEvent: the event is the next one and is appended, or is a conflict
\* because it is there already.
LEMMA ReplayKeepsAgreement ==
    ASSUME PInv, ReplayEvent
    PROVE  Agreement'
<1>1. PICK a \in Aggregates, e \in Envelope, r \in Seq(Envelope), n \in Nat,
             list \in Seq(Envelope) :
        /\ a = replay.agg /\ e = Head(replay.list) /\ r = Recoverable(a)
        /\ n = Len(events[a]) /\ list = replay.list
  <2>1. /\ replay.agg \in Aggregates /\ Head(replay.list) \in Envelope
        /\ replay.list \in Seq(Envelope)
    BY ReplayedEvent DEF PInv, Agreement, Types
  <2>2. events[replay.agg] \in Seq(Envelope) /\ Recoverable(replay.agg) \in Seq(Envelope)
    BY <2>1, RecoverableIsLonger DEF PInv, Agreement, IInv, TypeOK
  <2> HIDE DEF Recoverable
  <2> QED
    BY <2>1, <2>2
<1>2. /\ mode = "restoring" /\ replay # NoReplay
      /\ UNCHANGED <<file, tmp, pc, call, outcome, op, mode, todo, acked>>
      /\ replay' = IF Len(list) = 1 THEN NoReplay ELSE [replay EXCEPT !.list = Tail(list)]
  BY <1>1 DEF ReplayEvent, fsVars
<1>3. /\ e.version \in Nat \ {0} /\ e.version \in DOMAIN r /\ e = r[e.version]
      /\ e.version <= n + 1
      /\ IF e.version = n + 1
         THEN events' = [events EXCEPT ![a] = Append(events[a], e)]
         ELSE events' = events
  BY <1>1, ReplayedEvent
<1>4. Restores /\ Replays
  BY <1>2 DEF PInv, Agreement, Restores
<1>5. events \in [Aggregates -> Seq(Envelope)] /\ n \in Nat
  BY <1>1 DEF PInv, Agreement, IInv, TypeOK
<1>6. /\ list \in Seq(Envelope) /\ list # <<>> /\ e = list[1] /\ 1 \in DOMAIN list
      /\ Replayed = e.version - 1
  BY <1>1, <1>4 DEF Replays, PInv, Agreement, Types, Replayed
<1>7. /\ \A b \in Aggregates \ {a} : events'[b] = events[b]
      /\ \A b \in Aggregates : Len(events[b]) <= Len(events'[b])
      /\ e.version <= Len(events'[a])
      /\ \A b \in Aggregates : Len(events'[b]) \in Nat
  <2>1. CASE e.version = n + 1 /\ events' = [events EXCEPT ![a] = Append(events[a], e)]
    <3>1. events'[a] = Append(events[a], e) /\ \A b \in Aggregates \ {a} : events'[b] = events[b]
      BY <1>5, <2>1
    <3>2. /\ Len(events'[a]) = n + 1 /\ Len(events[a]) <= Len(events'[a])
          /\ Len(events'[a]) \in Nat
      BY <1>1, <1>5, <3>1
    <3>3. ASSUME NEW b \in Aggregates
          PROVE  Len(events[b]) <= Len(events'[b]) /\ Len(events'[b]) \in Nat
      BY <1>5, <3>1, <3>2
    <3> QED
      BY <2>1, <3>1, <3>2, <3>3
  <2>2. CASE e.version # n + 1 /\ events' = events
    <3>1. \A b \in Aggregates : Len(events[b]) \in Nat
      BY <1>5
    <3> QED
      BY <1>1, <1>3, <1>5, <2>2, <3>1
  <2> QED
    BY <1>3, <2>1, <2>2
<1>8. \A b \in Aggregates : Recoverable(b)' = Recoverable(b)
  BY <1>2 DEF Recoverable
<1>9. \A c \in Clients : Calling(c)'
  BY <1>2 DEF PInv, Agreement, Calling, Appended, Saved
<1>10. ASSUME NEW b \in Aggregates PROVE Begins(events[b], Recoverable(b))'
  <2>1. Begins(events[b], Recoverable(b))
    BY <1>4 DEF Restores
  <2>2. CASE events'[b] = events[b]
    BY <1>8, <2>1, <2>2 DEF Begins
  <2>3. CASE b = a /\ events'[a] = Append(events[a], e) /\ e.version = n + 1
    <3>1. Begins(events[a], r)
      BY <1>1, <2>1, <2>3
    <3>2. Begins(Append(events[a], e), r)
      BY <1>1, <1>3, <1>5, <2>3, <3>1 DEF Begins
    <3> QED
      BY <1>1, <1>8, <2>3, <3>2 DEF Begins
  <2> QED
    BY <1>3, <1>5, <1>7, <2>2, <2>3
<1>11. \A f \in todo' : Contents(f)' # NoFile
  BY <1>2, <1>4 DEF Restores, Contents
<1>12. r \in Seq(Envelope) /\ Contiguous(r)
  BY <1>1, RecoverableIsLonger DEF PInv, Agreement
<1>13. \A i \in DOMAIN list : /\ e.version - 1 + i \in DOMAIN r
                              /\ list[i] = r[e.version - 1 + i]
  BY <1>1, <1>4, <1>6 DEF Replays
<1>14. CASE Len(list) = 1
  <2>1. replay' = NoReplay
    BY <1>2, <1>14
  <2>2. ASSUME NEW b \in Aggregates, NEW part \in {"file", "tmp"}, Part(b, part) \notin todo'
        PROVE  Restored(b, part)'
    <3>1. Restored(b, part)
      BY <1>2, <1>4, <2>2 DEF Restores
    <3>2. Contents(Part(b, part))' = Contents(Part(b, part))
      BY <1>2 DEF Contents
    <3>3. Document(Contents(Part(b, part)))' = Document(Contents(Part(b, part)))
      BY <3>2 DEF Document
    <3>4. Document(Contents(Part(b, part))) \in Seq(Envelope)
      BY FilesAreLists DEF PInv, Agreement, Contents, Part, Saved, Pending
    <3>5. Len(Document(Contents(Part(b, part)))) <= Len(events'[b])
      <4> DEFINE length == Len(Document(Contents(Part(b, part))))
      <4>1. /\ length \in Nat /\ Len(events[b]) \in Nat /\ Len(events'[b]) \in Nat
            /\ Len(events[b]) <= Len(events'[b])
        BY <1>5, <1>7, <3>4
      <4>2. \/ length <= Len(events[b])
            \/ b = a /\ length <= Replayed + Len(replay.list)
        BY <1>1, <3>1 DEF Restored
      <4>3. Replayed + Len(replay.list) = e.version /\ e.version <= Len(events'[a]) /\ e.version \in Nat
        BY <1>1, <1>3, <1>6, <1>7, <1>14
      <4> HIDE DEF length
      <4>4. length <= Len(events'[b])
        <5>1. CASE length <= Len(events[b])
          BY <4>1, <5>1
        <5>2. CASE b = a /\ length <= Replayed + Len(replay.list)
          BY <4>1, <4>3, <5>2
        <5> QED
          BY <4>2, <5>1, <5>2
      <4> QED
        BY <4>4 DEF length
    <3> QED
      BY <3>3, <3>5 DEF Restored
  <2>3. Restores'
    BY <1>10, <1>11, <2>1, <2>2 DEF Restores
  <2> QED
    BY <1>2, <1>9, <2>3, FilesUntouched DEF Agreement
<1>15. CASE Len(list) # 1
  <2>1. /\ Tail(list) \in Seq(Envelope) /\ Tail(list) # <<>>
        /\ Len(Tail(list)) = Len(list) - 1 /\ Len(list) \in Nat
        /\ \A i \in DOMAIN Tail(list) : i + 1 \in DOMAIN list /\ Tail(list)[i] = list[i + 1]
    <3>1. Len(list) \in Nat /\ Len(list) > 1
      <4>1. PICK m \in Nat : m = Len(list)
        OBVIOUS
      <4>2. m # 0 /\ m # 1
        BY <1>6, <1>15, <4>1
      <4> QED
        BY <4>1, <4>2
    <3>2. Tail(list) \in Seq(Envelope) /\ Len(Tail(list)) = Len(list) - 1
      BY <1>6
    <3>3. ASSUME NEW i \in DOMAIN Tail(list)
          PROVE  i + 1 \in DOMAIN list /\ Tail(list)[i] = list[i + 1]
      BY <1>6, <3>1, <3>2
    <3>4. Tail(list) # <<>>
      <4>1. PICK m \in Nat : m = Len(list) /\ m > 1
        BY <3>1
      <4>3. Len(Tail(list)) = m - 1 /\ m - 1 # 0
        BY <3>2, <4>1
      <4>2. Len(<<>>) = 0
        OBVIOUS
      <4> QED
        BY <4>2, <4>3
    <3> QED
      BY <3>1, <3>2, <3>3, <3>4
  <2>2. replay' = [replay EXCEPT !.list = Tail(list)]
    BY <1>2, <1>15
  <2>3. replay'.agg = a /\ replay'.list = Tail(list)
    BY <1>1, <2>2 DEF PInv, Agreement, Types
  <2>4. Replayed' = e.version
    <3>1. 2 \in DOMAIN list /\ 1 \in DOMAIN Tail(list)
      BY <2>1
    <3>2. Tail(list)[1] = r[e.version + 1] /\ e.version + 1 \in DOMAIN r
      <4>1. e.version - 1 + 2 = e.version + 1
        BY <1>3
      <4>2. Tail(list)[1] = list[2]
        BY <2>1, <3>1
      <4> QED
        BY <1>13, <3>1, <4>1, <4>2
    <3>3. Tail(list)[1].version = e.version + 1
      BY <1>12, <3>2 DEF Contiguous
    <3>4. Replayed' = Tail(list)[1].version - 1
      BY <2>3 DEF Replayed
    <3>5. PICK m \in Nat : m = e.version
      BY <1>3
    <3>6. Tail(list)[1].version - 1 = m
      <4>1. Tail(list)[1].version = m + 1
        BY <3>3, <3>5
      <4>2. (m + 1) - 1 = m
        BY <3>5
      <4> QED
        BY <4>1, <4>2, Zenon
    <3> QED
      BY <3>4, <3>5, <3>6
  <2>5. Replays'
    <3>1. \A i \in DOMAIN Tail(list) : /\ e.version + i \in DOMAIN r
                                      /\ Tail(list)[i] = r[e.version + i]
      <4> SUFFICES ASSUME NEW i \in DOMAIN Tail(list)
                   PROVE  e.version + i \in DOMAIN r /\ Tail(list)[i] = r[e.version + i]
        OBVIOUS
      <4>1. i + 1 \in DOMAIN list /\ Tail(list)[i] = list[i + 1] /\ i \in Nat
        BY <2>1
      <4>2. e.version - 1 + (i + 1) = e.version + i
        BY <1>3, <4>1
      <4> QED
        BY <1>13, <4>1, <4>2
    <3>2. Recoverable(replay.agg)' = r
      BY <1>1, <1>8, <2>3
    <3> QED
      BY <1>7, <2>1, <2>3, <2>4, <3>1, <3>2 DEF Replays
  <2>6. ASSUME NEW b \in Aggregates, NEW part \in {"file", "tmp"}, Part(b, part) \notin todo'
        PROVE  Restored(b, part)'
    <3>1. Restored(b, part)
      BY <1>2, <1>4, <2>6 DEF Restores
    <3>2. Contents(Part(b, part))' = Contents(Part(b, part))
      BY <1>2 DEF Contents
    <3>3. Document(Contents(Part(b, part)))' = Document(Contents(Part(b, part)))
      BY <3>2 DEF Document
    <3>4. Document(Contents(Part(b, part))) \in Seq(Envelope)
      BY FilesAreLists DEF PInv, Agreement, Contents, Part, Saved, Pending
    <3>5. replay' # NoReplay
      BY <2>1, <2>3 DEF NoReplay
    <3>6. PICK doc \in Seq(Envelope) : doc = Document(Contents(Part(b, part)))
      BY <3>4
    <3>7. \/ Len(doc) <= Len(events[b])
          \/ a = b /\ Len(doc) <= e.version - 1 + Len(list)
      BY <1>1, <1>6, <3>1, <3>6 DEF Restored
    <3>8. \/ Len(doc) <= Len(events'[b])
          \/ replay'.agg = b /\ Len(doc) <= Replayed' + Len(replay'.list)
      <4>1. CASE Len(doc) <= Len(events[b])
        BY <1>5, <1>7, <4>1
      <4>2. CASE a = b /\ Len(doc) <= e.version - 1 + Len(list)
        <5>1. Replayed' + Len(replay'.list) = e.version - 1 + Len(list)
          BY <1>3, <2>1, <2>3, <2>4
        <5> QED
          BY <2>3, <4>2, <5>1
      <4> QED
        BY <3>7, <4>1, <4>2
    <3> QED
      BY <3>3, <3>5, <3>6, <3>8 DEF Restored
  <2>7. Restores'
    BY <1>10, <1>11, <2>5, <2>6 DEF Restores
  <2> QED
    BY <1>2, <1>9, <2>7, FilesUntouched DEF Agreement
<1> QED
  BY <1>14, <1>15

\* RestoreReturns: everything is loaded, so memory is exactly what the files
\* hold.
LEMMA RestoreKeepsAgreement ==
    ASSUME PInv, RestoreReturns
    PROVE  /\ Agreement'
           /\ \A a \in Aggregates : events[a] = Recoverable(a)
<1>1. /\ mode = "restoring" /\ todo = {} /\ replay = NoReplay /\ mode' = "up"
      /\ UNCHANGED <<events, file, tmp, pc, call, outcome, op, acked>>
  BY DEF RestoreReturns, storeVars, fsVars
<1>2. Restores
  BY <1>1 DEF PInv, Agreement
<1>3. \A c \in Clients : Calling(c)'
  BY <1>1 DEF PInv, Agreement, Calling
<1>4. ASSUME NEW a \in Aggregates
      PROVE  /\ Begins(Saved(a), events[a]) /\ Begins(Pending(a), events[a])
             /\ events[a] = Recoverable(a)
  <2>1. Saved(a) \in Seq(Envelope) /\ Pending(a) \in Seq(Envelope)
    BY FilesAreLists DEF PInv, Agreement
  <2>2. events[a] \in Seq(Envelope) /\ Begins(events[a], Recoverable(a))
    BY <1>2 DEF PInv, Agreement, IInv, TypeOK, Restores
  <2>3. /\ Recoverable(a) \in Seq(Envelope) /\ Recoverable(a) \in {Saved(a), Pending(a)}
        /\ Begins(Saved(a), Recoverable(a)) /\ Begins(Pending(a), Recoverable(a))
    BY RecoverableIsLonger DEF PInv, Agreement
  <2>4. Len(Saved(a)) <= Len(events[a])
    <3>1. Restored(a, "file")
      BY <1>1, <1>2 DEF Restores
    <3> QED
      BY <1>1, <3>1 DEF Restored, Contents, Part, Saved
  <2>5. Len(Pending(a)) <= Len(events[a])
    <3>1. Restored(a, "tmp")
      BY <1>1, <1>2 DEF Restores
    <3> QED
      BY <1>1, <3>1 DEF Restored, Contents, Part, Pending
  <2>6. Begins(Saved(a), events[a]) /\ Begins(Pending(a), events[a])
    BY <2>1, <2>2, <2>3, <2>4, <2>5, BeginningsCompare
  <2> HIDE DEF Recoverable, Saved, Pending
  <2>7. Begins(Recoverable(a), events[a])
    BY <2>3, <2>6
  <2>8. Len(events[a]) = Len(Recoverable(a))
    BY <2>2, <2>3, <2>7 DEF Begins
  <2> QED
    BY <2>2, <2>3, <2>6, <2>8 DEF Begins
<1>5. \A a \in Aggregates : MemoryAgrees(a)'
  BY <1>1, <1>4 DEF MemoryAgrees, Saved, Pending
<1> QED
  BY <1>1, <1>3, <1>4, <1>5, FilesUntouched DEF Agreement

\* The invariant holds of a store that nothing was written to.
LEMMA InitPInv ==
    ASSUME OneWriterEach
    PROVE  PInit => PInv
<1> SUFFICES ASSUME PInit PROVE PInv
  OBVIOUS
<1>1. IInv /\ FS!IInv
  BY InitIInv, BackendKept DEF PInit, IdleDisk
<1>2. Types
  BY DEF PInit, IdleDisk, Types, Ops, Idle, NoReplay
<1>3. /\ file = [f \in Files |-> NoFile] /\ tmp = [f \in Files |-> NoFile]
      /\ pc = [c \in Clients |-> "idle"] /\ acked = [a \in Aggregates |-> {}]
      /\ mode = "up" /\ op = [c \in Clients |-> Idle] /\ events = [a \in Aggregates |-> <<>>]
  BY DEF PInit, Init, IdleDisk, FS!Init
<1>4. ASSUME NEW a \in Aggregates
      PROVE  FilesAgree(a) /\ MemoryAgrees(a)
  <2>1. /\ file[EventFile(a)] = NoFile /\ tmp[EventFile(a)] = NoFile
        /\ file[SnapshotFile(a)] = NoFile /\ tmp[SnapshotFile(a)] = NoFile
    BY <1>3, FileNames
  <2>2. Saved(a) = <<>> /\ Pending(a) = <<>>
    BY <2>1, MarkersAreEmpty DEF Saved, Pending
  <2> QED
    BY <1>3, <2>1, <2>2 DEF FilesAgree, MemoryAgrees, Begins
<1>5. \A c \in Clients : Calling(c)
  BY <1>3 DEF Calling, Idle
<1> QED
  BY <1>1, <1>2, <1>3, <1>4, <1>5 DEF PInv, Agreement

\* Every step keeps the invariant.
LEMMA NextPInv ==
    ASSUME OneWriterEach
    PROVE  PInv /\ [PNext]_pesVars => PInv'
<1> SUFFICES ASSUME PInv, [PNext]_pesVars PROVE PInv'
  OBVIOUS
<1>1. IInv' /\ Types'
  BY StreamsKept, TypesKeptOnDisk
<1>2. FS!IInv'
  BY BackendStep, BackendKept DEF PInv
<1>3. Agreement'
  <2>1. CASE UNCHANGED pesVars
    BY <2>1 DEF PInv, Agreement, pesVars, storeVars, fsVars, bootVars, FilesAgree, MemoryAgrees,
                Calling, Restores, Replays, Restored, Replayed, Saved, Pending, Recoverable,
                Contents, Appended
  <2>2. ASSUME NEW c \in Clients,
               \/ \E a \in Aggregates :
                    \/ \E id \in EventIDs, version \in 0 .. MaxEvents + 1 :
                          ExecuteInMemory(c, a, id, version)
                    \/ SnapshotInMemory(c, a)
               \/ ListAndSave(c) \/ SaveProceeds(c) \/ ExecuteReturns(c)
               \/ SnapshotToDisk(c) \/ SnapshotReturns(c)
        PROVE  Agreement'
    BY <2>2, ExecuteKeepsAgreement, SnapshotKeepsAgreement, ListKeepsAgreement,
       SaveKeepsAgreement, ReturnKeepsAgreement
  <2>3. CASE CrashAndRestart \/ ReplayEvent \/ RestoreReturns \/ \E f \in todo : LoadNext(f)
    BY <2>3, CrashKeepsAgreement, ReplayKeepsAgreement, RestoreKeepsAgreement, LoadKeepsAgreement
  <2> QED
    BY <2>1, <2>2, <2>3 DEF PNext
<1> QED
  BY <1>1, <1>2, <1>3 DEF PInv

\* Every variable of the store of eventstore_persistent.go keeps its type, when
\* no two clients write one aggregate.
THEOREM PersistentStoreTypes ==
    ASSUME OneWriterEach
    PROVE  PSpec => []PTypeOK
<1>1. PInv => PTypeOK
  <2> SUFFICES ASSUME PInv PROVE PTypeOK
    OBVIOUS
  <2>1. TypeOK /\ FS!TypeOK
    BY DEF PInv, IInv, FS!IInv
  <2>2. \A c \in Clients : op[c].step \in {"idle", "list", "save", "snapshot", "snapshotSave"}
    BY DEF PInv, Types, Ops
  <2> QED
    BY <2>1, <2>2 DEF PInv, Types, PTypeOK
<1> QED
  BY <1>1, InitPInv, NextPInv, PTL DEF PSpec

\* No file that restore could read is half-written: Save of storage_fs.go writes
\* a temporary file and renames it.
THEOREM StoredFilesAreWhole ==
    ASSUME OneWriterEach
    PROVE  PSpec => []NoTornFile
<1>1. PInv => NoTornFile
  BY DEF PInv, FS!IInv, NoTornFile
<1> QED
  BY <1>1, InitPInv, NextPInv, PTL DEF PSpec

\* A Save that reports success has put its document in place, and one that
\* reports an error has changed no file.
THEOREM StoreSavesAllOrNothing ==
    ASSUME OneWriterEach
    PROVE  PSpec => SaveIsAllOrNothing
<1>1. PInv /\ [PNext]_pesVars => [\A c \in Clients : FS!AllOrNothing(c)]_fsVars
  BY BackendStep, FS!StepAllOrNothing DEF PInv, FS!vars, fsVars
<1> QED
  BY <1>1, InitPInv, NextPInv, PTL DEF PSpec, SaveIsAllOrNothing

\* An event whose Execute returned without an error is in the stream, at the
\* version returned, in this process and after any number of crashes and
\* restores, however Saves fail on the way.
THEOREM StoreKeepsAcknowledged ==
    ASSUME OneWriterEach
    PROVE  PSpec => []AcknowledgedIsKept
<1>1. PInv => AcknowledgedIsKept
  <2> SUFFICES ASSUME PInv, mode = "up", NEW a \in Aggregates, NEW e \in acked[a]
               PROVE  e.version \in DOMAIN events[a] /\ events[a][e.version] = e
    BY DEF AcknowledgedIsKept
  <2>1. e.version \in DOMAIN Saved(a) /\ Saved(a)[e.version] = e
    BY DEF PInv, Agreement, FilesAgree
  <2>2. Saved(a) \in Seq(Envelope) /\ events[a] \in Seq(Envelope) /\ Begins(Saved(a), events[a])
    BY FilesAreLists DEF PInv, Agreement, MemoryAgrees, IInv, TypeOK
  <2> QED
    BY <2>1, <2>2 DEF Begins
<1> QED
  BY <1>1, InitPInv, NextPInv, PTL DEF PSpec

\* The ids of a stream: as many as its events, and a prefix for a prefix.
LEMMA IdsOfStream ==
    ASSUME NEW s \in Seq(Envelope)
    PROVE  /\ Ids(s) \in Seq(EventIDs) /\ Len(Ids(s)) = Len(s) /\ DOMAIN Ids(s) = DOMAIN s
           /\ \A e \in Envelope : Ids(Append(s, e)) = Append(Ids(s), e.id)
           /\ \A t \in Seq(Envelope) : Begins(t, s) => Ids(t) = SubSeq(Ids(s), 1, Len(Ids(t)))
<1>1. \A t \in Seq(Envelope) : /\ Ids(t) \in Seq(EventIDs) /\ Len(Ids(t)) = Len(t)
                               /\ DOMAIN Ids(t) = DOMAIN t
                               /\ \A i \in DOMAIN t : Ids(t)[i] = t[i].id
  <2> SUFFICES ASSUME NEW t \in Seq(Envelope)
               PROVE  /\ Ids(t) \in Seq(EventIDs) /\ Len(Ids(t)) = Len(t)
                      /\ DOMAIN Ids(t) = DOMAIN t
                      /\ \A i \in DOMAIN t : Ids(t)[i] = t[i].id
    OBVIOUS
  <2>1. Len(t) \in Nat /\ DOMAIN t = 1 .. Len(t)
    OBVIOUS
  <2>2. \A i \in 1 .. Len(t) : t[i].id \in EventIDs
    <3> SUFFICES ASSUME NEW i \in 1 .. Len(t) PROVE t[i].id \in EventIDs
      OBVIOUS
    <3>1. t[i] \in Envelope
      BY <2>1
    <3> QED
      BY <3>1 DEF Envelope
  <2>3. Ids(t) = [i \in 1 .. Len(t) |-> t[i].id]
    BY <2>1 DEF Ids
  <2> QED
    BY <2>1, <2>2, <2>3
<1>2. ASSUME NEW e \in Envelope
      PROVE  Ids(Append(s, e)) = Append(Ids(s), e.id)
  <2>1. e.id \in EventIDs
    BY DEF Envelope
  <2>2. PICK t \in Seq(Envelope) : t = Append(s, e)
    <3>1. Append(s, e) \in Seq(Envelope)
      OBVIOUS
    <3> QED
      BY <3>1
  <2>3. PICK ids \in Seq(EventIDs) : ids = Ids(s)
    BY <1>1
  <2>4. PICK n \in Nat : n = Len(s) /\ n = Len(ids)
    BY <1>1, <2>3
  <2>5. /\ Len(t) = n + 1 /\ t[n + 1] = e /\ \A i \in 1 .. n : t[i] = s[i]
        /\ Len(Append(ids, e.id)) = n + 1 /\ Append(ids, e.id)[n + 1] = e.id
        /\ \A i \in 1 .. n : Append(ids, e.id)[i] = ids[i]
        /\ Append(ids, e.id) \in Seq(EventIDs)
    <3>1. Len(t) = n + 1 /\ t[n + 1] = e
      <4>1. Len(Append(s, e)) = Len(s) + 1 /\ Append(s, e)[Len(s) + 1] = e
        BY AppendProperties
      <4> QED
        BY <2>2, <2>4, <4>1
    <3>2. \A i \in 1 .. n : t[i] = s[i]
      <4>1. \A i \in 1 .. Len(s) : Append(s, e)[i] = s[i]
        BY AppendProperties
      <4> QED
        BY <2>2, <2>4, <4>1
    <3>3. /\ Len(Append(ids, e.id)) = n + 1 /\ Append(ids, e.id)[n + 1] = e.id
          /\ Append(ids, e.id) \in Seq(EventIDs)
      BY <2>1, <2>4
    <3>4. \A i \in 1 .. n : Append(ids, e.id)[i] = ids[i]
      BY <2>1, <2>4
    <3> QED
      BY <3>1, <3>2, <3>3, <3>4
  <2>6. \A i \in 1 .. n : ids[i] = s[i].id
    BY <1>1, <2>3, <2>4
  <2>7. \A i \in 1 .. n + 1 : Ids(t)[i] = Append(ids, e.id)[i]
    BY <1>1, <2>4, <2>5, <2>6
  <2>8. Ids(t) \in Seq(EventIDs) /\ Len(Ids(t)) = n + 1
    BY <1>1, <2>5
  <2> QED
    BY <2>2, <2>3, <2>5, <2>7, <2>8
<1>3. ASSUME NEW t \in Seq(Envelope), Begins(t, s)
      PROVE  Ids(t) = SubSeq(Ids(s), 1, Len(Ids(t)))
  <2>1. Len(t) <= Len(s) /\ \A i \in DOMAIN t : i \in DOMAIN s /\ t[i] = s[i]
    BY <1>3 DEF Begins
  <2>2. \A i \in 1 .. Len(t) : Ids(t)[i] = Ids(s)[i]
    BY <1>1, <2>1
  <2> QED
    BY <1>1, <2>1, <2>2
<1> QED
  BY <1>1, <1>2, <1>3

\* The refinement mapping of PersistentEventStore, as operators.
LogOf == [a \in Aggregates |-> Ids(IF mode = "up" THEN events[a] ELSE Recoverable(a))]

AckedOf == [a \in Aggregates |-> {e.version : e \in acked[a]}]

\* Every step of the store is a step of DurableLog, or a stutter: the append is
\* Append, a return without an error acknowledges, the crash keeps at least what
\* was acknowledged.
LEMMA StepImplementsLog ==
    ASSUME OneWriterEach, PInv, [PNext]_pesVars
    PROVE  [Log!Next]_(Log!vars)
<1> SUFFICES Log!Next \/ UNCHANGED <<LogOf, AckedOf>>
  BY DEF Log!vars, LogOf, AckedOf
<1>2. events \in [Aggregates -> Seq(Envelope)] /\ acked \in [Aggregates -> SUBSET Envelope]
  BY DEF PInv, IInv, TypeOK, Types
<1>3. ASSUME NEW c \in Clients, NEW a \in Aggregates, NEW id \in EventIDs,
             NEW v \in 0 .. MaxEvents + 1, ExecuteInMemory(c, a, id, v)
      PROVE  Log!Next
  <2>1. mode = "up" /\ mode' = mode /\ acked' = acked /\ Execute(a, id, v)
    BY <1>3 DEF ExecuteInMemory, At, bootVars
  <2>2. events' = [events EXCEPT ![a] = Append(events[a], NextEvent(events[a], id))]
    <3>1. v \in Int
      OBVIOUS
    <3> QED
      BY <2>1, <3>1, AppendStep DEF PInv, AppendsTo
  <2>3. NextEvent(events[a], id) \in Envelope /\ NextEvent(events[a], id).id = id
    BY <1>2 DEF NextEvent, Envelope
  <2>4. Ids(Append(events[a], NextEvent(events[a], id))) = Append(Ids(events[a]), id)
    BY <1>2, <2>3, IdsOfStream
  <2>5. LogOf' = [LogOf EXCEPT ![a] = Append(LogOf[a], id)] /\ AckedOf' = AckedOf
    <3>1. LogOf = [b \in Aggregates |-> Ids(events[b])]
      BY <2>1 DEF LogOf
    <3>2. LogOf' = [b \in Aggregates |-> Ids(events'[b])]
      BY <2>1 DEF LogOf
    <3>3. \A b \in Aggregates : Ids(events'[b]) = IF b = a THEN Append(Ids(events[a]), id)
                                                           ELSE Ids(events[b])
      BY <1>2, <2>2, <2>4
    <3> QED
      BY <2>1, <3>1, <3>2, <3>3 DEF AckedOf
  <2>6. Log!AppendEvent(a, id)
    BY <2>5 DEF Log!AppendEvent, LogOf, AckedOf
  <2> QED
    BY <2>6 DEF Log!Next
<1>4. ASSUME NEW c \in Clients, ExecuteReturns(c)
      PROVE  Log!Next \/ UNCHANGED <<LogOf, AckedOf>>
  <2>1. /\ mode = "up" /\ mode' = mode /\ events' = events /\ op[c].step = "save"
        /\ acked' = IF outcome[c] = "ok"
                    THEN [acked EXCEPT ![op[c].agg] = @ \cup {Appended(c)}]
                    ELSE acked
    BY <1>4 DEF ExecuteReturns, At, storeVars, bootVars
  <2>2. PICK a \in Aggregates : a = op[c].agg
    BY <2>1 DEF PInv, Types, Ops
  <2>3. op[c].version \in DOMAIN events[a]
    BY <2>1, <2>2 DEF PInv, Agreement, Calling
  <2>4. LogOf' = LogOf
    BY <2>1 DEF LogOf
  <2>5. CASE outcome[c] # "ok"
    BY <2>1, <2>4, <2>5 DEF AckedOf
  <2>6. CASE outcome[c] = "ok"
    <3>1. AckedOf' = [AckedOf EXCEPT ![a] = @ \cup {op[c].version}]
      <4>1. \A b \in Aggregates :
              acked'[b] = IF b = a THEN acked[b] \cup {Appended(c)} ELSE acked[b]
        BY <1>2, <2>1, <2>2, <2>6
      <4>2. Appended(c).version = op[c].version
        BY DEF Appended
      <4> QED
        BY <4>1, <4>2 DEF AckedOf
    <3>2. op[c].version \in DOMAIN LogOf[a]
      BY <1>2, <2>1, <2>3, IdsOfStream DEF LogOf
    <3>4. PICK w : w = op[c].version
      OBVIOUS
    <3>5. w \in DOMAIN LogOf[a] /\ Log!Acknowledge(a, w)
      BY <2>4, <3>1, <3>2, <3>4 DEF Log!Acknowledge, LogOf, AckedOf
    <3> QED
      BY <3>5 DEF Log!Next, LogOf
  <2> QED
    BY <2>5, <2>6
<1>5. CASE mode = "up" /\ CrashAndRestart
  <2>1. /\ mode' = "restoring" /\ UNCHANGED <<file, tmp, acked>>
    BY <1>5 DEF CrashAndRestart, FS!Crash
  <2>2. ASSUME NEW a \in Aggregates
        PROVE  /\ LogOf'[a] = SubSeq(LogOf[a], 1, Len(LogOf'[a]))
               /\ Len(LogOf'[a]) <= Len(LogOf[a])
               /\ AckedOf[a] \subseteq 1 .. Len(LogOf'[a])
    <3>1. /\ Recoverable(a) \in Seq(Envelope) /\ Recoverable(a) \in {Saved(a), Pending(a)}
          /\ Saved(a) \in Seq(Envelope) /\ Begins(Saved(a), Recoverable(a))
          /\ Begins(Recoverable(a), events[a])
      BY <1>5, RecoverableIsLonger, FilesAreLists DEF PInv, Agreement, MemoryAgrees
    <3>2. LogOf[a] = Ids(events[a]) /\ LogOf'[a] = Ids(Recoverable(a))
      BY <1>5, <2>1 DEF LogOf, Recoverable
    <3>3. \A e \in acked[a] : e.version \in DOMAIN Saved(a)
      BY DEF PInv, Agreement, FilesAgree
    <3>4. \A i \in DOMAIN Saved(a) : i \in DOMAIN Recoverable(a)
      BY <3>1 DEF Begins
    <3>5. DOMAIN Recoverable(a) = 1 .. Len(LogOf'[a])
      BY <3>1, <3>2, IdsOfStream
    <3>6. Len(LogOf'[a]) <= Len(LogOf[a])
      BY <1>2, <3>1, <3>2, IdsOfStream DEF Begins
    <3> QED
      BY <1>2, <3>1, <3>2, <3>3, <3>4, <3>5, <3>6, IdsOfStream DEF AckedOf
  <2>3. LogOf' = [a \in Aggregates |-> SubSeq(LogOf[a], 1, Len(LogOf'[a]))]
    <3>1. LogOf' = [a \in Aggregates |-> LogOf'[a]]
      BY DEF LogOf
    <3> QED
      BY <2>2, <3>1
  <2>4. AckedOf' = AckedOf
    BY <2>1 DEF AckedOf
  <2>5. Log!Recover
    BY <2>2, <2>3, <2>4 DEF Log!Recover, LogOf, AckedOf
  <2> QED
    BY <2>5 DEF Log!Next
<1>6. CASE mode = "restoring" /\ CrashAndRestart
  <2>1. UNCHANGED <<file, tmp, acked>> /\ mode' = "restoring"
    BY <1>6 DEF CrashAndRestart, FS!Crash
  <2>2. \A a \in Aggregates : Recoverable(a)' = Recoverable(a)
    BY <2>1 DEF Recoverable
  <2> QED
    BY <1>6, <2>1, <2>2 DEF LogOf, AckedOf
<1>7. CASE RestoreReturns
  <2>1. \A a \in Aggregates : events[a] = Recoverable(a)
    BY <1>7, RestoreKeepsAgreement
  <2>2. mode = "restoring" /\ mode' = "up" /\ UNCHANGED <<events, acked>>
    BY <1>7 DEF RestoreReturns, storeVars
  <2>3. LogOf = [a \in Aggregates |-> Ids(events[a])]
    BY <2>1, <2>2 DEF LogOf
  <2>4. LogOf' = [a \in Aggregates |-> Ids(events'[a])]
    BY <2>2 DEF LogOf
  <2> QED
    BY <2>2, <2>3, <2>4 DEF AckedOf
<1>8. CASE ReplayEvent \/ \E f \in todo : LoadNext(f)
  <2>1. mode = "restoring" /\ UNCHANGED <<file, tmp, mode, acked>>
    BY <1>8 DEF ReplayEvent, LoadNext, fsVars
  <2>2. \A a \in Aggregates : Recoverable(a)' = Recoverable(a)
    BY <2>1 DEF Recoverable
  <2> QED
    BY <2>1, <2>2 DEF LogOf, AckedOf
<1>9. ASSUME NEW c \in Clients,
             \/ \E a \in Aggregates : SnapshotInMemory(c, a)
             \/ ListAndSave(c) \/ SaveProceeds(c) \/ SnapshotToDisk(c) \/ SnapshotReturns(c)
      PROVE  UNCHANGED <<LogOf, AckedOf>>
  <2>1. mode = "up" /\ UNCHANGED <<events, mode, acked>>
    BY <1>9 DEF SnapshotInMemory, SaveSnapshot, ListAndSave, SaveProceeds, SnapshotToDisk,
                SnapshotReturns, At, storeVars, bootVars
  <2> QED
    BY <2>1 DEF LogOf, AckedOf
<1>10. CASE UNCHANGED pesVars
  <2>1. UNCHANGED <<events, file, tmp, mode, acked>>
    BY <1>10 DEF pesVars, storeVars, fsVars, bootVars
  <2>2. \A a \in Aggregates : Recoverable(a)' = Recoverable(a)
    BY <2>1 DEF Recoverable
  <2> QED
    BY <2>1, <2>2 DEF LogOf, AckedOf
<1>11. mode \in {"up", "restoring"}
  BY DEF PInv, Types
<1> QED
  BY <1>3, <1>4, <1>5, <1>6, <1>7, <1>8, <1>9, <1>10, <1>11 DEF PNext

\* The store of eventstore_persistent.go implements DurableLog: appends in order,
\* acknowledged once written, and a crash that loses at most what was not
\* acknowledged.
THEOREM StoreImplementsDurableLog ==
    ASSUME OneWriterEach
    PROVE  PSpec => ImplementsDurableLog
<1>1. PInit => Log!Init
  BY DEF PInit, Init, IdleDisk, Log!Init, Ids
<1>2. PInv /\ [PNext]_pesVars => [Log!Next]_(Log!vars)
  BY StepImplementsLog
<1> QED
  BY <1>1, <1>2, InitPInv, NextPInv, PTL DEF PSpec, ImplementsDurableLog

-----------------------------------------------------------------------------
(* The storage back ends.                                                  *)

\* What a row's writer is called is neither a caller nor the absence of one.
Markers == {"save", Absent} \cap Callers = {}

KVTables == [Rows -> Callers \cup {"save", Absent}]

Jobs == [op : {"idle", "tx", "pipe", "scan", "saved", "failed", "unknown", "listed"},
         todo : SUBSET Rows, found : SUBSET Rows]

KVTypes ==
    /\ kind \in {"memory", "postgres", "redis", "file"}
    /\ table \in KVTables
    /\ tableClosed \in BOOLEAN
    /\ job \in [Callers -> Jobs]
    /\ alone \in [Callers -> BOOLEAN]
    /\ before \in [Callers -> KVTables]
    /\ stable \in [Callers -> SUBSET Rows]

\* While nobody else writes, a transaction that has not committed leaves the table as
\* it found it, and a pipeline or a loop has written what it has left behind.
Batch(c) ==
    /\ job[c].op \in {"tx", "failed"} => kind = "postgres"
    /\ job[c].op \in {"pipe", "scan"} => kind \in {"redis", "file"}
    /\ alone[c] /\ ~tableClosed =>
        /\ job[c].op \in {"tx", "failed"} => table = before[c]
        /\ job[c].op = "pipe" => \A k \in Rows \ job[c].todo : table[k] = c
        /\ job[c].op = "saved" => \A k \in Rows : table[k] = c
        /\ job[c].op = "unknown" /\ kind = "postgres" => \A k \in Rows : table[k] = c

\* A row that has been there all the time is found or still to be looked at.
Listing(c) ==
    /\ job[c].op = "scan" =>
        stable[c] \subseteq Stores!Present \cap (job[c].todo \cup job[c].found)
    /\ job[c].op = "listed" => stable[c] \subseteq job[c].found

KVInv ==
    /\ KVTypes
    /\ Stores!BatchesDoNotMix
    /\ \A c \in Callers : Batch(c) /\ Listing(c)

\* A call that has ended, and what a table has, are typed.
LEMMA JobTypes ==
    /\ \A step \in {"idle", "saved", "failed", "unknown", "listed"} : Stores!Job(step) \in Jobs
    /\ Stores!Present \subseteq Rows
BY DEF Stores!Job, Jobs, Stores!Present

\* A back end begins with an empty table and no call.
LEMMA InitKV == Markers /\ Stores!KVInit => KVInv
<1> SUFFICES ASSUME Markers, Stores!KVInit PROVE KVInv
  OBVIOUS
<1> USE DEF Stores!KVInit
<1>1. KVTypes
  BY JobTypes DEF KVTypes, KVTables
<1>2. Stores!BatchesDoNotMix
  BY DEF Markers, Stores!BatchesDoNotMix
<1>3. ASSUME NEW c \in Callers PROVE Batch(c) /\ Listing(c)
  BY DEF Batch, Listing, Stores!Job
<1> QED BY <1>1, <1>2, <1>3 DEF KVInv

\* Every call of a back end keeps the types.
LEMMA KVTypesKept == KVTypes /\ [Stores!KVNext]_(Stores!kvVars) => KVTypes'
<1> SUFFICES ASSUME KVTypes, [Stores!KVNext]_(Stores!kvVars) PROVE KVTypes'
  OBVIOUS
<1>a. \A c \in Callers : job[c] \in Jobs /\ job[c].todo \subseteq Rows /\ job[c].found \subseteq Rows
  BY DEF KVTypes, Jobs
<1>b. ASSUME NEW c \in Callers, NEW next \in Jobs, Stores!Becomes(c, next)
      PROVE  job' \in [Callers -> Jobs]
  BY <1>b DEF KVTypes, Stores!Becomes
<1>c. ASSUME NEW c \in Callers, NEW gone, Stores!Wrote(c, gone)
      PROVE  alone' \in [Callers -> BOOLEAN] /\ stable' \in [Callers -> SUBSET Rows]
  BY <1>c DEF KVTypes, Stores!Wrote
<1>d. ASSUME NEW c \in Callers, NEW keys, NEW more \in SUBSET Rows
      PROVE  [job[c] EXCEPT !.todo = @ \ keys, !.found = @ \cup more] \in Jobs
  BY <1>a DEF Jobs
<1>1. ASSUME NEW c \in Callers, NEW k \in Rows, Stores!Save(c, k) \/ Stores!Delete(c, k)
      PROVE  KVTypes'
  <2>1. /\ Stores!Becomes(c, Stores!Job("idle")) /\ before' = Stores!Forgets(c) /\ UNCHANGED <<kind, tableClosed>>
        /\ \E value \in {"save", Absent} : table' = [table EXCEPT ![k] = value]
        /\ \E gone : Stores!Wrote(c, gone)
    BY <1>1 DEF Stores!Save, Stores!Delete, Stores!SaveOrDelete
  <2>2. table' \in KVTables
    BY <2>1 DEF KVTypes, KVTables
  <2>3. before' \in [Callers -> KVTables]
    BY <2>1 DEF KVTypes, KVTables, Stores!Forgets
  <2> QED BY <2>1, <2>2, <2>3, <1>b, <1>c, JobTypes DEF KVTypes
<1>2. ASSUME NEW c \in Callers, NEW k \in Rows, Stores!TxExec(c, k) \/ Stores!SetRow(c, k)
      PROVE  KVTypes'
  <2>1. /\ job' = [job EXCEPT ![c].todo = @ \ {k}] /\ UNCHANGED <<kind, tableClosed, before>>
        /\ table' = [table EXCEPT ![k] = c] \/ table' = table
        /\ (\E gone : Stores!Wrote(c, gone)) \/ UNCHANGED <<alone, stable>>
    BY <1>2 DEF Stores!TxExec, Stores!SetRow
  <2>2. table' \in KVTables
    BY <2>1 DEF KVTypes, KVTables
  <2>3. [job[c] EXCEPT !.todo = @ \ {k}] \in Jobs
    BY <1>a DEF Jobs
  <2>4. Stores!Becomes(c, [job[c] EXCEPT !.todo = @ \ {k}])
    BY <2>1 DEF Stores!Becomes
  <2> QED BY <2>1, <2>2, <2>3, <2>4, <1>b, <1>c DEF KVTypes
<1>3. ASSUME NEW c \in Callers, NEW keys, Stores!LookAt(c, keys) PROVE KVTypes'
  <2> DEFINE next == [job[c] EXCEPT !.todo = @ \ keys, !.found = @ \cup (keys \cap Stores!Present)]
  <2>1. Stores!Becomes(c, next) /\ UNCHANGED <<kind, table, tableClosed, alone, before, stable>>
    BY <1>3 DEF Stores!LookAt, Stores!Becomes
  <2>2. next \in Jobs
    BY <1>d, JobTypes
  <2> QED BY <2>1, <2>2, <1>b DEF KVTypes
<1>4. ASSUME NEW c \in Callers, Stores!SaveBatchInMemory(c) \/ Stores!SaveBatch(c) PROVE KVTypes'
  <2>1. /\ UNCHANGED <<kind, tableClosed, stable>>
        /\ table' = [k \in Rows |-> c] \/ table' = table
        /\ alone' \in {[q \in Callers |-> q = c], [alone EXCEPT ![c] = TRUE]}
        /\ before' \in {[before EXCEPT ![c] = table], before}
    BY <1>4 DEF Stores!SaveBatchInMemory, Stores!SaveBatch
  <2>2. table' \in KVTables /\ alone' \in [Callers -> BOOLEAN] /\ before' \in [Callers -> KVTables]
    BY <2>1 DEF KVTypes, KVTables
  <2>3. \E next \in Jobs : Stores!Becomes(c, next)
    <3>1. \A step \in {"tx", "pipe"} : [op |-> step, todo |-> Rows, found |-> {}] \in Jobs
      BY DEF Jobs
    <3> QED BY <1>4, <3>1, JobTypes DEF Stores!SaveBatchInMemory, Stores!SaveBatch
  <2> QED BY <2>1, <2>2, <2>3, <1>b DEF KVTypes
<1>5. ASSUME NEW c \in Callers, Stores!TxCommit(c) \/ Stores!TxFails(c) \/ Stores!PipeEnds(c) PROVE KVTypes'
  <2>1. /\ UNCHANGED <<kind, tableClosed, before>>
        /\ table' = [k \in Rows |-> c] \/ table' = table
        /\ (\E gone : Stores!Wrote(c, gone)) \/ UNCHANGED <<alone, stable>>
        /\ \E step \in {"saved", "failed", "unknown"} : Stores!Becomes(c, Stores!Job(step))
    BY <1>5 DEF Stores!TxCommit, Stores!TxFails, Stores!PipeEnds
  <2>2. table' \in KVTables
    BY <2>1 DEF KVTypes, KVTables
  <2> QED BY <2>1, <2>2, <1>b, <1>c, JobTypes DEF KVTypes
<1>6. ASSUME NEW c \in Callers, Stores!ListAtOnce(c) \/ Stores!BeginScan(c) \/ Stores!EndScan(c) PROVE KVTypes'
  <2>1. /\ UNCHANGED <<kind, table, tableClosed, alone>>
        /\ stable' \in {[stable EXCEPT ![c] = Stores!Present], stable}
        /\ before' \in {Stores!Forgets(c), before}
    BY <1>6 DEF Stores!ListAtOnce, Stores!BeginScan, Stores!EndScan
  <2>2. stable' \in [Callers -> SUBSET Rows]
    BY <2>1, JobTypes DEF KVTypes
  <2>4. before' \in [Callers -> KVTables]
    BY <2>1 DEF KVTypes, KVTables, Stores!Forgets
  <2>3. \E next \in Jobs : Stores!Becomes(c, next)
    <3>1. [Stores!Job("listed") EXCEPT !.found = Stores!Present] \in Jobs
      BY JobTypes DEF Stores!Job, Jobs
    <3>2. [op |-> "scan", todo |-> Rows, found |-> {}] \in Jobs
      BY DEF Jobs
    <3>3. [job[c] EXCEPT !.op = "listed"] \in Jobs
      BY <1>a DEF Jobs
    <3> QED BY <1>6, <3>1, <3>2, <3>3 DEF Stores!ListAtOnce, Stores!BeginScan, Stores!EndScan
  <2> QED BY <2>1, <2>2, <2>3, <2>4, <1>b DEF KVTypes
<1>7. CASE Stores!Close \/ Stores!Refused \/ UNCHANGED Stores!kvVars
  BY <1>7 DEF Stores!Close, Stores!Refused, Stores!kvVars, KVTypes, KVTables
<1> QED
  BY <1>1, <1>2, <1>3, <1>4, <1>5, <1>6, <1>7
     DEF Stores!KVNext, Stores!PipeSet, Stores!SaveNext, Stores!WalkFile, Stores!ScanPage

\* Every call, statement and command of a back end keeps KVInv.
LEMMA NextKV == Markers /\ KVInv /\ [Stores!KVNext]_(Stores!kvVars) => KVInv'
<1> SUFFICES ASSUME Markers, KVInv, [Stores!KVNext]_(Stores!kvVars) PROVE KVInv'
  OBVIOUS
<1>0. KVTypes /\ KVTypes'
  BY KVTypesKept DEF KVInv
<1>a. \A c \in Callers : job[c] \in Jobs
  BY <1>0 DEF KVTypes
<1> DEFINE Kept == Stores!BatchesDoNotMix' /\ \A q \in Callers : Batch(q)' /\ Listing(q)'
<1>1. ASSUME NEW c \in Callers, NEW k \in Rows, NEW value \in {"save", Absent},
             Stores!SaveOrDelete(c, k, value)
      PROVE  Kept
  <2>1. /\ table' = [table EXCEPT ![k] = value] /\ table \in KVTables
        /\ job' = [job EXCEPT ![c] = Stores!Job("idle")]
        /\ Stores!Wrote(c, IF value = Absent THEN {k} ELSE {})
        /\ UNCHANGED <<kind, tableClosed>>
        /\ before' = Stores!Forgets(c)
    BY <1>0, <1>1 DEF Stores!SaveOrDelete, Stores!Becomes, KVTypes
  <2>2. Stores!BatchesDoNotMix'
    BY <2>1 DEF Stores!BatchesDoNotMix, KVInv, KVTables, Markers
  <2>3. ASSUME NEW q \in Callers PROVE Batch(q)' /\ Listing(q)'
    <3>1. CASE q = c
      <4>1. job'[q].op = "idle"
        BY <2>1, <3>1, <1>0 DEF Stores!Job, KVTypes
      <4> QED BY <4>1 DEF Batch, Listing
    <3>2. CASE q # c
      <4>1. job'[q] = job[q] /\ alone'[q] = FALSE
        BY <2>1, <3>2, <1>0 DEF KVTypes, Stores!Wrote
      <4>2. stable'[q] = stable[q] \ (IF value = Absent THEN {k} ELSE {})
        BY <2>1 DEF Stores!Wrote
      <4>3. stable[q] \cap Stores!Present \subseteq Stores!Present' \cup (IF value = Absent THEN {k} ELSE {})
        BY <2>1 DEF Stores!Present, KVTables
      <4> QED BY <2>1, <4>1, <4>2, <4>3 DEF KVInv, Batch, Listing
    <3> QED BY <3>1, <3>2
  <2> QED BY <2>2, <2>3
<1>2. ASSUME NEW c \in Callers, NEW k \in Rows, Stores!TxExec(c, k) PROVE Kept
  BY <1>2, <1>0, <1>a DEF Stores!TxExec, KVTypes, Jobs, KVInv, Batch, Listing, Stores!BatchesDoNotMix, Stores!Present
<1>3. ASSUME NEW c \in Callers, NEW k \in Rows, kind \in {"redis", "file"}, Stores!SetRow(c, k)
      PROVE  Kept
  <2>1. /\ table' = [table EXCEPT ![k] = c] /\ table \in KVTables
        /\ job[c].op = "pipe"
        /\ job' = [job EXCEPT ![c] = [job[c] EXCEPT !.todo = @ \ {k}]]
        /\ Stores!Wrote(c, {}) /\ UNCHANGED <<kind, tableClosed, before>>
    BY <1>0, <1>3 DEF Stores!SetRow, KVTypes
  <2>2. Stores!BatchesDoNotMix'
    BY <1>3, <2>1 DEF Stores!BatchesDoNotMix
  <2>3. ASSUME NEW q \in Callers PROVE Batch(q)' /\ Listing(q)'
    <3>1. CASE q = c
      <4>1. job'[q].op = "pipe" /\ job'[q].todo = job[q].todo \ {k}
        BY <2>1, <3>1, <1>0, <1>a DEF Jobs, KVTypes
      <4>2. alone'[q] => alone[q]
        BY <2>1 DEF Stores!Wrote
      <4> QED BY <1>3, <2>1, <3>1, <4>1, <4>2 DEF KVInv, Batch, Listing, KVTables
    <3>2. CASE q # c
      <4>1. job'[q] = job[q] /\ alone'[q] = FALSE /\ stable'[q] = stable[q]
        BY <2>1, <3>2, <1>0 DEF KVTypes, Stores!Wrote
      <4>2. Stores!Present \subseteq Stores!Present'
        BY <2>1, Markers DEF Stores!Present, KVTables, Markers
      <4> QED BY <2>1, <4>1, <4>2 DEF KVInv, Batch, Listing
    <3> QED BY <3>1, <3>2
  <2> QED BY <2>2, <2>3
<1>4. ASSUME NEW c \in Callers, NEW keys, kind \in {"redis", "file"}, Stores!LookAt(c, keys)
      PROVE  Kept
  <2>1. /\ job[c].op = "scan"
        /\ job' = [job EXCEPT ![c] = [job[c] EXCEPT !.todo = @ \ keys,
                                                   !.found = @ \cup (keys \cap Stores!Present)]]
        /\ UNCHANGED <<kind, table, tableClosed, alone, before, stable>>
    BY <1>4 DEF Stores!LookAt
  <2>2. ASSUME NEW q \in Callers PROVE Batch(q)' /\ Listing(q)'
    <3>1. CASE q = c
      <4>1. /\ job'[q].op = "scan" /\ job'[q].todo = job[q].todo \ keys
            /\ job'[q].found = job[q].found \cup (keys \cap Stores!Present)
        BY <2>1, <3>1, <1>0, <1>a DEF Jobs, KVTypes
      <4> QED BY <1>4, <2>1, <3>1, <4>1 DEF KVInv, Batch, Listing, Stores!Present
    <3>2. CASE q # c
      <4>1. job'[q] = job[q]
        BY <2>1, <3>2, <1>0 DEF KVTypes
      <4> QED BY <2>1, <4>1 DEF KVInv, Batch, Listing, Stores!Present
    <3> QED BY <3>1, <3>2
  <2> QED BY <2>1, <2>2 DEF KVInv, Stores!BatchesDoNotMix
<1>5. ASSUME NEW c \in Callers, Stores!SaveBatchInMemory(c) PROVE Kept
  <2>1. /\ kind = "memory" /\ table' = [k \in Rows |-> c]
        /\ job' = [job EXCEPT ![c] = Stores!Job("saved")] /\ alone' = [q \in Callers |-> q = c]
        /\ UNCHANGED <<kind, tableClosed, before, stable>>
    BY <1>5 DEF Stores!SaveBatchInMemory, Stores!Becomes
  <2>2. ASSUME NEW q \in Callers PROVE Batch(q)' /\ Listing(q)'
    <3>1. CASE q = c
      BY <2>1, <3>1, <1>0 DEF Stores!Job, Batch, Listing, KVTypes
    <3>2. CASE q # c
      <4>1. job'[q] = job[q] /\ alone'[q] = FALSE
        BY <2>1, <3>2, <1>0 DEF KVTypes
      <4> QED BY <2>1, <4>1 DEF KVInv, Batch, Listing
    <3> QED BY <3>1, <3>2
  <2> QED BY <2>1, <2>2 DEF Stores!BatchesDoNotMix
<1>6. ASSUME NEW c \in Callers, Stores!SaveBatch(c) PROVE Kept
  <2> DEFINE step == IF kind = "postgres" THEN "tx" ELSE "pipe"
  <2>1. /\ kind # "memory" /\ alone' = [alone EXCEPT ![c] = TRUE]
        /\ job' = [job EXCEPT ![c] = [op |-> step, todo |-> Rows, found |-> {}]]
        /\ before' = IF kind = "postgres" THEN [before EXCEPT ![c] = table] ELSE before
        /\ UNCHANGED <<kind, table, tableClosed, stable>>
    BY <1>6 DEF Stores!SaveBatch, Stores!Becomes
  <2>2. ASSUME NEW q \in Callers PROVE Batch(q)' /\ Listing(q)'
    <3>1. CASE q = c
      BY <2>1, <3>1, <1>0 DEF Batch, Listing, KVTypes
    <3>2. CASE q # c
      <4>1. job'[q] = job[q] /\ alone'[q] = alone[q] /\ before'[q] = before[q]
        BY <2>1, <3>2, <1>0 DEF KVTypes
      <4> QED BY <2>1, <4>1 DEF KVInv, Batch, Listing, Stores!Present
    <3> QED BY <3>1, <3>2
  <2> QED BY <2>1, <2>2 DEF KVInv, Stores!BatchesDoNotMix
<1>7. ASSUME NEW c \in Callers, Stores!TxCommit(c) PROVE Kept
  <2>1. /\ job[c].op = "tx" /\ table' = [k \in Rows |-> c] /\ Stores!Wrote(c, {})
        /\ \E answer \in {"saved", "unknown"} : job' = [job EXCEPT ![c] = Stores!Job(answer)]
        /\ UNCHANGED <<kind, tableClosed, before>>
    BY <1>7 DEF Stores!TxCommit, Stores!Becomes
  <2>2. kind = "postgres"
    BY <2>1 DEF KVInv, Batch
  <2>3. ASSUME NEW q \in Callers PROVE Batch(q)' /\ Listing(q)'
    <3>1. CASE q = c
      BY <2>1, <2>2, <3>1, <1>0 DEF Stores!Job, Batch, Listing, KVTypes
    <3>2. CASE q # c
      <4>1. job'[q] = job[q] /\ alone'[q] = FALSE /\ stable'[q] = stable[q]
        BY <2>1, <3>2, <1>0 DEF KVTypes, Stores!Wrote
      <4> QED BY <2>1, <2>2, <4>1 DEF KVInv, Batch, Listing
    <3> QED BY <3>1, <3>2
  <2> QED BY <2>1, <2>3 DEF Stores!BatchesDoNotMix
<1>8. ASSUME NEW c \in Callers, Stores!TxFails(c) PROVE Kept
  <2>1. /\ job[c].op = "tx" /\ job' = [job EXCEPT ![c] = Stores!Job("failed")]
        /\ UNCHANGED <<kind, table, tableClosed, alone, before, stable>>
    BY <1>8 DEF Stores!TxFails, Stores!Becomes
  <2>2. ASSUME NEW q \in Callers PROVE Batch(q)' /\ Listing(q)'
    <3>1. CASE q = c
      BY <2>1, <3>1, <1>0 DEF Stores!Job, KVInv, Batch, Listing, KVTypes
    <3>2. CASE q # c
      BY <2>1, <3>2, <1>0 DEF KVInv, Batch, Listing, KVTypes, Stores!Present
    <3> QED BY <3>1, <3>2
  <2> QED BY <2>1, <2>2 DEF KVInv, Stores!BatchesDoNotMix
<1>9. ASSUME NEW c \in Callers, Stores!PipeEnds(c) PROVE Kept
  <2>1. /\ job[c].op = "pipe"
        /\ \/ job[c].todo = {} /\ job' = [job EXCEPT ![c] = Stores!Job("saved")]
           \/ job' = [job EXCEPT ![c] = Stores!Job("unknown")]
        /\ UNCHANGED <<kind, table, tableClosed, alone, before, stable>>
    BY <1>9 DEF Stores!PipeEnds, Stores!Becomes
  <2>2. kind \in {"redis", "file"}
    BY <2>1 DEF KVInv, Batch
  <2>3. ASSUME NEW q \in Callers PROVE Batch(q)' /\ Listing(q)'
    <3>1. CASE q = c
      BY <2>1, <2>2, <3>1, <1>0 DEF Stores!Job, KVInv, Batch, Listing, KVTypes
    <3>2. CASE q # c
      BY <2>1, <3>2, <1>0 DEF KVInv, Batch, Listing, KVTypes, Stores!Present
    <3> QED BY <3>1, <3>2
  <2> QED BY <2>1, <2>3 DEF KVInv, Stores!BatchesDoNotMix
<1>10. ASSUME NEW c \in Callers, Stores!EndScan(c) PROVE Kept
  <2>1. /\ job[c].op = "scan" /\ job[c].todo = {}
        /\ job' = [job EXCEPT ![c] = [job[c] EXCEPT !.op = "listed"]]
        /\ UNCHANGED <<kind, table, tableClosed, alone, before, stable>>
    BY <1>10 DEF Stores!EndScan, Stores!CursorIsZero, Stores!Becomes
  <2>2. ASSUME NEW q \in Callers PROVE Batch(q)' /\ Listing(q)'
    <3>1. CASE q = c
      <4>1. job'[q].op = "listed" /\ job'[q].found = job[q].found
        BY <2>1, <3>1, <1>0, <1>a DEF Jobs, KVTypes
      <4> QED BY <2>1, <3>1, <4>1 DEF KVInv, Batch, Listing
    <3>2. CASE q # c
      BY <2>1, <3>2, <1>0 DEF KVInv, Batch, Listing, KVTypes, Stores!Present
    <3> QED BY <3>1, <3>2
  <2> QED BY <2>1, <2>2 DEF KVInv, Stores!BatchesDoNotMix
<1>11. ASSUME NEW c \in Callers, Stores!ListAtOnce(c) \/ Stores!BeginScan(c) PROVE Kept
  <2>1. /\ \/ job' = [job EXCEPT ![c] = [op |-> "listed", todo |-> {}, found |-> Stores!Present]]
           \/ /\ kind \in {"redis", "file"}
              /\ job' = [job EXCEPT ![c] = [op |-> "scan", todo |-> Rows, found |-> {}]]
        /\ stable' = [stable EXCEPT ![c] = Stores!Present]
        /\ before' \in {Stores!Forgets(c), before}
        /\ UNCHANGED <<kind, table, tableClosed, alone>>
    BY <1>11 DEF Stores!ListAtOnce, Stores!BeginScan, Stores!Becomes, Stores!Job
  <2>2. ASSUME NEW q \in Callers PROVE Batch(q)' /\ Listing(q)'
    <3>1. CASE q = c
      BY <2>1, <3>1, <1>0, JobTypes DEF KVInv, Batch, Listing, KVTypes, Stores!Present
    <3>2. CASE q # c
      <4>1. job'[q] = job[q] /\ stable'[q] = stable[q] /\ before'[q] = before[q]
        BY <2>1, <3>2, <1>0 DEF KVTypes, Stores!Forgets
      <4> QED BY <2>1, <4>1 DEF KVInv, Batch, Listing, Stores!Present
    <3> QED BY <3>1, <3>2
  <2> QED BY <2>1, <2>2 DEF KVInv, Stores!BatchesDoNotMix
<1>12. ASSUME Stores!Close PROVE Kept
  <2>1. /\ tableClosed' = TRUE /\ UNCHANGED <<kind, job, alone, before, stable>>
        /\ table' = IF kind = "memory" THEN [k \in Rows |-> Absent] ELSE table
    BY <1>12 DEF Stores!Close
  <2>2. Stores!BatchesDoNotMix'
    BY <2>1 DEF KVInv, Stores!BatchesDoNotMix, Markers
  <2>3. ASSUME NEW q \in Callers PROVE Batch(q)' /\ Listing(q)'
    BY <2>1 DEF KVInv, Batch, Listing, Stores!Present
  <2> QED BY <2>2, <2>3
<1>13. ASSUME Stores!Refused \/ UNCHANGED Stores!kvVars PROVE Kept
  BY <1>13 DEF Stores!Refused, Stores!kvVars, KVInv, Batch, Listing, Stores!Present, Stores!BatchesDoNotMix
<1> HIDE DEF Kept
<1>14. ASSUME NEW c \in Callers, NEW k \in Rows,
              \/ Stores!Save(c, k) \/ Stores!Delete(c, k) \/ Stores!TxExec(c, k)
              \/ Stores!PipeSet(c, k) \/ Stores!SaveNext(c, k) \/ Stores!WalkFile(c, k)
       PROVE  Kept
  BY <1>1, <1>2, <1>3, <1>4, <1>14 DEF Stores!Save, Stores!Delete, Stores!PipeSet, Stores!SaveNext, Stores!WalkFile
<1>15. ASSUME NEW c \in Callers, NEW page, Stores!ScanPage(c, page) PROVE Kept
  BY <1>4, <1>15 DEF Stores!ScanPage
<1>16. Kept
  BY <1>5, <1>6, <1>7, <1>8, <1>9, <1>10, <1>11, <1>12, <1>13, <1>14, <1>15 DEF Stores!KVNext
<1> QED BY <1>0, <1>16 DEF KVInv, Kept

\* Batches of the memory and PostgreSQL back ends never mix, what a SaveBatch has
\* returned is true unless others wrote meanwhile, and a listing has every row that
\* was there all the time (storage_memory.go, storage_postgres.go, storage_redis.go).
THEOREM BatchesAndListingsHold ==
    ASSUME Markers
    PROVE  Stores!KVSpec => [](Stores!BatchesDoNotMix /\ Stores!BatchResultIsTrue /\ Stores!ListIsComplete)
<1>1. KVInv => Stores!BatchesDoNotMix /\ Stores!BatchResultIsTrue /\ Stores!ListIsComplete
  BY DEF KVInv, Batch, Listing, Stores!BatchResultIsTrue, Stores!ListIsComplete
<1> QED
  BY <1>1, InitKV, NextKV, PTL DEF Stores!KVSpec

-----------------------------------------------------------------------------
(* PostgresEventStore.                                                     *)

\* The rows of an aggregate of n events.
Numbered(n) ==
    /\ {e.version : e \in rows} = 1..n
    /\ \A e, f \in rows : e.version = f.version => e = f
    /\ IsFiniteSet(rows) /\ Cardinality(rows) = n

PgTypes ==
    /\ expected \in [Callers -> Nat \cup {-1}]
    /\ sent \in [Callers -> Nat]
    /\ held \in [Callers -> [version : Nat, state : SUBSET rows]]
    /\ rowSnapshot \in [version : Nat, state : SUBSET rows]

\* A snapshot, saved or about to be, has the events up to its version.
Covers(s, n) == s.version <= n /\ s.state = Stores!UpTo(s.version)

\* The k-th event of c.
EventOf(c, k) == <<c, k>>

\* What was acknowledged is of a caller's earlier events, and no event is
\* acknowledged twice; nobody has read a version that is not there.
PgInv ==
    /\ PgTypes
    /\ \E n \in Nat :
        /\ Numbered(n)
        /\ \A c \in Callers : expected[c] <= n /\ Covers(held[c], n)
        /\ Covers(rowSnapshot, n)
    /\ Stores!AckedEventsStand
    /\ \A e \in answered : \E c \in Callers, k \in Nat : k <= sent[c] /\ e.event = EventOf(c, k)

\* The latest version of numbered rows is their number.
LEMMA LatestOfNumbered ==
    ASSUME NEW n \in Nat, Numbered(n)
    PROVE  Stores!Latest = n
<1> DEFINE S == {0} \cup {e.version : e \in rows}
<1>1. S = 0..n
  BY DEF Numbered
<1>2. n \in S /\ \A y \in S : n >= y
  BY <1>1
<1>3. \A x \in S : (\A y \in S : x >= y) => x = n
  BY <1>1, <1>2
<1> QED BY <1>2, <1>3 DEF Stores!Latest, Stores!Max

\* A snapshot that covers its version and the rows behind it are all rows.
LEMMA Rehydrates ==
    ASSUME NEW n \in Nat, Numbered(n), NEW s, s.version \in Nat, Covers(s, n)
    PROVE  Stores!Rehydrated(s) = rows
<1>1. \A e \in rows : e.version \in 1..n
  BY DEF Numbered
<1>2. \A e \in rows : e.version <= s.version \/ e.version >= s.version + 1
  BY <1>1
<1> QED BY <1>2 DEF Covers, Stores!UpTo, Stores!Rehydrated

\* There are no rows at first.
LEMMA InitPg == Stores!PgInit => PgInv
<1> SUFFICES ASSUME Stores!PgInit PROVE PgInv
  OBVIOUS
<1>1. Numbered(0)
  BY FS_EmptySet DEF Stores!PgInit, Numbered
<1>2. PgTypes
  BY DEF Stores!PgInit, PgTypes, Stores!NoSnapshot
<1>3. Covers(Stores!NoSnapshot, 0)
  BY DEF Stores!PgInit, Covers, Stores!NoSnapshot, Stores!UpTo
<1> QED BY <1>1, <1>2, <1>3 DEF PgInv, Stores!PgInit, Stores!AckedEventsStand

\* A row that is one version ahead of the latest keeps the numbers.
LEMMA AppendNumbers ==
    ASSUME NEW n \in Nat, Numbered(n), NEW row, row.version = n + 1,
           rows' = rows \cup {row}
    PROVE  Numbered(n + 1)'
<1>1. row \notin rows
  BY DEF Numbered
<1>2. IsFiniteSet(rows') /\ Cardinality(rows') = n + 1
  BY <1>1, FS_AddElement DEF Numbered
<1>3. {e.version : e \in rows'} = {e.version : e \in rows} \cup {n + 1}
  OBVIOUS
<1>4. {e.version : e \in rows'} = 1..n + 1
  BY <1>3 DEF Numbered
<1>5. \A e \in rows : e.version # n + 1
  BY DEF Numbered
<1>6. \A e, f \in rows' : e.version = f.version => e = f
  BY <1>5 DEF Numbered
<1> QED BY <1>2, <1>4, <1>6 DEF Numbered

\* Whatever version the caller believes to be the latest, an Append succeeds only
\* behind the last row.
LEMMA AppendsBehind ==
    ASSUME PgInv, NEW c \in Callers, Stores!AppendEvent(c)
    PROVE  /\ expected[c] = Stores!Latest
           /\ Stores!Row(c, expected[c] + 1).version = Stores!Latest + 1
           /\ rows' = rows \cup {Stores!Row(c, expected[c] + 1)}
<1>1. PICK n \in Nat : Numbered(n) /\ expected[c] <= n
  BY DEF PgInv
<1>2. Stores!Latest = n
  BY <1>1, LatestOfNumbered
<1>3. /\ expected[c] # -1 /\ rows' = rows \cup {Stores!Row(c, expected[c] + 1)}
      /\ Stores!Unique(Stores!Row(c, expected[c] + 1).version)
  BY DEF Stores!AppendEvent
<1>4. Stores!Row(c, expected[c] + 1).version = expected[c] + 1
  BY DEF Stores!Row
<1>5. \A v \in 1..n : \E e \in rows : e.version = v
  <2> SUFFICES ASSUME NEW v \in 1..n PROVE \E e \in rows : e.version = v
    OBVIOUS
  <2>1. v \in {e.version : e \in rows}
    BY <1>1 DEF Numbered
  <2> QED BY <2>1
<1>6. expected[c] \in Int /\ expected[c] >= 0
  BY <1>3 DEF PgInv, PgTypes, Stores!AppendEvent
<1>7. expected[c] + 1 \notin 1..n
  BY <1>3, <1>4, <1>5 DEF Stores!Unique
<1> QED BY <1>1, <1>2, <1>3, <1>4, <1>6, <1>7


\* Every step of a caller keeps PgInv.
LEMMA NextPg == PgInv /\ [Stores!PgNext]_(Stores!pgVars) => PgInv'
<1> SUFFICES ASSUME PgInv, [Stores!PgNext]_(Stores!pgVars) PROVE PgInv'
  OBVIOUS
<1>0. PICK n \in Nat : /\ Numbered(n)
                       /\ \A c \in Callers : expected[c] <= n /\ Covers(held[c], n)
                       /\ Covers(rowSnapshot, n)
  BY DEF PgInv
<1>a. Stores!Latest = n
  BY <1>0, LatestOfNumbered
<1>b. PgTypes /\ answered \subseteq rows
  BY DEF PgInv, Stores!AckedEventsStand
<1>1. ASSUME NEW c \in Callers, Stores!GetLatestVersion(c) \/ Stores!Conflict(c) PROVE PgInv'
  <2>1. /\ expected' \in {[expected EXCEPT ![c] = n], [expected EXCEPT ![c] = -1]}
        /\ UNCHANGED <<rows, sent, answered, rowSnapshot, held>>
    BY <1>1, <1>a DEF Stores!GetLatestVersion, Stores!Conflict
  <2>2. PgTypes'
    BY <1>b, <2>1 DEF PgTypes
  <2>3. \A q \in Callers : expected'[q] <= n
    BY <1>0, <1>b, <2>1 DEF PgTypes
  <2>4. Numbered(n)' /\ Covers(rowSnapshot, n)' /\ \A q \in Callers : Covers(held[q], n)'
    BY <1>0, <2>1 DEF Numbered, Covers, Stores!UpTo
  <2> QED BY <2>1, <2>2, <2>3, <2>4 DEF PgInv, Stores!AckedEventsStand
<1>2. ASSUME NEW c \in Callers, Stores!AppendEvent(c) PROVE PgInv'
  <2> DEFINE row == Stores!Row(c, n + 1)
  <2>1. expected[c] = n /\ row.version = n + 1 /\ rows' = rows \cup {row}
    BY <1>2, <1>a, AppendsBehind
  <2>2. row.event = EventOf(c, sent[c] + 1)
    BY DEF Stores!Row, EventOf
  <2>3. UNCHANGED <<rowSnapshot, held>>
    BY <1>2 DEF Stores!AppendEvent
  <2>4. \/ /\ answered' = answered \cup {row} /\ sent' = [sent EXCEPT ![c] = sent[c] + 1]
           /\ expected' = [expected EXCEPT ![c] = n + 1]
        \/ UNCHANGED <<answered, sent, expected>>
    BY <1>2, <2>1 DEF Stores!AppendEvent
  <2> HIDE DEF row
  <2>5. Numbered(n + 1)'
    BY <1>0, <2>1, AppendNumbers
  <2>6. PgTypes'
    BY <1>b, <2>1, <2>3, <2>4 DEF PgTypes
  <2>7. \A q \in Callers : expected'[q] <= n + 1
    BY <1>0, <1>b, <2>4 DEF PgTypes
  <2>8. \A s \in [version : Nat, state : SUBSET rows] : Covers(s, n) => Covers(s, n + 1)'
    BY <2>1 DEF Covers, Stores!UpTo
  <2>9. Covers(rowSnapshot, n + 1)' /\ \A q \in Callers : Covers(held[q], n + 1)'
    <3>1. Covers(rowSnapshot, n + 1)'
      BY <1>0, <1>b, <2>1, <2>3 DEF PgTypes, Covers, Stores!UpTo
    <3>2. ASSUME NEW q \in Callers PROVE Covers(held[q], n + 1)'
      BY <1>0, <1>b, <2>1, <2>3 DEF PgTypes, Covers, Stores!UpTo
    <3> QED BY <3>1, <3>2
  <2>10. \A e \in answered' : \E q \in Callers, k \in Nat : k <= sent'[q] /\ e.event = EventOf(q, k)
    <3> SUFFICES ASSUME NEW e \in answered'
                 PROVE  \E q \in Callers, k \in Nat : k <= sent'[q] /\ e.event = EventOf(q, k)
      OBVIOUS
    <3>1. CASE e \in answered
      <4>1. PICK q \in Callers : \E k \in Nat : k <= sent[q] /\ e.event = EventOf(q, k)
        BY <3>1 DEF PgInv
      <4>2. sent[q] <= sent'[q] /\ sent[q] \in Nat /\ sent'[q] \in Nat
        BY <1>b, <2>4, <2>6 DEF PgTypes
      <4> QED BY <4>1, <4>2
    <3>2. CASE e \notin answered
      <4>1. e = row /\ sent'[c] = sent[c] + 1 /\ sent[c] \in Nat
        BY <1>b, <2>4, <3>2 DEF PgTypes
      <4> QED BY <2>2, <4>1
    <3> QED BY <3>1, <3>2
  <2>11. Stores!AckedEventsStand'
    <3>1. answered' \subseteq rows'
      BY <1>b, <2>1, <2>4
    <3>2. \A e \in answered : e.event # row.event
      <4> SUFFICES ASSUME NEW e \in answered, e.event = row.event PROVE FALSE
        OBVIOUS
      <4>1. PICK q \in Callers, k \in Nat : k <= sent[q] /\ e.event = EventOf(q, k)
        BY DEF PgInv
      <4>2. q = c /\ k = sent[c] + 1
        BY <2>2, <4>1 DEF EventOf
      <4>3. sent[c] \in Nat
        BY <1>b DEF PgTypes
      <4> QED BY <4>1, <4>2, <4>3
    <3>3. \A e, f \in answered' : e.event = f.event => e = f
      BY <2>4, <3>2 DEF PgInv, Stores!AckedEventsStand
    <3> QED BY <3>1, <3>3 DEF Stores!AckedEventsStand
  <2> QED
    <3>1. n + 1 \in Nat
      OBVIOUS
    <3> QED BY <2>5, <2>6, <2>7, <2>9, <2>10, <2>11, <3>1 DEF PgInv
<1>c. Stores!UpTo(n) = rows
  BY <1>0 DEF Stores!UpTo, Numbered
<1>3. ASSUME NEW c \in Callers, Stores!TakeSnapshot(c) PROVE PgInv'
  <2> DEFINE new == [version |-> n, state |-> rows]
  <2>1. Stores!Rehydrated(rowSnapshot) = rows
    BY <1>0, <1>b, Rehydrates DEF PgTypes
  <2>2. held' = [held EXCEPT ![c] = new] /\ UNCHANGED <<rows, expected, sent, answered, rowSnapshot>>
    BY <1>3, <1>a, <2>1 DEF Stores!TakeSnapshot
  <2>3. Covers(new, n)
    BY <1>c DEF Covers
  <2>4. PgTypes'
    BY <1>b, <2>2 DEF PgTypes
  <2>5. \A q \in Callers : Covers(held'[q], n)
    BY <1>0, <1>b, <2>2, <2>3 DEF PgTypes
  <2>6. Numbered(n)' /\ Covers(rowSnapshot, n)' /\ \A q \in Callers : Covers(held[q], n)'
    BY <1>0, <2>2, <2>5 DEF Numbered, Covers, Stores!UpTo
  <2> QED BY <1>0, <2>2, <2>4, <2>6 DEF PgInv, Stores!AckedEventsStand
<1>4. ASSUME NEW c \in Callers, Stores!SaveSnapshot(c) PROVE PgInv'
  <2>1. /\ rowSnapshot' = held[c] /\ held' = [held EXCEPT ![c] = Stores!NoSnapshot]
        /\ UNCHANGED <<rows, expected, sent, answered>>
    BY <1>4 DEF Stores!SaveSnapshot
  <2>2. Covers(Stores!NoSnapshot, n)
    BY <1>0 DEF Covers, Stores!NoSnapshot, Stores!UpTo, Numbered
  <2>3. PgTypes'
    BY <1>b, <2>1 DEF PgTypes, Stores!NoSnapshot
  <2>4. Covers(rowSnapshot', n) /\ \A q \in Callers : Covers(held'[q], n)
    BY <1>0, <1>b, <2>1, <2>2 DEF PgTypes
  <2>5. Numbered(n)' /\ Covers(rowSnapshot, n)' /\ \A q \in Callers : Covers(held[q], n)'
    BY <1>0, <2>1, <2>4 DEF Numbered, Covers, Stores!UpTo
  <2> QED BY <1>0, <2>1, <2>3, <2>5 DEF PgInv, Stores!AckedEventsStand
<1>5. CASE UNCHANGED Stores!pgVars
  <2>1. Numbered(n)' /\ Covers(rowSnapshot, n)' /\ \A q \in Callers : Covers(held[q], n)'
    BY <1>0, <1>5 DEF Numbered, Covers, Stores!UpTo, Stores!pgVars
  <2> QED BY <1>0, <1>b, <1>5, <2>1 DEF PgInv, PgTypes, Stores!AckedEventsStand, Stores!pgVars
<1> QED BY <1>1, <1>2, <1>3, <1>4, <1>5 DEF Stores!PgNext

\* The versions of an aggregate's rows are 1, 2, 3, ..., what Append has acknowledged
\* stands there once, and a snapshot with the rows behind it has every event
\* (eventstore_postgres.go).
THEOREM RowsStand ==
    Stores!PgSpec => [](Stores!VersionsHaveNoGap /\ Stores!AckedEventsStand /\ Stores!SnapshotsRehydrate)
<1>1. ASSUME PgInv PROVE Stores!VersionsHaveNoGap /\ Stores!AckedEventsStand /\ Stores!SnapshotsRehydrate
  <2>1. PICK n \in Nat : Numbered(n) /\ Covers(rowSnapshot, n)
    BY <1>1 DEF PgInv
  <2>2. Stores!Latest = n
    BY <2>1, LatestOfNumbered
  <2>3. Stores!Rehydrated(rowSnapshot) = rows
    BY <1>1, <2>1, Rehydrates DEF PgInv, PgTypes
  <2>4. Stores!VersionsHaveNoGap
    <3>1. Stores!Cardinality(rows) = Cardinality(rows)
      BY DEF Stores!Cardinality, Cardinality
    <3> QED BY <2>1, <2>2, <3>1 DEF Stores!VersionsHaveNoGap, Numbered
  <2> QED BY <1>1, <2>3, <2>4 DEF PgInv, Stores!SnapshotsRehydrate
<1> QED BY <1>1, InitPg, NextPg, PTL DEF Stores!PgSpec

\* An Append that succeeds is behind the latest row, though it compares nothing but
\* the primary key (eventstore_postgres.go).
THEOREM RowsAppendSerially == Stores!PgSpec => [][Stores!AppendsAreSerial]_(Stores!pgVars)
<1>1. ASSUME PgInv, [Stores!PgNext]_(Stores!pgVars) PROVE [Stores!AppendsAreSerial]_(Stores!pgVars)
  <2>1. ASSUME NEW c \in Callers, Stores!AppendEvent(c) PROVE Stores!AppendsAreSerial
    BY <1>1, <2>1, AppendsBehind DEF Stores!AppendsAreSerial
  <2>2. ASSUME NEW c \in Callers,
               Stores!GetLatestVersion(c) \/ Stores!Conflict(c) \/ Stores!TakeSnapshot(c) \/ Stores!SaveSnapshot(c)
        PROVE  Stores!AppendsAreSerial
    BY <2>2 DEF Stores!GetLatestVersion, Stores!Conflict, Stores!TakeSnapshot, Stores!SaveSnapshot, Stores!AppendsAreSerial
  <2> QED BY <1>1, <2>1, <2>2 DEF Stores!PgNext
<1> QED BY <1>1, InitPg, NextPg, PTL DEF Stores!PgSpec

-----------------------------------------------------------------------------
(* PersistentEventBus.                                                     *)

\* Nothing is recorded before it is subscribed or deleted while it is.
BusInv == Stores!RecordsMatchBus /\ saving \subseteq live /\ live \cap deleting = {}

\* The records of subscriptions are those of the bus, but for what is under way, what
\* failed, and what earlier processes left (eventbus_persistent.go).
THEOREM RecordsFollowBus == Stores!BusSpec => []Stores!RecordsMatchBus
<1>1. Stores!BusInit => BusInv
  BY DEF Stores!BusInit, BusInv, Stores!RecordsMatchBus
<1>2. BusInv /\ [Stores!BusNext]_(Stores!busVars) => BusInv'
  <2> SUFFICES ASSUME BusInv, [Stores!BusNext]_(Stores!busVars) PROVE BusInv'
    OBVIOUS
  <2> USE DEF BusInv, Stores!RecordsMatchBus
  <2>1. ASSUME NEW id \in SubIDs, Stores!Subscribe(id) \/ Stores!PersistSubscription(id) PROVE BusInv'
    BY <2>1 DEF Stores!Subscribe, Stores!PersistSubscription
  <2>2. ASSUME NEW id \in SubIDs, Stores!Unsubscribe(id) \/ Stores!DeleteRecord(id) PROVE BusInv'
    BY <2>2 DEF Stores!Unsubscribe, Stores!DeleteRecord
  <2>3. CASE Stores!Restart
    BY <2>3 DEF Stores!Restart
  <2>4. CASE UNCHANGED Stores!busVars
    BY <2>4 DEF Stores!busVars
  <2> QED BY <2>1, <2>2, <2>3, <2>4 DEF Stores!BusNext
<1>3. BusInv => Stores!RecordsMatchBus
  BY DEF BusInv
<1> QED BY <1>1, <1>2, <1>3, PTL DEF Stores!BusSpec

-----------------------------------------------------------------------------
(* AutoSnapshotTrigger.                                                    *)

\* s is what the stream was at some time.
Earlier(s) == s \in Seq(Snap!Envelope) /\ Len(s) <= Len(shard) /\ \A i \in DOMAIN s : s[i] = shard[i]

SnapSteps == {"idle", "count", "check", "start", "stream", "handle", "save", "reset"}

\* Whatever takeSnapshot has read and SaveSnapshot has stored is a beginning of the
\* stream.
SnapInv ==
    /\ shard \in Seq(Snap!Envelope) /\ versions = Len(shard)
    /\ \A i \in DOMAIN shard : shard[i].version = i
    /\ Earlier(saved.state) /\ saved.version = Len(saved.state)
    /\ read \in [Snap!Threads -> Seq(Snap!Envelope)] /\ tPc \in [Snap!Threads -> SnapSteps]
    /\ \A t \in Snap!Threads :
        /\ Earlier(read[t])
        /\ tPc[t] \in {"handle", "save"} => read[t] # <<>>

\* There is no event and no snapshot at first.
LEMMA InitSnap == Snap!Init => SnapInv
BY DEF Snap!Init, SnapInv, Earlier, Snap!NoSnapshot, SnapSteps

\* Every append, count and snapshot keeps SnapInv.
LEMMA NextSnap == SnapInv /\ [Snap!Next]_(Snap!vars) => SnapInv'
<1> SUFFICES ASSUME SnapInv, [Snap!Next]_(Snap!vars) PROVE SnapInv'
  OBVIOUS
<1>1. ASSUME NEW c \in Clients, NEW id \in EventIDs, NEW v \in -1..MaxEvents, Snap!Execute(c, id, v)
      PROVE  SnapInv'
  <2> DEFINE e == [id |-> id, version |-> Len(shard) + 1]
  <2>1. /\ shard' = Append(shard, e) /\ versions' = versions + 1
        /\ tPc' = [tPc EXCEPT ![c] = "count"] /\ UNCHANGED <<saved, read>>
    BY <1>1 DEF Snap!Execute, Snap!Goto, SnapInv
  <2>2. e \in Snap!Envelope
    BY DEF Snap!Envelope, SnapInv
  <2>3. \A s : Earlier(s) => /\ s \in Seq(Snap!Envelope) /\ Len(s) <= Len(shard')
                             /\ \A i \in DOMAIN s : s[i] = shard'[i]
    BY <2>1, <2>2 DEF Earlier, SnapInv
  <2>4. shard' \in Seq(Snap!Envelope) /\ Len(shard') = Len(shard) + 1 /\ \A i \in DOMAIN shard' : shard'[i].version = i
    BY <2>1, <2>2 DEF SnapInv
  <2>5. tPc' \in [Snap!Threads -> SnapSteps] /\ \A t \in Snap!Threads : tPc'[t] \in {"handle", "save"} => tPc'[t] = tPc[t]
    BY <2>1 DEF SnapInv, Snap!Threads, SnapSteps
  <2>6. \A t \in Snap!Threads : Earlier(read[t])'
    BY <2>1, <2>3 DEF SnapInv, Earlier
  <2>7. Earlier(saved.state)'
    BY <2>1, <2>3 DEF SnapInv, Earlier
  <2> QED BY <2>1, <2>4, <2>5, <2>6, <2>7 DEF SnapInv
<1>2. ASSUME NEW c \in Clients, Snap!Count(c) \/ Snap!Check(c) PROVE SnapInv'
  <2>1. /\ UNCHANGED <<shard, versions, saved, read>> /\ tPc' \in [Snap!Threads -> SnapSteps]
        /\ \A t \in Snap!Threads : tPc'[t] \in {"handle", "save"} => tPc'[t] = tPc[t]
    BY <1>2 DEF Snap!Count, Snap!Check, Snap!Goto, SnapInv, Snap!Threads, SnapSteps
  <2> QED BY <2>1 DEF SnapInv, Earlier
<1>3. ASSUME NEW g \in Goroutines, Snap!Start(g) PROVE SnapInv'
  <2>1. /\ UNCHANGED <<shard, versions, saved, read>> /\ tPc' \in [Snap!Threads -> SnapSteps]
        /\ \A t \in Snap!Threads : tPc'[t] \in {"handle", "save"} => tPc'[t] = tPc[t]
    BY <1>3 DEF Snap!Start, Snap!Goto, SnapInv, Snap!Threads, SnapSteps
  <2> QED BY <2>1 DEF SnapInv, Earlier
<1>4. ASSUME NEW t \in Snap!Threads, Snap!StreamEvents(t) PROVE SnapInv'
  <2>1. /\ UNCHANGED <<shard, versions, saved>> /\ read' = [read EXCEPT ![t] = shard]
        /\ tPc' = [tPc EXCEPT ![t] = IF shard = <<>> THEN "idle" ELSE "handle"]
    BY <1>4 DEF Snap!StreamEvents, Snap!Goto
  <2>2. Earlier(shard)
    BY DEF Earlier, SnapInv
  <2>3. tPc' \in [Snap!Threads -> SnapSteps] /\ read' \in [Snap!Threads -> Seq(Snap!Envelope)]
    BY <2>1 DEF SnapInv, SnapSteps
  <2>4. \A q \in Snap!Threads : Earlier(read'[q]) /\ (tPc'[q] \in {"handle", "save"} => read'[q] # <<>>)
    BY <2>1, <2>2 DEF SnapInv
  <2> QED BY <2>1, <2>3, <2>4 DEF SnapInv, Earlier
<1>5. ASSUME NEW t \in Snap!Threads, Snap!Handle(t) PROVE SnapInv'
  <2>1. /\ UNCHANGED <<shard, versions, saved, read>> /\ tPc' \in [Snap!Threads -> SnapSteps]
        /\ \A q \in Snap!Threads : tPc'[q] \in {"handle", "save"} => tPc[q] \in {"handle", "save"}
    BY <1>5 DEF Snap!Handle, Snap!Goto, SnapInv, SnapSteps
  <2> QED BY <2>1 DEF SnapInv, Earlier
<1>6. ASSUME NEW t \in Snap!Threads, Snap!Save(t) PROVE SnapInv'
  <2> DEFINE s == read[t]
  <2>1. /\ UNCHANGED <<shard, versions, read>> /\ tPc' = [tPc EXCEPT ![t] = "reset"]
        /\ saved' = [version |-> Snap!Last(s).version, state |-> s]
        /\ s # <<>> /\ Earlier(s)
    BY <1>6 DEF Snap!Save, Snap!Goto, SnapInv
  <2>2. Snap!Last(s).version = Len(s)
    <3>1. s \in Seq(Snap!Envelope) /\ Len(s) \in DOMAIN s /\ Len(s) \in DOMAIN shard
      BY <2>1 DEF Earlier, SnapInv
    <3> QED BY <2>1, <3>1 DEF Snap!Last, Earlier, SnapInv
  <2>3. /\ tPc' \in [Snap!Threads -> SnapSteps]
        /\ \A q \in Snap!Threads : tPc'[q] \in {"handle", "save"} => tPc[q] \in {"handle", "save"}
    BY <2>1 DEF SnapInv, SnapSteps
  <2>4. Earlier(saved.state)' /\ saved'.version = Len(saved'.state)
    BY <2>1, <2>2 DEF Earlier
  <2> QED BY <2>1, <2>3, <2>4 DEF SnapInv, Earlier
<1>7. ASSUME NEW t \in Snap!Threads, Snap!Reset(t) PROVE SnapInv'
  <2>1. /\ UNCHANGED <<shard, versions, saved>> /\ read' = [read EXCEPT ![t] = <<>>]
        /\ tPc' = [tPc EXCEPT ![t] = "idle"]
    BY <1>7 DEF Snap!Reset, Snap!Goto
  <2>2. /\ tPc' \in [Snap!Threads -> SnapSteps] /\ read' \in [Snap!Threads -> Seq(Snap!Envelope)]
        /\ \A q \in Snap!Threads : tPc'[q] \in {"handle", "save"} =>
                tPc[q] \in {"handle", "save"} /\ read'[q] = read[q]
    BY <2>1 DEF SnapInv, SnapSteps
  <2>3. Earlier(<<>>)
    BY DEF Earlier, SnapInv
  <2>4. \A q \in Snap!Threads : Earlier(read'[q])
    BY <2>1, <2>3 DEF SnapInv
  <2> QED BY <2>1, <2>2, <2>4 DEF SnapInv, Earlier
<1>8. CASE Snap!TimePasses \/ Snap!Cancel \/ UNCHANGED Snap!vars
  <2>1. UNCHANGED <<shard, versions, saved, tPc, read>>
    BY <1>8 DEF Snap!TimePasses, Snap!Cancel, Snap!vars
  <2> QED BY <2>1 DEF SnapInv, Earlier
<1> QED
  BY <1>1, <1>2, <1>3, <1>4, <1>5, <1>6, <1>7, <1>8 DEF Snap!Next, Snap!TakeSnapshot

\* Whatever snapshots are taken at once, the one that is saved has exactly the events
\* up to its version (AutoSnapshotTrigger, eventstore_snapshot.go).
THEOREM SnapshotsAreBeginnings == Snap!Spec => []Snap!SnapshotMatchesStream
<1>1. ASSUME SnapInv PROVE Snap!SnapshotMatchesStream
  <2> DEFINE s == saved.state
  <2>1. s \in Seq(Snap!Envelope) /\ shard \in Seq(Snap!Envelope) /\ Len(s) <= Len(shard)
        /\ \A i \in 1..Len(s) : s[i] = shard[i]
    BY <1>1 DEF SnapInv, Earlier
  <2>2. SubSeq(s, 1, Len(s)) = SubSeq(shard, 1, Len(s))
    BY <2>1
  <2> QED BY <1>1, <2>1, <2>2 DEF SnapInv, Snap!SnapshotMatchesStream, Snap!IsPrefix
<1> QED BY <1>1, InitSnap, NextSnap, PTL DEF Snap!Spec

\* How far the snapshot is behind is counted, but for the event that is about to be.
Counted(c) ==
    /\ \A t \in Snap!Threads \ {c} : tPc[t] = "idle"
    /\ since \in Int
    /\ tPc[c] \in {"idle", "check", "stream", "handle", "save"} =>
        since = Len(shard) - saved.version
    /\ tPc[c] = "count" => since + 1 = Len(shard) - saved.version
    /\ tPc[c] \in {"handle", "save"} => read[c] = shard
    /\ tPc[c] = "reset" => saved.version = Len(shard)
    /\ tPc[c] # "start"

\* A client that takes its snapshots itself knows how far they are behind
\* (eventstore_snapshot.go).
THEOREM OneClientCounts ==
    ASSUME NEW c, Clients = {c}, ~AsyncSnapshot
    PROVE  Snap!Spec => []Snap!NothingUncounted
<1>0. c \in Snap!Threads
  BY DEF Snap!Threads
<1>1. Snap!Init => Counted(c)
  BY <1>0 DEF Snap!Init, Counted, Snap!NoSnapshot
<1>2. SnapInv /\ Counted(c) /\ [Snap!Next]_(Snap!vars) => Counted(c)'
  <2> SUFFICES ASSUME SnapInv, Counted(c), [Snap!Next]_(Snap!vars) PROVE Counted(c)'
    OBVIOUS
  <2>0. /\ tPc \in [Snap!Threads -> SnapSteps] /\ read \in [Snap!Threads -> Seq(Snap!Envelope)]
        /\ shard \in Seq(Snap!Envelope) /\ saved.version \in Nat
    BY DEF SnapInv, Earlier
  <2>1. ASSUME NEW id, NEW v, Snap!Execute(c, id, v) PROVE Counted(c)'
    <3> DEFINE e == [id |-> id, version |-> versions + 1]
    <3>1. /\ tPc[c] = "idle" /\ shard' = Append(shard, e)
          /\ tPc' = [tPc EXCEPT ![c] = "count"] /\ UNCHANGED <<saved, since, read>>
      BY <2>1 DEF Snap!Execute, Snap!Goto
    <3>2. Len(shard') = Len(shard) + 1
      BY <2>0, <3>1
    <3> QED BY <1>0, <2>0, <3>1, <3>2 DEF Counted
  <2>2. ASSUME Snap!Count(c) \/ Snap!Check(c) PROVE Counted(c)'
    BY <1>0, <2>0, <2>2 DEF Snap!Count, Snap!Check, Snap!Goto, Counted
  <2>3. ASSUME NEW t \in Snap!Threads, t # c PROVE ~Snap!TakeSnapshot(t) /\ ~Snap!Start(t)
    BY <2>3 DEF Counted, Snap!TakeSnapshot, Snap!StreamEvents, Snap!Handle, Snap!Save, Snap!Reset, Snap!Start
  <2>4. ~Snap!Start(c)
    BY DEF Snap!Start, Counted
  <2>5. ASSUME Snap!StreamEvents(c) \/ Snap!Handle(c) PROVE Counted(c)'
    BY <1>0, <2>0, <2>5 DEF Snap!StreamEvents, Snap!Handle, Snap!Goto, Counted
  <2>6. ASSUME Snap!Save(c) PROVE Counted(c)'
    <3>1. /\ read[c] = shard /\ shard # <<>> /\ tPc' = [tPc EXCEPT ![c] = "reset"]
          /\ saved' = [version |-> Snap!Last(shard).version, state |-> shard]
          /\ UNCHANGED <<shard, since, read>>
      BY <1>0, <2>6 DEF Snap!Save, Snap!Goto, Counted, SnapInv
    <3>2. Snap!Last(shard).version = Len(shard)
      BY <2>0, <3>1 DEF Snap!Last, SnapInv
    <3> QED BY <1>0, <2>0, <3>1, <3>2 DEF Counted
  <2>7. ASSUME Snap!Reset(c) PROVE Counted(c)'
    BY <1>0, <2>0, <2>7 DEF Snap!Reset, Snap!Goto, Counted
  <2>8. CASE Snap!TimePasses \/ Snap!Cancel \/ UNCHANGED Snap!vars
    BY <2>8 DEF Snap!TimePasses, Snap!Cancel, Snap!vars, Counted
  <2> QED
    BY <1>0, <2>1, <2>2, <2>3, <2>4, <2>5, <2>6, <2>7, <2>8 DEF Snap!Next, Snap!TakeSnapshot, Snap!Threads
<1>3. SnapInv /\ Counted(c) => Snap!NothingUncounted
  BY <1>0 DEF Counted, Snap!NothingUncounted
<1> QED BY <1>1, <1>2, <1>3, InitSnap, NextSnap, PTL DEF Snap!Spec
-----------------------------------------------------------------------------
(* What a check for a new release shows. *)

Threads == Command!Goroutines
CheckStates == [time : Int, result : Int]
Places == {"idle", "started", "asking", "storing", "truncate", "write"}

\* A file or an answer that is not there is neither a number nor a state.
Readable ==
    /\ Interval \in Int
    /\ {NoDocument, EmptyFile, MixedFile} \cap (Int \cup CheckStates) = {}

\* The result is no older than the check that is remembered with it.
Fresh(state) == state.time <= state.result

\* A goroutine of a process with m in memory, which is at `at`, shares that state if c, and
\* is about to keep a; the other one is at at2 and shares it if c2.  While one of the two
\* has set its time in the shared state, and not yet its result, its answer is as young.
Kept(m, at, c, a) ==
    /\ at = "storing" => a \in Int
    /\ at \in {"truncate", "write"} => a \in CheckStates
    /\ c => m \in CheckStates

Sharing(at, c) == c /\ at = "storing"

Timely(m, at, c, a, at2, c2) ==
    /\ at \in {"truncate", "write"} => Fresh(a)
    /\ m # NoDocument /\ ~Sharing(at, c) /\ ~Sharing(at2, c2) => Fresh(m)
    /\ Sharing(at, c) /\ ~Sharing(at2, c2) => m.time <= a

Ended(m, atMain, atAuto, cMain, cAuto) ==
    atMain = "idle" => atAuto = "idle" /\ m = NoDocument /\ ~cMain /\ ~cAuto

CheckTypes ==
    /\ stateFile \in Command!Unreadable \cup CheckStates /\ clock \in Int
    /\ memory \in [Processes -> CheckStates \cup {NoDocument}]
    /\ checking \in [Threads -> Places] /\ caches \in [Threads -> BOOLEAN]
    /\ reply \in [Threads -> Int \cup CheckStates \cup {NoDocument}] /\ raced \in BOOLEAN

CheckInv ==
    /\ CheckTypes
    /\ \A t \in Threads : Kept(memory[t[1]], checking[t], caches[t], reply[t])
    /\ \A p \in Processes :
          Ended(memory[p], checking[Command!Main(p)], checking[Command!Auto(p)],
                caches[Command!Main(p)], caches[Command!Auto(p)])
    /\ ~raced =>
          /\ stateFile \in CheckStates => Fresh(stateFile)
          /\ \A t \in Threads :
                Timely(memory[t[1]], checking[t], caches[t], reply[t],
                       checking[Command!Other(t)], caches[Command!Other(t)])
    /\ Command!ShownIsRecent

CheckSpec == Command!CheckInit /\ [][Command!CheckNext]_(Command!checkVars)

\* Each process has two goroutines.
LEMMA TwoOfEach ==
    /\ \A p \in Processes :
          /\ Command!Main(p) \in Threads /\ Command!Auto(p) \in Threads
          /\ Command!Main(p)[1] = p /\ Command!Auto(p)[1] = p
          /\ Command!Main(p) # Command!Auto(p)
          /\ Command!Other(Command!Main(p)) = Command!Auto(p)
          /\ Command!Other(Command!Auto(p)) = Command!Main(p)
    /\ \A t \in Threads :
          /\ t[1] \in Processes
          /\ t = Command!Main(t[1]) \/ t = Command!Auto(t[1])
          /\ t[2] = "main" <=> t = Command!Main(t[1])
<1>1. ASSUME NEW p \in Processes
      PROVE  /\ Command!Main(p) \in Threads /\ Command!Auto(p) \in Threads
             /\ Command!Main(p)[1] = p /\ Command!Auto(p)[1] = p
             /\ Command!Main(p) # Command!Auto(p)
             /\ Command!Other(Command!Main(p)) = Command!Auto(p)
             /\ Command!Other(Command!Auto(p)) = Command!Main(p)
  BY DEF Threads, Command!Goroutines, Command!Main, Command!Auto, Command!Other
<1>2. ASSUME NEW t \in Threads
      PROVE  /\ t[1] \in Processes
             /\ t = Command!Main(t[1]) \/ t = Command!Auto(t[1])
             /\ t[2] = "main" <=> t = Command!Main(t[1])
  BY DEF Threads, Command!Goroutines, Command!Main, Command!Auto
<1> QED BY <1>1, <1>2

\* It is enough to look at the two goroutines of the process that a step is of.
LEMMA OneProcess ==
    ASSUME Readable, CheckInv, NEW p \in Processes, CheckTypes',
           NEW m, NEW a, m = Command!Main(p), a = Command!Auto(p),
           \A q \in Processes \ {p} : memory'[q] = memory[q],
           \A t \in Threads \ {m, a} :
              checking'[t] = checking[t] /\ caches'[t] = caches[t] /\ reply'[t] = reply[t],
           Kept(memory'[p], checking'[m], caches'[m], reply'[m]),
           Kept(memory'[p], checking'[a], caches'[a], reply'[a]),
           Ended(memory'[p], checking'[m], checking'[a], caches'[m], caches'[a]),
           ~raced' =>
              /\ ~raced
              /\ stateFile' \in CheckStates => Fresh(stateFile')
              /\ Timely(memory'[p], checking'[m], caches'[m], reply'[m], checking'[a], caches'[a])
              /\ Timely(memory'[p], checking'[a], caches'[a], reply'[a], checking'[m], caches'[m]),
           Command!ShownIsRecent'
    PROVE  CheckInv'
<1>1. ASSUME NEW t \in Threads, t[1] = p PROVE t \in {m, a}
  BY <1>1, TwoOfEach
<1>2. m \in Threads /\ a \in Threads /\ m[1] = p /\ a[1] = p
      /\ Command!Other(m) = a /\ Command!Other(a) = m
  BY TwoOfEach
<1>3. ASSUME NEW t \in Threads, t \notin {m, a}
      PROVE  /\ t[1] \in Processes \ {p}
             /\ Command!Other(t) \in Threads \ {m, a}
             /\ Command!Other(t)[1] = t[1]
  <2>1. t[1] \in Processes \ {p}
    BY <1>3, TwoOfEach
  <2>2. Command!Other(t) \in Threads /\ Command!Other(t)[1] = t[1]
    BY <2>1, <1>3, TwoOfEach
  <2> QED BY <1>2, <2>1, <2>2
<1>4. ASSUME NEW t \in Threads
      PROVE  Kept(memory'[t[1]], checking'[t], caches'[t], reply'[t])
  <2>1. CASE t \in {m, a}
    BY <2>1, <1>2
  <2>2. CASE t \notin {m, a}
    <3>1. memory'[t[1]] = memory[t[1]] /\ checking'[t] = checking[t]
          /\ caches'[t] = caches[t] /\ reply'[t] = reply[t]
      BY <2>2, <1>3
    <3> QED BY <3>1 DEF CheckInv
  <2> QED BY <2>1, <2>2
<1>5. ASSUME NEW q \in Processes
      PROVE  Ended(memory'[q], checking'[Command!Main(q)], checking'[Command!Auto(q)],
                   caches'[Command!Main(q)], caches'[Command!Auto(q)])
  <2>1. CASE q = p
    BY <2>1
  <2>2. CASE q # p
    <3>1. Command!Main(q) \in Threads \ {m, a} /\ Command!Auto(q) \in Threads \ {m, a}
      BY <2>2, TwoOfEach
    <3> QED BY <2>2, <3>1 DEF CheckInv
  <2> QED BY <2>1, <2>2
<1>6. ASSUME ~raced', NEW t \in Threads
      PROVE  Timely(memory'[t[1]], checking'[t], caches'[t], reply'[t],
                    checking'[Command!Other(t)], caches'[Command!Other(t)])
  <2>1. CASE t \in {m, a}
    BY <1>2, <1>6, <2>1
  <2>2. CASE t \notin {m, a}
    <3> DEFINE o == Command!Other(t)
    <3>1. memory'[t[1]] = memory[t[1]] /\ checking'[t] = checking[t]
          /\ caches'[t] = caches[t] /\ reply'[t] = reply[t]
          /\ checking'[o] = checking[o] /\ caches'[o] = caches[o]
      BY <2>2, <1>3
    <3>2. Timely(memory[t[1]], checking[t], caches[t], reply[t], checking[o], caches[o])
      BY <1>6 DEF CheckInv
    <3> QED BY <3>1, <3>2
  <2> QED BY <2>1, <2>2
<1> QED BY <1>4, <1>5, <1>6 DEF CheckInv
LEMMA CheckBegins == ASSUME Readable, Command!CheckInit PROVE CheckInv
<1>1. ASSUME NEW t \in Threads
      PROVE  /\ Kept(memory[t[1]], checking[t], caches[t], reply[t])
             /\ Timely(memory[t[1]], checking[t], caches[t], reply[t],
                       checking[Command!Other(t)], caches[Command!Other(t)])
  <2>1. t[1] \in Processes /\ Command!Other(t) \in Threads
    BY TwoOfEach
  <2>2. memory[t[1]] = NoDocument /\ checking[t] = "idle" /\ ~caches[t]
        /\ checking[Command!Other(t)] = "idle"
    BY <2>1 DEF Command!CheckInit, Threads
  <2> QED BY <2>2 DEF Kept, Timely, Sharing
<1>2. ASSUME NEW p \in Processes
      PROVE  Ended(memory[p], checking[Command!Main(p)], checking[Command!Auto(p)],
                   caches[Command!Main(p)], caches[Command!Auto(p)])
  BY TwoOfEach DEF Command!CheckInit, Threads, Ended
<1>3. CheckTypes
  BY DEF Command!CheckInit, CheckTypes, Readable, Threads, Places, Command!Unreadable
<1>4. stateFile \notin CheckStates /\ Command!ShownIsRecent
  BY DEF Command!CheckInit, Readable, Command!ShownIsRecent
<1> QED BY <1>1, <1>2, <1>3, <1>4 DEF CheckInv

\* What a process has cached or can read is a state, and is fresh unless one of its
\* goroutines is about to set the result.
LEMMA LoadsState ==
    ASSUME Readable, CheckInv, NEW p \in Processes
    PROVE  LET state == Command!LoadUpgradeState(p)
               m == Command!Main(p)
               a == Command!Auto(p)
           IN  /\ state \in CheckStates \cup {NoDocument}
               /\ memory[p] # NoDocument => state = memory[p]
               /\ state # NoDocument /\ ~raced /\ ~Sharing(checking[m], caches[m])
                    /\ ~Sharing(checking[a], caches[a]) => Fresh(state)
<1>1. Command!Main(p) \in Threads /\ Command!Main(p)[1] = p
      /\ Command!Other(Command!Main(p)) = Command!Auto(p)
  BY TwoOfEach
<1>2. memory[p] \in CheckStates \cup {NoDocument}
      /\ stateFile \in Command!Unreadable \cup CheckStates
  BY DEF CheckInv, CheckTypes
<1>3. CASE memory[p] # NoDocument
  BY <1>1, <1>2, <1>3 DEF CheckInv, Timely, Command!LoadUpgradeState
<1>4. CASE memory[p] = NoDocument /\ stateFile \in Command!Unreadable
  BY <1>4 DEF Command!LoadUpgradeState
<1>5. CASE memory[p] = NoDocument /\ stateFile \notin Command!Unreadable
  BY <1>2, <1>5 DEF CheckInv, Command!LoadUpgradeState
<1> QED BY <1>3, <1>4, <1>5

\* Exit clears all that the process had.
LEMMA ExitClears ==
    ASSUME Readable, CheckInv, NEW p \in Processes, Command!Exit(p),
           UNCHANGED clock, stateFile' \in Command!Unreadable \cup CheckStates,
           raced' \in BOOLEAN,
           ~raced' => ~raced /\ (stateFile' \in CheckStates => Fresh(stateFile')),
           Command!ShownIsRecent'
    PROVE  CheckInv'
<1> DEFINE m == Command!Main(p)
           a == Command!Auto(p)
<1>1. m \in Threads /\ a \in Threads /\ m # a
  BY TwoOfEach
<1> HIDE DEF m, a
<1>2. CheckTypes
  BY DEF CheckInv
<1>3. /\ memory' = [memory EXCEPT ![p] = NoDocument]
      /\ checking' = [checking EXCEPT ![m] = "idle", ![a] = "idle"]
      /\ caches' = [caches EXCEPT ![m] = FALSE, ![a] = FALSE]
      /\ reply' = [reply EXCEPT ![m] = NoDocument, ![a] = NoDocument]
  BY DEF Command!Exit, m, a
<1>4. CheckTypes'
  BY <1>1, <1>2, <1>3 DEF CheckTypes, Places
<1>5. /\ memory'[p] = NoDocument /\ checking'[m] = "idle" /\ checking'[a] = "idle"
      /\ ~caches'[m] /\ ~caches'[a]
      /\ \A q \in Processes \ {p} : memory'[q] = memory[q]
      /\ \A t \in Threads \ {m, a} :
            checking'[t] = checking[t] /\ caches'[t] = caches[t] /\ reply'[t] = reply[t]
  BY <1>1, <1>2, <1>3 DEF CheckTypes
<1>6. /\ Kept(memory'[p], checking'[m], caches'[m], reply'[m])
      /\ Kept(memory'[p], checking'[a], caches'[a], reply'[a])
      /\ Ended(memory'[p], checking'[m], checking'[a], caches'[m], caches'[a])
      /\ Timely(memory'[p], checking'[m], caches'[m], reply'[m], checking'[a], caches'[a])
      /\ Timely(memory'[p], checking'[a], caches'[a], reply'[a], checking'[m], caches'[m])
  BY <1>5 DEF Kept, Ended, Timely, Sharing
<1> QED BY <1>4, <1>5, <1>6, OneProcess DEF m, a

\* Nothing is shown but by CmdUpgradeCheck.
LEMMA ShowsNothing == ASSUME shown' = NoDocument PROVE Command!ShownIsRecent'
BY DEF Command!ShownIsRecent

\* The facts that a step of p's goroutines starts from.
LEMMA PairFits ==
    ASSUME CheckInv, NEW p \in Processes, NEW m, NEW a,
           m = Command!Main(p), a = Command!Auto(p)
    PROVE  /\ m \in Threads /\ a \in Threads /\ m # a /\ m[1] = p /\ a[1] = p
           /\ memory[p] \in CheckStates \cup {NoDocument}
           /\ checking[m] \in Places /\ checking[a] \in Places
           /\ caches[m] \in BOOLEAN /\ caches[a] \in BOOLEAN
           /\ Kept(memory[p], checking[m], caches[m], reply[m])
           /\ Kept(memory[p], checking[a], caches[a], reply[a])
           /\ Ended(memory[p], checking[m], checking[a], caches[m], caches[a])
           /\ ~raced =>
                /\ stateFile \in CheckStates => Fresh(stateFile)
                /\ Timely(memory[p], checking[m], caches[m], reply[m], checking[a], caches[a])
                /\ Timely(memory[p], checking[a], caches[a], reply[a], checking[m], caches[m])
<1>1. m \in Threads /\ a \in Threads /\ m # a /\ m[1] = p /\ a[1] = p
      /\ Command!Other(m) = a /\ Command!Other(a) = m
  BY TwoOfEach
<1>2. /\ memory[p] \in CheckStates \cup {NoDocument}
      /\ checking[m] \in Places /\ checking[a] \in Places
      /\ caches[m] \in BOOLEAN /\ caches[a] \in BOOLEAN
  BY <1>1 DEF CheckInv, CheckTypes
<1>3. /\ Kept(memory[p], checking[m], caches[m], reply[m])
      /\ Kept(memory[p], checking[a], caches[a], reply[a])
      /\ Ended(memory[p], checking[m], checking[a], caches[m], caches[a])
  BY <1>1 DEF CheckInv
<1>4. ASSUME ~raced
      PROVE  /\ stateFile \in CheckStates => Fresh(stateFile)
             /\ Timely(memory[p], checking[m], caches[m], reply[m], checking[a], caches[a])
             /\ Timely(memory[p], checking[a], caches[a], reply[a], checking[m], caches[m])
  BY <1>1, <1>4 DEF CheckInv
<1> QED BY <1>1, <1>2, <1>3, <1>4

LEMMA AutoKeeps ==
    ASSUME Readable, CheckInv, NEW p \in Processes, Command!AutoCheckUpgrade(p)
    PROVE  CheckInv'
<1> DEFINE m == Command!Main(p)
           a == Command!Auto(p)
           state == Command!LoadUpgradeState(p)
<1>1. /\ checking[m] = "idle"
      /\ memory' = [memory EXCEPT ![p] = state]
      /\ caches' = [caches EXCEPT ![a] = memory'[p] # NoDocument]
      /\ checking' = [checking EXCEPT ![m] = "started",
                        ![a] = IF Command!Recent(memory'[p]) THEN "idle" ELSE "asking"]
      /\ shown' = NoDocument /\ UNCHANGED <<stateFile, clock, reply, raced>>
  BY DEF Command!AutoCheckUpgrade, m, a, state
<1>2. /\ state \in CheckStates \cup {NoDocument}
      /\ state # NoDocument /\ ~raced /\ ~Sharing(checking[m], caches[m])
                    /\ ~Sharing(checking[a], caches[a]) => Fresh(state)
  BY LoadsState
<1> HIDE DEF m, a, state
<1>3. /\ m \in Threads /\ a \in Threads /\ m # a
      /\ Ended(memory[p], checking[m], checking[a], caches[m], caches[a])
      /\ caches[m] \in BOOLEAN
      /\ ~raced => (stateFile \in CheckStates => Fresh(stateFile))
  BY PairFits DEF m, a
<1>4. CheckTypes
  BY DEF CheckInv
<1>5. CheckTypes'
  BY <1>1, <1>2, <1>3, <1>4 DEF CheckTypes, Places
<1>6. /\ memory'[p] = state /\ checking'[m] = "started" /\ checking'[a] \in {"idle", "asking"}
      /\ ~caches'[m] /\ caches'[a] = (state # NoDocument)
      /\ \A q \in Processes \ {p} : memory'[q] = memory[q]
      /\ \A t \in Threads \ {m, a} :
            checking'[t] = checking[t] /\ caches'[t] = caches[t] /\ reply'[t] = reply[t]
  BY <1>1, <1>3, <1>4 DEF CheckTypes, Ended
<1>7. ~raced /\ state # NoDocument => Fresh(state)
  BY <1>1, <1>2, <1>3 DEF Ended, Sharing
<1>8. /\ Kept(memory'[p], checking'[m], caches'[m], reply'[m])
      /\ Kept(memory'[p], checking'[a], caches'[a], reply'[a])
      /\ Ended(memory'[p], checking'[m], checking'[a], caches'[m], caches'[a])
  BY <1>2, <1>6 DEF Kept, Ended
<1>9. ~raced =>
        /\ Timely(memory'[p], checking'[m], caches'[m], reply'[m], checking'[a], caches'[a])
        /\ Timely(memory'[p], checking'[a], caches'[a], reply'[a], checking'[m], caches'[m])
  BY <1>6, <1>7 DEF Timely, Sharing
<1>10. ~raced' =>
         /\ ~raced
         /\ stateFile' \in CheckStates => Fresh(stateFile')
         /\ Timely(memory'[p], checking'[m], caches'[m], reply'[m], checking'[a], caches'[a])
         /\ Timely(memory'[p], checking'[a], caches'[a], reply'[a], checking'[m], caches'[m])
  BY <1>1, <1>3, <1>9
<1>11. Command!ShownIsRecent'
  BY <1>1, ShowsNothing
<1> QED BY <1>5, <1>6, <1>8, <1>10, <1>11, OneProcess DEF m, a

LEMMA CmdKeeps ==
    ASSUME Readable, CheckInv, NEW p \in Processes, NEW force \in BOOLEAN,
           Command!CmdUpgradeCheck(p, force)
    PROVE  CheckInv'
<1> DEFINE m == Command!Main(p)
           a == Command!Auto(p)
           state == Command!LoadUpgradeState(p)
           Shows == ~force /\ Command!Recent(state)
<1>1. checking[m] = "started" /\ UNCHANGED <<stateFile, clock>>
  BY DEF Command!CmdUpgradeCheck
<1>2. /\ state \in CheckStates \cup {NoDocument}
      /\ memory[p] # NoDocument => state = memory[p]
      /\ state # NoDocument /\ ~raced /\ ~Sharing(checking[m], caches[m])
                    /\ ~Sharing(checking[a], caches[a]) => Fresh(state)
  BY LoadsState
<1>3. CASE Shows
  <2>1. /\ shown' = [at |-> clock, state |-> state]
        /\ raced' = (raced \/ (checking[a] = "storing" /\ caches[a]))
        /\ Command!Exit(p)
    BY <1>3 DEF Command!CmdUpgradeCheck
  <2>2. state # NoDocument /\ clock - state.time < Interval
    BY <1>3 DEF Command!Recent
  <2>3. raced \in BOOLEAN /\ checking[a] \in Places /\ caches[a] \in BOOLEAN /\ clock \in Int
    BY PairFits DEF CheckInv, CheckTypes
  <2>4. raced' \in BOOLEAN /\ (~raced' => ~raced /\ ~Sharing(checking[a], caches[a]))
    BY <2>1, <2>3 DEF Sharing
  <2>5. ~raced' => Fresh(state)
    BY <1>1, <1>2, <2>2, <2>4 DEF Sharing
  <2>6. Command!ShownIsRecent'
    <3> SUFFICES ASSUME ~raced'
                 PROVE  /\ shown'.state.result # NoDocument
                        /\ shown'.at - shown'.state.result < Interval
      BY DEF Command!ShownIsRecent
    <3>1. state.time \in Int /\ state.result \in Int /\ state.time =< state.result
      BY <1>2, <2>2, <2>5 DEF Fresh, CheckStates
    <3>2. PICK r \in Int : r = state.result
      BY <3>1
    <3>3. r # NoDocument
      BY <3>2 DEF Readable
    <3>4. clock - r < Interval
      BY <2>2, <2>3, <3>1, <3>2 DEF Readable
    <3> QED BY <2>1, <3>2, <3>3, <3>4
  <2>7. stateFile' \in Command!Unreadable \cup CheckStates
        /\ (~raced' => ~raced /\ (stateFile' \in CheckStates => Fresh(stateFile')))
    BY <1>1, <2>4 DEF CheckInv, CheckTypes
  <2> QED BY <1>1, <2>1, <2>4, <2>6, <2>7, ExitClears
<1>4. CASE ~Shows
  <2>1. /\ checking' = [checking EXCEPT ![m] = "asking"]
        /\ memory' = [memory EXCEPT ![p] = state]
        /\ caches' = [caches EXCEPT ![m] = state # NoDocument]
        /\ shown' = NoDocument /\ UNCHANGED <<reply, raced>>
    BY <1>4 DEF Command!CmdUpgradeCheck
  <2> HIDE DEF m, a, state
  <2>2. /\ m \in Threads /\ a \in Threads /\ m # a
        /\ memory[p] \in CheckStates \cup {NoDocument}
        /\ checking[a] \in Places /\ caches[a] \in BOOLEAN
        /\ Kept(memory[p], checking[a], caches[a], reply[a])
        /\ ~raced =>
             /\ stateFile \in CheckStates => Fresh(stateFile)
             /\ Timely(memory[p], checking[a], caches[a], reply[a], checking[m], caches[m])
    BY PairFits DEF m, a
  <2>3. CheckTypes
    BY DEF CheckInv
  <2>4. CheckTypes'
    BY <1>1, <1>2, <2>1, <2>2, <2>3 DEF CheckTypes, Places
  <2>5. /\ memory'[p] = state /\ checking'[m] = "asking" /\ checking'[a] = checking[a]
        /\ caches'[m] = (state # NoDocument) /\ caches'[a] = caches[a] /\ reply'[a] = reply[a]
        /\ \A q \in Processes \ {p} : memory'[q] = memory[q]
        /\ \A t \in Threads \ {m, a} :
              checking'[t] = checking[t] /\ caches'[t] = caches[t] /\ reply'[t] = reply[t]
    BY <2>1, <2>2, <2>3 DEF CheckTypes
  <2>6. NoDocument \notin CheckStates
    BY DEF Readable
  <2>7. caches[a] => state = memory[p]
    BY <1>2, <2>2, <2>6 DEF Kept
  <2>8. /\ Kept(memory'[p], checking'[m], caches'[m], reply'[m])
        /\ Kept(memory'[p], checking'[a], caches'[a], reply'[a])
        /\ Ended(memory'[p], checking'[m], checking'[a], caches'[m], caches'[a])
    BY <1>2, <2>2, <2>5, <2>7 DEF Kept, Ended
  <2>9. ~raced =>
          /\ Timely(memory'[p], checking'[m], caches'[m], reply'[m], checking'[a], caches'[a])
          /\ Timely(memory'[p], checking'[a], caches'[a], reply'[a], checking'[m], caches'[m])
    BY <1>1, <1>2, <2>2, <2>5, <2>7 DEF Timely, Sharing
  <2>10. Command!ShownIsRecent'
    BY <2>1, ShowsNothing
  <2> QED BY <1>1, <2>1, <2>2, <2>4, <2>5, <2>8, <2>9, <2>10, OneProcess DEF m, a
<1> QED BY <1>3, <1>4
\* A step of a goroutine t, with the other one, o, of its process.
LEMMA OneThread ==
    ASSUME Readable, CheckInv, NEW t \in Threads, CheckTypes',
           NEW p, NEW o, p = t[1], o = Command!Other(t),
           \A q \in Processes \ {p} : memory'[q] = memory[q],
           \A u \in Threads \ {t, o} :
              checking'[u] = checking[u] /\ caches'[u] = caches[u] /\ reply'[u] = reply[u],
           Kept(memory'[p], checking'[t], caches'[t], reply'[t]),
           Kept(memory'[p], checking'[o], caches'[o], reply'[o]),
           t[2] = "main" => checking'[t] # "idle",
           t[2] # "main" => checking'[o] # "idle",
           ~raced' =>
              /\ ~raced
              /\ stateFile' \in CheckStates => Fresh(stateFile')
              /\ Timely(memory'[p], checking'[t], caches'[t], reply'[t], checking'[o], caches'[o])
              /\ Timely(memory'[p], checking'[o], caches'[o], reply'[o], checking'[t], caches'[t]),
           shown' = NoDocument
    PROVE  CheckInv'
<1>1. p \in Processes /\ Command!ShownIsRecent'
  BY TwoOfEach, ShowsNothing
<1>2. CASE t[2] = "main"
  <2>1. t = Command!Main(p) /\ o = Command!Auto(p)
    BY <1>1, <1>2, TwoOfEach
  <2>2. Ended(memory'[p], checking'[t], checking'[o], caches'[t], caches'[o])
    BY <1>2 DEF Ended
  <2> QED BY <1>1, <2>1, <2>2, OneProcess
<1>3. CASE t[2] # "main"
  <2>1. o = Command!Main(p) /\ t = Command!Auto(p)
    BY <1>1, <1>3, TwoOfEach
  <2>2. Ended(memory'[p], checking'[o], checking'[t], caches'[o], caches'[t])
    BY <1>3 DEF Ended
  <2> QED BY <1>1, <2>1, <2>2, OneProcess
<1> QED BY <1>2, <1>3

\* The facts that it starts from.
LEMMA ThreadFits ==
    ASSUME CheckInv, NEW t \in Threads, NEW p, NEW o, p = t[1], o = Command!Other(t)
    PROVE  /\ p \in Processes /\ o \in Threads /\ o # t /\ o[1] = p /\ Command!Other(o) = t
           /\ memory[p] \in CheckStates \cup {NoDocument}
           /\ checking[t] \in Places /\ checking[o] \in Places
           /\ caches[t] \in BOOLEAN /\ caches[o] \in BOOLEAN
           /\ Kept(memory[p], checking[t], caches[t], reply[t])
           /\ Kept(memory[p], checking[o], caches[o], reply[o])
           /\ t[2] # "main" /\ checking[t] # "idle" => checking[o] # "idle"
           /\ ~raced =>
                /\ stateFile \in CheckStates => Fresh(stateFile)
                /\ Timely(memory[p], checking[t], caches[t], reply[t], checking[o], caches[o])
                /\ Timely(memory[p], checking[o], caches[o], reply[o], checking[t], caches[t])
<1>1. p \in Processes
  BY TwoOfEach
<1>2. CASE t[2] = "main"
  <2>1. t = Command!Main(p) /\ o = Command!Auto(p)
    BY <1>1, <1>2, TwoOfEach
  <2>2. o # t /\ o \in Threads /\ o[1] = p /\ Command!Other(o) = t
    BY <1>1, <2>1, TwoOfEach
  <2> QED BY <1>1, <1>2, <2>1, <2>2, PairFits
<1>3. CASE t[2] # "main"
  <2>1. o = Command!Main(p) /\ t = Command!Auto(p)
    BY <1>1, <1>3, TwoOfEach
  <2>2. o # t /\ o \in Threads /\ o[1] = p /\ Command!Other(o) = t
    BY <1>1, <2>1, TwoOfEach
  <2>3. Ended(memory[p], checking[o], checking[t], caches[o], caches[t])
    BY <1>1, <2>1, PairFits
  <2> QED BY <1>1, <1>3, <2>1, <2>2, <2>3, PairFits DEF Ended
<1> QED BY <1>2, <1>3

LEMMA AnswersKeeps ==
    ASSUME Readable, CheckInv, NEW t \in Threads, Command!Answers(t)
    PROVE  CheckInv'
<1> DEFINE p == t[1]
           o == Command!Other(t)
<1>1. /\ checking[t] = "asking"
      /\ reply' = [reply EXCEPT ![t] = clock]
      /\ memory' = IF caches[t] THEN [memory EXCEPT ![p].time = clock] ELSE memory
      /\ checking' = [checking EXCEPT ![t] = "storing"]
      /\ shown' = NoDocument /\ UNCHANGED <<stateFile, clock, caches, raced>>
  BY DEF Command!Answers
<1>2. /\ p \in Processes /\ o \in Threads /\ o # t
      /\ memory[p] \in CheckStates \cup {NoDocument}
      /\ caches[t] \in BOOLEAN
      /\ Kept(memory[p], checking[t], caches[t], reply[t])
      /\ Kept(memory[p], checking[o], caches[o], reply[o])
      /\ t[2] # "main" /\ checking[t] # "idle" => checking[o] # "idle"
      /\ ~raced =>
            /\ stateFile \in CheckStates => Fresh(stateFile)
            /\ Timely(memory[p], checking[t], caches[t], reply[t], checking[o], caches[o])
            /\ Timely(memory[p], checking[o], caches[o], reply[o], checking[t], caches[t])
  BY ThreadFits
<1> HIDE DEF p, o
<1>3. CheckTypes
  BY DEF CheckInv
<1>4. PICK now \in Int : now = clock
  BY <1>3 DEF CheckTypes
<1>5. caches[t] => memory[p] \in CheckStates
  BY <1>2 DEF Kept
<1>6. /\ memory'[p] = IF caches[t] THEN [memory[p] EXCEPT !.time = now] ELSE memory[p]
      /\ memory' \in [Processes -> CheckStates \cup {NoDocument}]
      /\ \A q \in Processes \ {p} : memory'[q] = memory[q]
  BY <1>1, <1>2, <1>3, <1>4, <1>5 DEF CheckTypes, CheckStates
<1>7. CheckTypes'
  BY <1>1, <1>3, <1>4, <1>6 DEF CheckTypes, Places
<1>8. /\ checking'[t] = "storing" /\ checking'[o] = checking[o]
      /\ caches'[t] = caches[t] /\ caches'[o] = caches[o]
      /\ reply'[t] = now /\ reply'[o] = reply[o]
      /\ \A u \in Threads \ {t, o} :
            checking'[u] = checking[u] /\ caches'[u] = caches[u] /\ reply'[u] = reply[u]
  BY <1>1, <1>2, <1>3, <1>4 DEF CheckTypes
<1>9. caches[t] => memory'[p] \in CheckStates /\ memory'[p].time = now
  BY <1>4, <1>5, <1>6 DEF CheckStates
<1>10. ~caches[t] => memory'[p] = memory[p]
  BY <1>6
<1>11. /\ Kept(memory'[p], checking'[t], caches'[t], reply'[t])
       /\ Kept(memory'[p], checking'[o], caches'[o], reply'[o])
  <2>1. Kept(memory'[p], checking'[t], caches'[t], reply'[t])
    BY <1>4, <1>8, <1>9, <1>2 DEF Kept
  <2>2. Kept(memory'[p], checking'[o], caches'[o], reply'[o])
    BY <1>2, <1>8, <1>9, <1>10 DEF Kept
  <2> QED BY <2>1, <2>2
<1>12. ASSUME ~raced'
       PROVE  /\ ~raced
              /\ stateFile' \in CheckStates => Fresh(stateFile')
              /\ Timely(memory'[p], checking'[t], caches'[t], reply'[t], checking'[o], caches'[o])
              /\ Timely(memory'[p], checking'[o], caches'[o], reply'[o], checking'[t], caches'[t])
  <2>1. ~raced /\ (stateFile' \in CheckStates => Fresh(stateFile'))
    BY <1>1, <1>2, <1>12
  <2>2. CASE caches[t]
    <3>1. now =< now
      BY <1>4
    <3>2. Timely(memory'[p], checking'[t], caches'[t], reply'[t], checking'[o], caches'[o])
      BY <1>8, <1>9, <2>2, <3>1 DEF Timely, Sharing
    <3>3. Timely(memory'[p], checking'[o], caches'[o], reply'[o], checking'[t], caches'[t])
      BY <1>2, <1>8, <2>1, <2>2 DEF Timely, Sharing
    <3> QED BY <2>1, <3>2, <3>3
  <2>3. CASE ~caches[t]
    BY <1>1, <1>2, <1>8, <1>10, <2>1, <2>3 DEF Timely, Sharing
  <2> QED BY <2>2, <2>3
<1> QED BY <1>1, <1>2, <1>6, <1>7, <1>8, <1>11, <1>12, OneThread DEF p, o

LEMMA StoreKeeps ==
    ASSUME Readable, CheckInv, NEW t \in Threads, Command!Store(t)
    PROVE  CheckInv'
<1> DEFINE p == t[1]
           o == Command!Other(t)
           state == Command!UpgradeState(IF caches[t] THEN memory[p].time ELSE reply[t], reply[t])
<1>1. /\ checking[t] = "storing"
      /\ memory' = [memory EXCEPT ![p] = state]
      /\ reply' = [reply EXCEPT ![t] = state]
      /\ caches' = IF caches[t] THEN caches ELSE [caches EXCEPT ![o] = FALSE]
      /\ raced' = (raced \/ (caches[t] /\ caches[o] /\ checking[o] = "storing"))
      /\ checking' = [checking EXCEPT ![t] = "truncate"]
      /\ shown' = NoDocument /\ UNCHANGED <<stateFile, clock>>
  BY DEF Command!Store
<1>2. /\ p \in Processes /\ o \in Threads /\ o # t
      /\ memory[p] \in CheckStates \cup {NoDocument}
      /\ caches[t] \in BOOLEAN /\ caches[o] \in BOOLEAN /\ checking[o] \in Places
      /\ Kept(memory[p], checking[t], caches[t], reply[t])
      /\ Kept(memory[p], checking[o], caches[o], reply[o])
      /\ t[2] # "main" /\ checking[t] # "idle" => checking[o] # "idle"
      /\ ~raced =>
            /\ stateFile \in CheckStates => Fresh(stateFile)
            /\ Timely(memory[p], checking[t], caches[t], reply[t], checking[o], caches[o])
            /\ Timely(memory[p], checking[o], caches[o], reply[o], checking[t], caches[t])
  BY ThreadFits
<1>3. PICK r \in Int : r = reply[t]
  BY <1>1, <1>2 DEF Kept
<1>4. PICK c \in Int : c = IF caches[t] THEN memory[p].time ELSE reply[t]
  BY <1>2, <1>3 DEF Kept, CheckStates
<1>5. state = [time |-> c, result |-> r]
  BY <1>3, <1>4 DEF Command!UpgradeState
<1>6. state \in CheckStates /\ (Fresh(state) <=> c =< r)
  BY <1>5 DEF CheckStates, Fresh
<1> HIDE DEF p, o, state
<1>7. CheckTypes
  BY DEF CheckInv
<1>8. CheckTypes'
  BY <1>1, <1>2, <1>6, <1>7 DEF CheckTypes, Places
<1>9. /\ memory'[p] = state /\ \A q \in Processes \ {p} : memory'[q] = memory[q]
      /\ checking'[t] = "truncate" /\ checking'[o] = checking[o]
      /\ caches'[t] = caches[t] /\ caches'[o] = (caches[o] /\ caches[t])
      /\ reply'[t] = state /\ reply'[o] = reply[o]
      /\ \A u \in Threads \ {t, o} :
            checking'[u] = checking[u] /\ caches'[u] = caches[u] /\ reply'[u] = reply[u]
  BY <1>1, <1>2, <1>7 DEF CheckTypes
<1>10. /\ Kept(memory'[p], checking'[t], caches'[t], reply'[t])
       /\ Kept(memory'[p], checking'[o], caches'[o], reply'[o])
  BY <1>2, <1>6, <1>9 DEF Kept
<1>11. ASSUME ~raced'
       PROVE  /\ ~raced
              /\ stateFile' \in CheckStates => Fresh(stateFile')
              /\ Timely(memory'[p], checking'[t], caches'[t], reply'[t], checking'[o], caches'[o])
              /\ Timely(memory'[p], checking'[o], caches'[o], reply'[o], checking'[t], caches'[t])
  <2>1. ~raced /\ ~(caches[t] /\ Sharing(checking[o], caches[o]))
    BY <1>1, <1>11 DEF Sharing
  <2>2. c =< r
    <3>1. CASE caches[t]
      BY <1>1, <1>2, <1>3, <1>4, <2>1, <3>1 DEF Timely, Sharing
    <3>2. CASE ~caches[t]
      BY <1>3, <1>4, <3>2
    <3> QED BY <1>2, <3>1, <3>2
  <2>3. Fresh(state) /\ ~Sharing(checking'[o], caches'[o])
    BY <1>6, <1>9, <2>1, <2>2 DEF Sharing
  <2>4. checking[o] \in {"truncate", "write"} => Fresh(reply[o])
    BY <1>2, <2>1 DEF Timely
  <2>5. Timely(memory'[p], checking'[t], caches'[t], reply'[t], checking'[o], caches'[o])
    BY <1>9, <2>3 DEF Timely, Sharing
  <2>6. Timely(memory'[p], checking'[o], caches'[o], reply'[o], checking'[t], caches'[t])
    BY <1>9, <2>3, <2>4 DEF Timely, Sharing
  <2> QED BY <1>1, <1>2, <2>1, <2>5, <2>6
<1>12. /\ t[2] = "main" => checking'[t] # "idle"
       /\ t[2] # "main" => checking'[o] # "idle"
  BY <1>1, <1>2, <1>9
<1> QED BY <1>1, <1>8, <1>9, <1>10, <1>11, <1>12, OneThread DEF p, o
\* The goroutine in the background gives up or is through: what it leaves is as it was.
LEMMA BackgroundEnds ==
    ASSUME Readable, CheckInv, NEW t \in Threads, t[2] # "main", checking[t] # "idle",
           ~Sharing(checking[t], caches[t]), CheckTypes',
           checking' = [checking EXCEPT ![t] = "idle"],
           \A u \in Threads \ {t} : reply'[u] = reply[u],
           UNCHANGED <<memory, caches, raced>>, shown' = NoDocument,
           ~raced => (stateFile' \in CheckStates => Fresh(stateFile'))
    PROVE  CheckInv'
<1> DEFINE p == t[1]
           o == Command!Other(t)
<1>1. /\ p \in Processes /\ o \in Threads /\ o # t
      /\ Kept(memory[p], checking[t], caches[t], reply[t])
      /\ Kept(memory[p], checking[o], caches[o], reply[o])
      /\ checking[o] # "idle"
      /\ ~raced =>
            /\ Timely(memory[p], checking[t], caches[t], reply[t], checking[o], caches[o])
            /\ Timely(memory[p], checking[o], caches[o], reply[o], checking[t], caches[t])
  BY ThreadFits
<1> HIDE DEF p, o
<1>2. CheckTypes
  BY DEF CheckInv
<1>3. /\ checking'[t] = "idle" /\ checking'[o] = checking[o] /\ reply'[o] = reply[o]
      /\ \A q \in Processes \ {p} : memory'[q] = memory[q]
      /\ \A u \in Threads \ {t, o} :
            checking'[u] = checking[u] /\ caches'[u] = caches[u] /\ reply'[u] = reply[u]
  BY <1>1, <1>2 DEF CheckTypes
<1>4. /\ Kept(memory'[p], checking'[t], caches'[t], reply'[t])
      /\ Kept(memory'[p], checking'[o], caches'[o], reply'[o])
  BY <1>1, <1>3 DEF Kept
<1>5. ~raced' =>
        /\ ~raced
        /\ stateFile' \in CheckStates => Fresh(stateFile')
        /\ Timely(memory'[p], checking'[t], caches'[t], reply'[t], checking'[o], caches'[o])
        /\ Timely(memory'[p], checking'[o], caches'[o], reply'[o], checking'[t], caches'[t])
  BY <1>1, <1>3 DEF Timely, Sharing
<1> QED BY <1>1, <1>3, <1>4, <1>5, OneThread DEF p, o

LEMMA FailsKeeps ==
    ASSUME Readable, CheckInv, NEW t \in Threads, Command!CheckFails(t)
    PROVE  CheckInv'
<1>1. checking[t] = "asking" /\ shown' = NoDocument /\ UNCHANGED <<stateFile, clock, raced>>
  BY DEF Command!CheckFails
<1>2. CheckTypes /\ t[1] \in Processes
      /\ (~raced => (stateFile \in CheckStates => Fresh(stateFile)))
  BY TwoOfEach DEF CheckInv
<1>3. CASE t[2] = "main"
  <2>1. Command!Exit(t[1])
    BY <1>3 DEF Command!CheckFails
  <2> QED BY <1>1, <1>2, <2>1, ExitClears, ShowsNothing DEF CheckTypes
<1>4. CASE t[2] # "main"
  <2>1. checking' = [checking EXCEPT ![t] = "idle"] /\ UNCHANGED <<memory, caches, reply>>
    BY <1>4 DEF Command!CheckFails
  <2>2. CheckTypes'
    BY <1>1, <1>2, <2>1 DEF CheckTypes, Places
  <2> QED BY <1>1, <1>2, <1>4, <2>1, <2>2, BackgroundEnds DEF Sharing
<1> QED BY <1>3, <1>4

LEMMA SaveKeeps ==
    ASSUME Readable, CheckInv, NEW t \in Threads, Command!SaveUpgradeState(t)
    PROVE  CheckInv'
<1> DEFINE p == t[1]
           o == Command!Other(t)
<1>1. checking[t] \in {"truncate", "write"} /\ shown' = NoDocument /\ UNCHANGED <<clock, raced>>
  BY DEF Command!SaveUpgradeState
<1>2. /\ p \in Processes /\ o \in Threads /\ o # t
      /\ Kept(memory[p], checking[t], caches[t], reply[t])
      /\ Kept(memory[p], checking[o], caches[o], reply[o])
      /\ t[2] # "main" /\ checking[t] # "idle" => checking[o] # "idle"
      /\ ~raced =>
            /\ Timely(memory[p], checking[t], caches[t], reply[t], checking[o], caches[o])
            /\ Timely(memory[p], checking[o], caches[o], reply[o], checking[t], caches[t])
  BY ThreadFits
<1>3. CheckTypes
  BY DEF CheckInv
<1>4. reply[t] \in CheckStates /\ (~raced => Fresh(reply[t]))
  BY <1>1, <1>2 DEF Kept, Timely
<1>5. CASE checking[t] = "truncate"
  <2>1. /\ stateFile' = EmptyFile /\ checking' = [checking EXCEPT ![t] = "write"]
        /\ UNCHANGED <<memory, caches, reply>>
    BY <1>5 DEF Command!SaveUpgradeState
  <2> HIDE DEF p, o
  <2>2. CheckTypes'
    BY <1>1, <1>3, <2>1 DEF CheckTypes, Places, Command!Unreadable
  <2>3. /\ checking'[t] = "write" /\ checking'[o] = checking[o]
        /\ \A u \in Threads \ {t, o} : checking'[u] = checking[u]
    BY <1>2, <1>3, <2>1 DEF CheckTypes
  <2>4. /\ Kept(memory'[p], checking'[t], caches'[t], reply'[t])
        /\ Kept(memory'[p], checking'[o], caches'[o], reply'[o])
    BY <1>2, <1>4, <2>1, <2>3 DEF Kept
  <2>5. stateFile' \notin CheckStates
    BY <2>1 DEF Readable
  <2>6. ~raced' =>
          /\ ~raced
          /\ stateFile' \in CheckStates => Fresh(stateFile')
          /\ Timely(memory'[p], checking'[t], caches'[t], reply'[t], checking'[o], caches'[o])
          /\ Timely(memory'[p], checking'[o], caches'[o], reply'[o], checking'[t], caches'[t])
    BY <1>1, <1>2, <1>4, <1>5, <2>1, <2>3, <2>5 DEF Timely, Sharing
  <2>7. /\ t[2] = "main" => checking'[t] # "idle"
        /\ t[2] # "main" => checking'[o] # "idle"
    BY <1>1, <1>2, <2>3
  <2> QED BY <1>1, <2>1, <2>2, <2>3, <2>4, <2>6, <2>7, OneThread DEF p, o
<1>6. CASE checking[t] = "write"
  <2>1. stateFile' \in {reply[t], MixedFile}
    BY <1>6 DEF Command!SaveUpgradeState, Command!Over
  <2>2. stateFile' \in Command!Unreadable \cup CheckStates
    BY <1>4, <2>1 DEF Command!Unreadable
  <2>3. ~raced => (stateFile' \in CheckStates => Fresh(stateFile'))
    BY <1>4, <2>1 DEF Readable
  <2>4. CASE t[2] = "main"
    <3>1. Command!Exit(p)
      BY <1>6, <2>4 DEF Command!SaveUpgradeState
    <3> QED BY <1>1, <1>2, <1>3, <2>2, <2>3, <3>1, ExitClears, ShowsNothing DEF CheckTypes
  <2>5. CASE t[2] # "main"
    <3>1. /\ checking' = [checking EXCEPT ![t] = "idle"]
          /\ reply' = [reply EXCEPT ![t] = NoDocument]
          /\ UNCHANGED <<memory, caches>>
      BY <1>6, <2>5 DEF Command!SaveUpgradeState
    <3>2. CheckTypes'
      BY <1>1, <1>3, <2>2, <3>1 DEF CheckTypes, Places
    <3>3. \A u \in Threads \ {t} : reply'[u] = reply[u]
      BY <1>3, <3>1 DEF CheckTypes
    <3> QED BY <1>1, <1>6, <2>3, <2>5, <3>1, <3>2, <3>3, BackgroundEnds DEF Sharing
  <2> QED BY <2>4, <2>5
<1> QED BY <1>1, <1>5, <1>6

LEMMA CheckStep ==
    ASSUME Readable, CheckInv, [Command!CheckNext]_(Command!checkVars)
    PROVE  CheckInv'
<1>1. ASSUME UNCHANGED <<stateFile, memory, checking, caches, reply, raced>>,
             clock' \in Int, Command!ShownIsRecent'
      PROVE  CheckInv'
  BY <1>1 DEF CheckInv, CheckTypes
<1>2. CASE UNCHANGED Command!checkVars
  <2>1. clock \in Int /\ Command!ShownIsRecent
    BY DEF CheckInv, CheckTypes
  <2> QED BY <1>1, <1>2, <2>1 DEF Command!checkVars, Command!ShownIsRecent
<1>3. CASE Command!Tick
  <2>1. clock \in Int
    BY DEF CheckInv, CheckTypes
  <2> QED BY <1>1, <1>3, <2>1, ShowsNothing DEF Command!Tick
<1>4. ASSUME NEW p \in Processes, Command!Ends(p) PROVE CheckInv'
  <2>1. Command!Exit(p) /\ shown' = NoDocument /\ UNCHANGED <<stateFile, clock, raced>>
    BY <1>4 DEF Command!Ends
  <2>2. stateFile \in Command!Unreadable \cup CheckStates /\ raced \in BOOLEAN
        /\ (~raced => (stateFile \in CheckStates => Fresh(stateFile)))
    BY DEF CheckInv, CheckTypes
  <2> QED BY <2>1, <2>2, ExitClears, ShowsNothing
<1> QED BY <1>2, <1>3, <1>4, AutoKeeps, CmdKeeps, AnswersKeeps, FailsKeeps, StoreKeeps, SaveKeeps
     DEF Command!CheckNext, Threads

\* For any number of processes that check for a release, in the foreground and in the
\* background, with kills between any two system calls and overlapping writes of the state
\* file: what is shown without asking was an answer of the server, less than an interval
\* old, unless two goroutines of a process stored their answers at the same time
\* (cmdUpgradeCheck, autoCheckUpgrade, saveUpgradeState).
THEOREM ShownIsAnAnswer ==
    ASSUME Readable
    PROVE  CheckSpec => []Command!ShownIsRecent
<1>1. Command!CheckInit => CheckInv
  BY CheckBegins
<1>2. CheckInv /\ [Command!CheckNext]_(Command!checkVars) => CheckInv'
  BY CheckStep
<1>3. CheckInv => Command!ShownIsRecent
  BY DEF CheckInv
<1> QED BY <1>1, <1>2, <1>3, PTL DEF CheckSpec

-----------------------------------------------------------------------------
(* What progress keeps in the project file. *)

Tasks == [status : {"pending", "in_progress", "completed"}, progress : Int,
          started : BOOLEAN, completed : BOOLEAN]
Projects == {d \in [tasks : [TaskIDs -> Tasks], events : SUBSET Nat] : Command!MakesSense(d)}
Everyone == Processes \cup {Command!Watcher}
Phases == {"idle", "truncate project", "write project", "render", "truncate markdown",
           "write markdown"}
Writing == {"truncate project", "write project"}

\* A document has room for an event, a file that cannot be read is none, and the watcher
\* runs no commands.
Editable ==
    /\ EventCap \in Nat
    /\ {NoDocument, EmptyFile, MixedFile} \cap Projects = {}
    /\ Command!Watcher \notin Processes

Above(kept, n) == {e \in kept : e > n}

\* A document with these events lacks only updates that enough others have followed.
KeepsNewest(kept, updates) ==
    \A n \in updates \ kept : Cardinality(Above(kept, n)) >= EventCap

\* The greatest of some numbers.
LEMMA Greatest ==
    ASSUME NEW n \in Nat, NEW S \in SUBSET (0 .. n), S # {}
    PROVE  \E k \in S : \A e \in S : e =< k
<1> DEFINE T == {Above(S, k) : k \in S}
<1>1. IsFiniteSet(S)
  <2>1. IsFiniteSet(0 .. n)
    BY FS_Interval
  <2> QED BY <2>1, FS_Subset
<1>2. T \subseteq FiniteSubsetsOf(S) /\ T # {}
  <2>1. ASSUME NEW k \in S PROVE Above(S, k) \in FiniteSubsetsOf(S)
    <3>1. Above(S, k) \subseteq S
      BY DEF Above
    <3>2. IsFiniteSet(Above(S, k))
      BY <1>1, <3>1, FS_Subset
    <3> QED BY <3>1, <3>2 DEF FiniteSubsetsOf
  <2> QED BY <2>1
<1>3. PICK B \in T : \A C \in T : ~ (<<C, B>> \in StrictSubsetOrdering(S))
  <2> HIDE DEF T
  <2> QED BY <1>1, <1>2, FS_StrictSubsetOrderingWellFounded, WFMin
<1>4. PICK k \in S : B = Above(S, k)
  OBVIOUS
<1>5. ASSUME NEW e \in S, e > k PROVE FALSE
  <2>1. Above(S, e) \in T /\ Above(S, e) \in FiniteSubsetsOf(S) /\ B \in FiniteSubsetsOf(S)
    BY <1>2, <1>3
  <2>2. Above(S, e) \subseteq B
    <3>1. ASSUME NEW f \in Above(S, e) PROVE f \in B
      <4>1. f \in S /\ f > e /\ f \in Int /\ e \in Int /\ k \in Int
        BY DEF Above
      <4>2. f > k
        BY <1>5, <4>1
      <4> QED BY <1>4, <4>1, <4>2 DEF Above
    <3> QED BY <3>1
  <2>3. e \in B /\ e \notin Above(S, e)
    BY <1>4, <1>5 DEF Above
  <2> HIDE DEF T
  <2>4. <<Above(S, e), B>> \in StrictSubsetOrdering(S)
    BY <2>1, <2>2, <2>3 DEF StrictSubsetOrdering, FiniteSubsetsOf
  <2> QED BY <1>3, <2>1, <2>4
<1> QED BY <1>5

\* Of n and what was there AddEvent keeps enough of the newest: what is left out has been
\* followed by as many updates as a document holds.
LEMMA AddsEvent ==
    ASSUME Editable, NEW n \in Nat, NEW kept \in SUBSET (0 .. n), NEW updates \in SUBSET (0 .. n),
           KeepsNewest(kept, updates)
    PROVE  /\ Command!AddEvent(kept, n) \subseteq 0 .. n
           /\ KeepsNewest(Command!AddEvent(kept, n), updates \cup {n})
<1> DEFINE all == kept \cup {n}
           added == Command!AddEvent(kept, n)
<1>1. all \subseteq 0 .. n /\ IsFiniteSet(all)
  <2>1. all \subseteq 0 .. n
    OBVIOUS
  <2> HIDE DEF all
  <2>2. IsFiniteSet(0 .. n)
    BY FS_Interval
  <2> QED BY <2>1, <2>2, FS_Subset
<1>2. added = {e \in all : Cardinality(Above(all, e)) < EventCap}
  BY DEF Command!AddEvent, Above, Command!Cardinality, Cardinality
<1> HIDE DEF added
<1>3. ASSUME NEW S \in SUBSET all
      PROVE  IsFiniteSet(S) /\ Cardinality(S) \in Nat
  BY <1>1, FS_Subset, FS_CardinalityType
<1>4. ASSUME NEW d \in 0 .. n, Cardinality(Above(all, d)) >= EventCap
      PROVE  Cardinality(Above(added, d)) >= EventCap
  <2> DEFINE U == Above(all, d)
             V == Above(added, d)
  <2>1. U \subseteq all /\ V \subseteq U
    BY <1>2 DEF Above
  <2>2. CASE U \subseteq added
    <3>1. U = V
      BY <2>1, <2>2 DEF Above
    <3> QED BY <1>4, <3>1
  <2>3. CASE ~(U \subseteq added)
    <3> DEFINE W == U \ added
    <3>1. W # {} /\ W \subseteq 0 .. n
      BY <1>1, <2>1, <2>3
    <3>2. PICK k \in W : \A e \in W : e =< k
      <4> HIDE DEF W
      <4> QED BY <3>1, Greatest
    <3>3. k \in all /\ k > d /\ k \in 0 .. n
      BY <1>1, <3>2 DEF Above
    <3>4. Cardinality(Above(all, k)) >= EventCap
      <4>1. ~ (Cardinality(Above(all, k)) < EventCap)
        BY <1>2, <3>2, <3>3
      <4>2. Above(all, k) \subseteq all
        BY DEF Above
      <4> HIDE DEF all
      <4> QED BY <1>3, <4>1, <4>2 DEF Editable
    <3>5. Above(all, k) \subseteq V
      <4>1. ASSUME NEW e \in Above(all, k) PROVE e \in V
        <5>1. e \in all /\ e > k /\ e \in 0 .. n
          BY <1>1 DEF Above
        <5>2. e > d
          BY <3>3, <5>1
        <5>3. e \in U
          BY <5>1, <5>2 DEF Above
        <5>4. e \in added
          BY <3>2, <3>3, <5>1, <5>3
        <5> QED BY <5>2, <5>4 DEF Above
      <4> QED BY <4>1
    <3>6. Cardinality(Above(all, k)) =< Cardinality(V)
      <4> HIDE DEF U, V, all
      <4>1. IsFiniteSet(V)
        BY <1>3, <2>1
      <4> QED BY <3>5, <4>1, FS_Subset
    <3>7. Cardinality(V) \in Nat /\ Cardinality(Above(all, k)) \in Nat
      <4>1. Above(all, k) \subseteq all /\ V \subseteq all
        BY <2>1 DEF Above
      <4> HIDE DEF V, all
      <4> QED BY <1>3, <4>1
    <3> HIDE DEF V, all
    <3>8. Cardinality(V) >= EventCap
      BY <3>4, <3>6, <3>7 DEF Editable
    <3> QED BY <3>8 DEF V
  <2> QED BY <2>2, <2>3
<1>5. ASSUME NEW d \in (updates \cup {n}) \ added
      PROVE  Cardinality(Above(added, d)) >= EventCap
  <2>1. d \in 0 .. n
    OBVIOUS
  <2>2. CASE d \in all
    <3>1. Above(all, d) \subseteq all /\ ~ (Cardinality(Above(all, d)) < EventCap)
      BY <1>2, <1>5, <2>2 DEF Above
    <3> HIDE DEF all
    <3>2. Cardinality(Above(all, d)) >= EventCap
      BY <1>3, <3>1 DEF Editable
    <3> QED BY <1>4, <2>1, <3>2
  <2>3. CASE d \notin all
    <3>1. d \in updates \ kept
      BY <2>3
    <3>2. Cardinality(Above(kept, d)) >= EventCap
      BY <3>1 DEF KeepsNewest
    <3>3. Above(kept, d) \subseteq Above(all, d) /\ Above(all, d) \subseteq all
      BY DEF Above
    <3> HIDE DEF all
    <3>4. /\ Cardinality(Above(kept, d)) =< Cardinality(Above(all, d))
          /\ Cardinality(Above(kept, d)) \in Nat /\ Cardinality(Above(all, d)) \in Nat
      BY <1>3, <3>3, FS_Subset
    <3>5. Cardinality(Above(all, d)) >= EventCap
      BY <3>2, <3>4 DEF Editable
    <3> QED BY <1>4, <2>1, <3>5
  <2> QED BY <2>2, <2>3
<1>6. added \subseteq 0 .. n
  BY <1>1, <1>2
<1>7. KeepsNewest(added, updates \cup {n})
  BY <1>5 DEF KeepsNewest
<1> QED BY <1>6, <1>7 DEF added
ProjectTypes ==
    /\ {project, markdown} \subseteq Command!Missing \cup Projects
    /\ phase \in [Everyone -> Phases] /\ phase[Command!Watcher] \notin Writing
    /\ holds \in [Everyone -> Projects \cup {NoDocument}] /\ update \in [Processes -> Nat]
    /\ commands \in Nat /\ done \in SUBSET (0 .. commands)
    /\ project \in Projects => project.events \subseteq 0 .. commands
    /\ \A w \in Everyone : phase[w] \notin {"idle", "render"} => holds[w] \in Projects
    /\ \A p \in Processes : phase[p] \in Writing =>
          holds[p].events \subseteq 0 .. commands /\ update[p] \in 0 .. commands

\* No commands have overlapped, and none was killed while it wrote the project.
Calm == mishaps \cap {"overlap", "write project"} = {}

Others(p) == \A q \in Processes \ {p} : phase[q] = "idle"

\* Then one command is under way at most; the file has the updates that are done, or it is
\* about to have them again; and what is about to be written has them and one more.
Steady ==
    /\ \A p \in Processes : phase[p] # "idle" => Others(p)
    /\ project \notin Projects => done = {} \/ \E p \in Processes : phase[p] = "write project"
    /\ project \in Projects => KeepsNewest(project.events, done)
    /\ \A p \in Processes : phase[p] \in Writing => KeepsNewest(holds[p].events, done \cup {update[p]})
    /\ \A p \in Processes : phase[p] = "write project" => project = EmptyFile

ProjectInv == ProjectTypes /\ (Calm => Steady)

ProjectSpec == Command!ProjectInit /\ [][Command!ProjectNext]_(Command!projectVars)

\* A step of a reader: it does not write the project, before or after.
LEMMA ReaderKeeps ==
    ASSUME Editable, ProjectInv, NEW w \in Everyone,
           phase' \in [Everyone -> Phases], holds' \in [Everyone -> Projects \cup {NoDocument}],
           update' \in [Processes -> Nat], commands' \in {commands, commands + 1},
           \A v \in Everyone \ {w} : phase'[v] = phase[v] /\ holds'[v] = holds[v],
           \A q \in Processes \ {w} : update'[q] = update[q],
           phase[w] \notin Writing, phase'[w] \notin Writing,
           phase'[w] \notin {"idle", "render"} => holds'[w] \in Projects,
           UNCHANGED <<project, done>>, markdown' \in Command!Missing \cup Projects,
           Calm' => Calm,
           Calm' /\ phase[w] = "idle" /\ phase'[w] # "idle" /\ w \in Processes => Others(w)
    PROVE  ProjectInv'
<1>1. ProjectTypes
  BY DEF ProjectInv
<1>2. commands' \in Nat /\ 0 .. commands \subseteq 0 .. commands'
  BY <1>1 DEF ProjectTypes
<1>3. Processes \subseteq Everyone /\ Command!Watcher \in Everyone
  BY DEF Everyone
<1>4. ASSUME NEW v \in Everyone, phase'[v] \notin {"idle", "render"} PROVE holds'[v] \in Projects
  BY <1>1, <1>4 DEF ProjectTypes
<1>5. ASSUME NEW p \in Processes, phase'[p] \in Writing
      PROVE  p # w /\ phase[p] = phase'[p] /\ holds'[p] = holds[p] /\ update'[p] = update[p]
  BY <1>3, <1>5
<1>6. ProjectTypes'
  <2>1. ASSUME NEW p \in Processes, phase'[p] \in Writing
        PROVE  holds'[p].events \subseteq 0 .. commands' /\ update'[p] \in 0 .. commands'
    <3>1. holds[p].events \subseteq 0 .. commands /\ update[p] \in 0 .. commands
      BY <1>1, <1>5, <2>1 DEF ProjectTypes
    <3> QED BY <1>2, <1>5, <2>1, <3>1
  <2>2. phase'[Command!Watcher] \notin Writing
    BY <1>1, <1>3 DEF ProjectTypes
  <2>3. project \in Projects => project.events \subseteq 0 .. commands'
    BY <1>1, <1>2 DEF ProjectTypes
  <2>4. done' \in SUBSET (0 .. commands')
    BY <1>1, <1>2 DEF ProjectTypes
  <2> QED BY <1>1, <1>2, <1>4, <2>1, <2>2, <2>3, <2>4 DEF ProjectTypes, Command!Missing
<1>7. ASSUME Calm' PROVE Steady'
  <2>1. Steady
    BY <1>7 DEF ProjectInv
  <2>2. ASSUME NEW p \in Processes, phase'[p] # "idle", NEW q \in Processes \ {p}
        PROVE  phase'[q] = "idle"
    <3>1. CASE p = w
      <4>1. phase'[q] = phase[q]
        BY <1>3, <3>1
      <4>2. CASE phase[w] = "idle"
        <5>1. Others(w)
          BY <1>7, <2>2, <3>1, <4>2
        <5> QED BY <3>1, <4>1, <5>1 DEF Others
      <4>3. CASE phase[w] # "idle"
        BY <2>1, <3>1, <4>1, <4>3 DEF Steady, Others
      <4> QED BY <4>2, <4>3
    <3>2. CASE p # w
      <4>1. phase'[p] = phase[p]
        BY <1>3, <3>2
      <4>2. phase[q] = "idle"
        BY <2>1, <2>2, <4>1 DEF Steady, Others
      <4>3. CASE q = w
        <5>1. phase'[w] = "idle"
          <6> SUFFICES ASSUME phase'[w] # "idle" PROVE FALSE
            OBVIOUS
          <6>1. Others(w)
            BY <1>7, <4>2, <4>3
          <6> QED BY <2>2, <3>2, <4>1, <6>1 DEF Others
        <5> QED BY <4>3, <5>1
      <4>4. CASE q # w
        BY <1>3, <4>2, <4>4
      <4> QED BY <4>3, <4>4
    <3> QED BY <3>1, <3>2
  <2>3. project \notin Projects => done = {} \/ \E p \in Processes : phase'[p] = "write project"
    <3>1. ASSUME NEW p \in Processes, phase[p] = "write project" PROVE phase'[p] = "write project"
      BY <1>3, <3>1 DEF Writing
    <3> QED BY <2>1, <3>1 DEF Steady
  <2>4. ASSUME NEW p \in Processes, phase'[p] \in Writing
        PROVE  KeepsNewest(holds'[p].events, done \cup {update'[p]})
    <3>1. KeepsNewest(holds[p].events, done \cup {update[p]})
      BY <1>5, <2>1, <2>4 DEF Steady
    <3> QED BY <1>5, <2>4, <3>1
  <2>5. ASSUME NEW p \in Processes, phase'[p] = "write project" PROVE project = EmptyFile
    <3>1. phase[p] = "write project"
      BY <1>5, <2>5 DEF Writing
    <3> QED BY <2>1, <3>1 DEF Steady
  <2>6. KeepsNewest(project.events, done)' = KeepsNewest(project.events, done)
    BY DEF KeepsNewest, Above
  <2>7. ASSUME NEW p \in Processes
        PROVE  KeepsNewest(holds[p].events, done \cup {update[p]})' =
                  KeepsNewest(holds'[p].events, done \cup {update'[p]})
    BY DEF KeepsNewest, Above
  <2> QED BY <2>1, <2>2, <2>3, <2>4, <2>5, <2>6, <2>7 DEF Steady, Others
<1> QED BY <1>6, <1>7 DEF ProjectInv
Sensible(task) ==
    /\ task.status = "in_progress" => task.started
    /\ task.progress = 100 => task.status = "completed"
    /\ task.status = "completed" => task.completed
    /\ task.status = "pending" => task = Command!NewTask

\* Whatever a command makes of a task that makes sense does so too.
LEMMA ChangesMakeSense ==
    ASSUME NEW task \in Tasks, Sensible(task), NEW c \in Command!Changes(task)
    PROVE  c \in Tasks /\ Sensible(c)
<1>1. PICK status, progress, started, completed :
        /\ task = [status |-> status, progress |-> progress, started |-> started,
                   completed |-> completed]
        /\ status \in {"pending", "in_progress", "completed"} /\ progress \in Int
        /\ started \in BOOLEAN /\ completed \in BOOLEAN
  BY Zenon DEF Tasks
<1>2. \/ c = [task EXCEPT !.status = "in_progress", !.progress = 10, !.started = TRUE]
      \/ c = [task EXCEPT !.status = "completed", !.progress = 100, !.completed = TRUE]
      \/ c = task
      \/ c = [task EXCEPT !.progress = 0]
      \/ c = [task EXCEPT !.status = "in_progress", !.progress = 50, !.started = TRUE]
  BY DEF Command!Changes, Command!StartTask, Command!CompleteTask, Command!SetProgress
<1>3. CASE c = task
  BY <1>3
<1>4. CASE c = [task EXCEPT !.status = "in_progress", !.progress = 10, !.started = TRUE]
  <2>1. c = [status |-> "in_progress", progress |-> 10, started |-> TRUE, completed |-> completed]
    BY <1>1, <1>4
  <2>2. c \in Tasks
    BY <1>1, <2>1 DEF Tasks
  <2> QED BY <2>1, <2>2 DEF Sensible
<1>5. CASE c = [task EXCEPT !.status = "completed", !.progress = 100, !.completed = TRUE]
  <2>1. c = [status |-> "completed", progress |-> 100, started |-> started, completed |-> TRUE]
    BY <1>1, <1>5
  <2>2. c \in Tasks
    BY <1>1, <2>1 DEF Tasks
  <2> QED BY <2>1, <2>2 DEF Sensible
<1>6. CASE c = [task EXCEPT !.status = "in_progress", !.progress = 50, !.started = TRUE]
  <2>1. c = [status |-> "in_progress", progress |-> 50, started |-> TRUE, completed |-> completed]
    BY <1>1, <1>6
  <2>2. c \in Tasks
    BY <1>1, <2>1 DEF Tasks
  <2> QED BY <2>1, <2>2 DEF Sensible
<1>7. CASE c = [task EXCEPT !.progress = 0]
  BY <1>1, <1>7 DEF Tasks, Sensible, Command!NewTask
<1> QED BY <1>2, <1>3, <1>4, <1>5, <1>6, <1>7

\* An event more is no matter to the tasks, and no event is made up.
LEMMA EventAdded ==
    ASSUME NEW document \in Projects, NEW n \in Nat, document.events \subseteq 0 .. n
    PROVE  LET new == [document EXCEPT !.events = Command!AddEvent(@, n)]
           IN  new \in Projects /\ new.events = Command!AddEvent(document.events, n)
               /\ new.events \subseteq 0 .. n
<1>1. Command!AddEvent(document.events, n) \subseteq 0 .. n
  BY DEF Command!AddEvent
<1> QED BY <1>1 DEF Projects, Command!MakesSense

LEMMA BeginsKeeps ==
    ASSUME Editable, ProjectInv, NEW p \in Processes, NEW document \in Projects,
           document.events \subseteq 0 .. commands,
           Calm /\ Others(p) => KeepsNewest(document.events, done),
           Command!Begins(p, document)
    PROVE  ProjectInv'
<1> DEFINE n == commands + 1
           new == [document EXCEPT !.events = Command!AddEvent(@, n)]
<1>1. /\ phase[p] = "idle" /\ commands' = n
      /\ update' = [update EXCEPT ![p] = n]
      /\ phase' = [phase EXCEPT ![p] = "truncate project"]
      /\ holds' = [holds EXCEPT ![p] = new]
      /\ mishaps' = IF \E q \in Processes \ {p} : phase[q] # "idle"
                    THEN mishaps \cup {"overlap"} ELSE mishaps
      /\ UNCHANGED <<project, unseen, markdown, done>>
  BY DEF Command!Begins
<1>2. ProjectTypes
  BY DEF ProjectInv
<1>3. n \in Nat /\ 0 .. commands \subseteq 0 .. n /\ document.events \in SUBSET (0 .. n)
      /\ done \in SUBSET (0 .. n)
  BY <1>2 DEF ProjectTypes
<1>4. new \in Projects /\ new.events = Command!AddEvent(document.events, n)
      /\ new.events \subseteq 0 .. n
  BY <1>3, EventAdded
<1>5. Calm' => Calm /\ Others(p)
  BY <1>1 DEF Calm, Others
<1>6. Calm' => KeepsNewest(new.events, done \cup {n})
  BY <1>3, <1>4, <1>5, AddsEvent
<1> HIDE DEF n, new
<1>7. p \in Everyone /\ Processes \subseteq Everyone /\ p # Command!Watcher
  BY DEF Everyone, Editable
<1>8. /\ phase'[p] = "truncate project" /\ holds'[p] = new /\ update'[p] = n
      /\ \A v \in Everyone \ {p} : phase'[v] = phase[v] /\ holds'[v] = holds[v]
      /\ \A q \in Processes \ {p} : update'[q] = update[q]
  BY <1>1, <1>2, <1>7 DEF ProjectTypes
<1>9. ProjectTypes'
  <2>1. /\ phase' \in [Everyone -> Phases] /\ phase'[Command!Watcher] \notin Writing
        /\ holds' \in [Everyone -> Projects \cup {NoDocument}] /\ update' \in [Processes -> Nat]
    BY <1>1, <1>2, <1>3, <1>4, <1>7 DEF ProjectTypes, Phases, Everyone
  <2>2. commands' \in Nat /\ done' \in SUBSET (0 .. commands')
        /\ (project' \in Projects => project'.events \subseteq 0 .. commands')
    BY <1>1, <1>2, <1>3 DEF ProjectTypes
  <2>3. ASSUME NEW v \in Everyone, phase'[v] \notin {"idle", "render"} PROVE holds'[v] \in Projects
    BY <1>2, <1>4, <1>8, <2>3 DEF ProjectTypes
  <2>4. ASSUME NEW q \in Processes, phase'[q] \in Writing
        PROVE  holds'[q].events \subseteq 0 .. commands' /\ update'[q] \in 0 .. commands'
    <3>1. CASE q = p
      <4>1. new.events \subseteq 0 .. commands' /\ n \in 0 .. commands'
        <5>1. n \in 0 .. n
          BY <1>3
        <5> QED BY <1>1, <1>4, <5>1
      <4> QED BY <1>8, <3>1, <4>1
    <3>2. CASE q # p
      <4>1. /\ holds[q].events \subseteq 0 .. commands /\ update[q] \in 0 .. commands
            /\ holds'[q] = holds[q] /\ update'[q] = update[q]
        BY <1>2, <1>7, <1>8, <2>4, <3>2 DEF ProjectTypes
      <4> QED BY <1>1, <1>3, <4>1
    <3> QED BY <3>1, <3>2
  <2> QED BY <1>1, <1>2, <2>1, <2>2, <2>3, <2>4 DEF ProjectTypes, Command!Missing
<1>10. ASSUME Calm' PROVE Steady'
  <2>1. Steady /\ Others(p)
    BY <1>5, <1>10 DEF ProjectInv
  <2>2. \A q \in Processes \ {p} : phase'[q] = "idle"
    BY <1>7, <1>8, <2>1 DEF Others
  <2>3. \A q \in Processes : phase'[q] # "idle" => Others(q)'
    BY <1>8, <2>2 DEF Others
  <2>4. \A q \in Processes : phase[q] = "idle"
    BY <1>1, <2>1 DEF Others
  <2>5. project' \notin Projects => done' = {}
    BY <1>1, <2>1, <2>4 DEF Steady
  <2>6. project' \in Projects => KeepsNewest(project.events, done)'
    BY <1>1, <2>1 DEF Steady, KeepsNewest, Above
  <2>7. ASSUME NEW q \in Processes, phase'[q] \in Writing
        PROVE  KeepsNewest(holds[q].events, done \cup {update[q]})'
    <3>1. q = p
      <4>1. phase'[q] # "idle"
        BY <2>7 DEF Writing
      <4> QED BY <2>2, <4>1
    <3>2. KeepsNewest(new.events, done \cup {n})
      BY <1>6, <1>10
    <3> QED BY <1>1, <1>8, <3>1, <3>2 DEF KeepsNewest, Above
  <2>8. \A q \in Processes : phase'[q] # "write project"
    BY <1>8, <2>2
  <2> QED BY <2>3, <2>5, <2>6, <2>7, <2>8 DEF Steady
<1> QED BY <1>9, <1>10 DEF ProjectInv

LEMMA CommandsKeep ==
    ASSUME Editable, ProjectInv, NEW p \in Processes, Command!CmdInit(p) \/ Command!ChangeTask(p)
    PROVE  ProjectInv'
<1>1. ProjectTypes
  BY DEF ProjectInv
<1>2. CASE Command!CmdInit(p)
  <2>1. project = NoDocument /\ Command!Begins(p, Command!NewProject)
    BY <1>2 DEF Command!CmdInit
  <2>2. Command!NewProject \in Projects /\ Command!NewProject.events = {}
    <3>1. Command!NewTask \in Tasks
      BY DEF Tasks, Command!NewTask
    <3>2. Command!NewProject \in [tasks : [TaskIDs -> Tasks], events : SUBSET Nat]
          /\ Command!NewProject.events = {}
      BY <3>1 DEF Command!NewProject
    <3>3. \A id \in TaskIDs : Command!NewProject.tasks[id] = Command!NewTask
      BY DEF Command!NewProject
    <3>4. Command!MakesSense(Command!NewProject)
      BY <3>3 DEF Command!MakesSense, Command!NewTask
    <3> QED BY <3>2, <3>4 DEF Projects
  <2>3. Calm /\ Others(p) => done = {}
    <3>1. project \notin Projects /\ phase[p] = "idle"
      BY <2>1 DEF Editable, Command!Begins
    <3> QED BY <3>1 DEF ProjectInv, Steady, Others
  <2>4. Calm /\ Others(p) => KeepsNewest(Command!NewProject.events, done)
    BY <2>3 DEF KeepsNewest
  <2> QED BY <2>1, <2>2, <2>4, BeginsKeeps
<1>3. CASE Command!ChangeTask(p)
  <2>1. project \notin Command!Missing
    BY <1>3 DEF Command!ChangeTask
  <2>2. project \in Projects /\ project.events \subseteq 0 .. commands
    BY <1>1, <2>1 DEF ProjectTypes
  <2>30. PICK id \in TaskIDs : \E task \in Command!Changes(project.tasks[id]) :
           Command!Begins(p, [project EXCEPT !.tasks[id] = task])
    BY <1>3 DEF Command!ChangeTask
  <2>3. PICK task \in Command!Changes(project.tasks[id]) :
           Command!Begins(p, [project EXCEPT !.tasks[id] = task])
    BY <2>30
  <2> DEFINE document == [project EXCEPT !.tasks[id] = task]
  <2>4. project.tasks \in [TaskIDs -> Tasks] /\ project.events \in SUBSET Nat
        /\ \A t \in TaskIDs : Sensible(project.tasks[t])
    BY <2>2 DEF Projects, Command!MakesSense, Sensible
  <2>5. task \in Tasks /\ Sensible(task)
    BY <2>3, <2>4, ChangesMakeSense
  <2>6. /\ document \in [tasks : [TaskIDs -> Tasks], events : SUBSET Nat]
        /\ document.events = project.events
        /\ \A t \in TaskIDs : document.tasks[t] = IF t = id THEN task ELSE project.tasks[t]
    BY <2>2, <2>4, <2>5 DEF Projects
  <2>7. document \in Projects
    <3>1. \A t \in TaskIDs : Sensible(document.tasks[t])
      BY <2>4, <2>5, <2>6
    <3> HIDE DEF document
    <3> QED BY <2>6, <3>1 DEF Projects, Command!MakesSense, Sensible
  <2>8. Calm => KeepsNewest(document.events, done)
    BY <2>2, <2>6 DEF ProjectInv, Steady
  <2> HIDE DEF document
  <2> QED BY <2>2, <2>3, <2>6, <2>7, <2>8, BeginsKeeps DEF document
<1> QED BY <1>2, <1>3

\* The file is truncated; what was in it is to be written again, with one update more.
LEMMA TruncationKeeps ==
    ASSUME Editable, ProjectInv, NEW p \in Processes, Command!WriteProject(p),
           phase[p] = "truncate project"
    PROVE  ProjectInv'
<1>1. ProjectTypes
  BY DEF ProjectInv
<1>2. /\ project' = EmptyFile /\ phase' = [phase EXCEPT ![p] = "write project"]
      /\ UNCHANGED <<holds, update, done, markdown, commands, mishaps>>
  BY DEF Command!WriteProject
<1>3. p \in Everyone /\ Processes \subseteq Everyone /\ p # Command!Watcher
  BY DEF Everyone, Editable
<1>4. phase'[p] = "write project" /\ \A v \in Everyone \ {p} : phase'[v] = phase[v]
  BY <1>1, <1>2, <1>3 DEF ProjectTypes
<1>5. project' \notin Projects
  BY <1>2 DEF Editable
<1>6. ProjectTypes'
  <2>1. phase' \in [Everyone -> Phases] /\ phase'[Command!Watcher] \notin Writing
    BY <1>1, <1>2, <1>3 DEF ProjectTypes, Phases, Everyone
  <2>2. ASSUME NEW v \in Everyone, phase'[v] \notin {"idle", "render"} PROVE holds'[v] \in Projects
    BY <1>1, <1>2, <1>4, <2>2 DEF ProjectTypes
  <2>3. ASSUME NEW q \in Processes, phase'[q] \in Writing
        PROVE  holds'[q].events \subseteq 0 .. commands' /\ update'[q] \in 0 .. commands'
    <3>1. phase[q] \in Writing
      BY <1>3, <1>4, <2>3 DEF Writing
    <3> QED BY <1>1, <1>2, <3>1 DEF ProjectTypes
  <2> QED BY <1>1, <1>2, <1>5, <2>1, <2>2, <2>3 DEF ProjectTypes, Command!Missing
<1>7. ASSUME Calm' PROVE Steady'
  <2>1. Steady
    BY <1>2, <1>7 DEF ProjectInv, Calm
  <2>2. \A q \in Processes \ {p} : phase[q] = "idle" /\ phase'[q] = "idle"
    BY <1>3, <1>4, <2>1 DEF Steady, Others
  <2>3. \A q \in Processes : phase'[q] # "idle" => Others(q)'
    BY <2>2 DEF Others
  <2>4. ASSUME NEW q \in Processes, phase'[q] \in Writing
        PROVE  KeepsNewest(holds[q].events, done \cup {update[q]})'
    <3>1. q = p
      BY <2>2, <2>4 DEF Writing
    <3>2. KeepsNewest(holds[p].events, done \cup {update[p]})
      BY <2>1 DEF Steady, Writing
    <3> QED BY <1>2, <3>1, <3>2 DEF KeepsNewest, Above
  <2> QED BY <1>2, <1>4, <1>5, <2>3, <2>4 DEF Steady
<1> QED BY <1>6, <1>7 DEF ProjectInv

\* The document is in the file, and the update is done.
LEMMA WriteKeeps ==
    ASSUME Editable, ProjectInv, NEW p \in Processes, Command!WriteProject(p),
           phase[p] = "write project"
    PROVE  ProjectInv'
<1>1. ProjectTypes
  BY DEF ProjectInv
<1>2. /\ project' \in Command!Over(project, holds[p])
      /\ phase' = [phase EXCEPT ![p] = "render"]
      /\ holds' = [holds EXCEPT ![p] = NoDocument] /\ update' = [update EXCEPT ![p] = 0]
      /\ done' = done \cup {update[p]} /\ UNCHANGED <<markdown, commands, mishaps>>
  BY DEF Command!WriteProject
<1>3. p \in Everyone /\ Processes \subseteq Everyone /\ p # Command!Watcher
  BY DEF Everyone, Editable
<1>4. /\ phase'[p] = "render"
      /\ \A v \in Everyone \ {p} : phase'[v] = phase[v] /\ holds'[v] = holds[v]
      /\ \A q \in Processes \ {p} : update'[q] = update[q]
  BY <1>1, <1>2, <1>3 DEF ProjectTypes
<1>5. /\ holds[p] \in Projects /\ holds[p].events \subseteq 0 .. commands
      /\ update[p] \in 0 .. commands /\ project' \in {holds[p], MixedFile}
  BY <1>1, <1>2, <1>3 DEF ProjectTypes, Writing, Command!Over
<1>6. ProjectTypes'
  <2>1. /\ phase' \in [Everyone -> Phases] /\ phase'[Command!Watcher] \notin Writing
        /\ holds' \in [Everyone -> Projects \cup {NoDocument}] /\ update' \in [Processes -> Nat]
    BY <1>1, <1>2, <1>3 DEF ProjectTypes, Phases, Everyone
  <2>2. ASSUME NEW v \in Everyone, phase'[v] \notin {"idle", "render"} PROVE holds'[v] \in Projects
    BY <1>1, <1>4, <2>2 DEF ProjectTypes
  <2>3. ASSUME NEW q \in Processes, phase'[q] \in Writing
        PROVE  holds'[q].events \subseteq 0 .. commands' /\ update'[q] \in 0 .. commands'
    <3>1. q # p
      BY <1>4, <2>3 DEF Writing
    <3>2. phase[q] \in Writing /\ holds'[q] = holds[q] /\ update'[q] = update[q]
      BY <1>3, <1>4, <2>3, <3>1
    <3> QED BY <1>1, <1>2, <3>2 DEF ProjectTypes
  <2>4. {project', markdown'} \subseteq Command!Missing \cup Projects
        /\ (project' \in Projects => project'.events \subseteq 0 .. commands')
    BY <1>1, <1>2, <1>5 DEF ProjectTypes, Command!Missing, Editable
  <2>5. commands' \in Nat /\ done' \in SUBSET (0 .. commands')
    BY <1>1, <1>2, <1>5 DEF ProjectTypes
  <2> QED BY <2>1, <2>2, <2>3, <2>4, <2>5 DEF ProjectTypes, Command!Missing
<1>7. ASSUME Calm' PROVE Steady'
  <2>1. Steady
    BY <1>2, <1>7 DEF ProjectInv, Calm
  <2>2. \A q \in Processes : phase'[q] \in {"idle", "render"} /\ (q # p => phase'[q] = "idle")
    BY <1>3, <1>4, <2>1 DEF Steady, Others
  <2>3. \A q \in Processes : phase'[q] # "idle" => Others(q)'
    BY <2>2 DEF Others
  <2>4. project' = holds[p]
    BY <1>2, <2>1 DEF Steady, Command!Over
  <2>5. KeepsNewest(holds[p].events, done \cup {update[p]})
    BY <2>1 DEF Steady, Writing
  <2>6. KeepsNewest(project.events, done)'
    BY <1>2, <2>4, <2>5 DEF KeepsNewest, Above
  <2> QED BY <1>5, <2>2, <2>3, <2>4, <2>6 DEF Steady, Writing
<1> QED BY <1>6, <1>7 DEF ProjectInv

\* One killed before the file is touched leaves what was there.
LEMMA KillKeeps ==
    ASSUME Editable, ProjectInv, NEW p \in Everyone, Command!CommandKilled(p)
    PROVE  ProjectInv'
<1>1. ProjectTypes
  BY DEF ProjectInv
<1>2. /\ phase[p] # "idle"
      /\ phase' = [phase EXCEPT ![p] = "idle"] /\ holds' = [holds EXCEPT ![p] = NoDocument]
      /\ update' = IF p = Command!Watcher THEN update ELSE [update EXCEPT ![p] = 0]
      /\ mishaps \cup ({phase[p]} \cap {"write project", "write markdown"}) \subseteq mishaps'
      /\ UNCHANGED <<project, unseen, markdown, commands, done>>
  BY DEF Command!CommandKilled
<1>3. Calm' => Calm
  BY <1>2 DEF Calm
<1>4. p \in Everyone /\ Processes \subseteq Everyone /\ Command!Watcher \in Everyone
      /\ Command!Watcher \notin Processes
  BY DEF Everyone, Editable
<1>5. /\ phase'[p] = "idle"
      /\ \A v \in Everyone \ {p} : phase'[v] = phase[v] /\ holds'[v] = holds[v]
      /\ phase' \in [Everyone -> Phases] /\ holds' \in [Everyone -> Projects \cup {NoDocument}]
  BY <1>1, <1>2 DEF ProjectTypes, Phases
<1>6. update' \in [Processes -> Nat] /\ \A q \in Processes \ {p} : update'[q] = update[q]
  BY <1>1, <1>2 DEF ProjectTypes
<1>7. CASE phase[p] \notin Writing
  <2>1. markdown' \in Command!Missing \cup Projects
    BY <1>1, <1>2 DEF ProjectTypes
  <2>2. phase'[p] \notin Writing
    BY <1>5 DEF Writing
  <2> QED BY <1>2, <1>3, <1>4, <1>5, <1>6, <1>7, <2>1, <2>2, ReaderKeeps
<1>8. CASE phase[p] \in Writing
  <2>1. p \in Processes /\ p # Command!Watcher
    BY <1>1, <1>4, <1>8 DEF ProjectTypes, Everyone
  <2>2. ProjectTypes'
    <3>1. ASSUME NEW v \in Everyone, phase'[v] \notin {"idle", "render"}
          PROVE  holds'[v] \in Projects
      BY <1>1, <1>5, <3>1 DEF ProjectTypes
    <3>2. ASSUME NEW q \in Processes, phase'[q] \in Writing
          PROVE  holds'[q].events \subseteq 0 .. commands' /\ update'[q] \in 0 .. commands'
      <4>1. q # p
        BY <1>5, <3>2 DEF Writing
      <4>2. phase[q] \in Writing /\ holds'[q] = holds[q] /\ update'[q] = update[q]
        BY <1>4, <1>5, <1>6, <3>2, <4>1
      <4> QED BY <1>1, <1>2, <4>2 DEF ProjectTypes
    <3>3. phase'[Command!Watcher] \notin Writing
      BY <1>1, <1>4, <1>5, <2>1 DEF ProjectTypes
    <3> QED BY <1>1, <1>2, <1>5, <1>6, <3>1, <3>2, <3>3 DEF ProjectTypes, Command!Missing
  <2>3. ASSUME Calm' PROVE Steady'
    <3>1. Steady
      BY <1>3, <2>3 DEF ProjectInv
    <3>2. phase[p] = "truncate project"
      BY <1>2, <1>8, <2>3 DEF Calm, Writing
    <3>3. \A q \in Processes : phase'[q] = "idle" /\ phase[q] # "write project"
      BY <1>4, <1>5, <2>1, <3>1, <3>2 DEF Steady, Others, Writing
    <3>4. KeepsNewest(project.events, done)' = KeepsNewest(project.events, done)
      BY <1>2 DEF KeepsNewest, Above
    <3> QED BY <1>2, <3>1, <3>3, <3>4 DEF Steady, Writing
  <2> QED BY <2>2, <2>3 DEF ProjectInv
<1> QED BY <1>7, <1>8

\* Whoever renders reads the project and writes the Markdown.
LEMMA RendersKeep ==
    ASSUME Editable, ProjectInv, NEW w \in Everyone,
           Command!RenderReads(w) \/ Command!RenderWrites(w)
    PROVE  ProjectInv'
<1>1. ProjectTypes
  BY DEF ProjectInv
<1>2. UNCHANGED <<project, update, commands, done, mishaps>> /\ (Calm' => Calm)
  BY DEF Command!RenderReads, Command!RenderWrites, Calm
<1>3. /\ phase[w] \notin Writing /\ phase[w] # "idle"
      /\ phase' \in [Everyone -> Phases] /\ holds' \in [Everyone -> Projects \cup {NoDocument}]
      /\ \A v \in Everyone \ {w} : phase'[v] = phase[v] /\ holds'[v] = holds[v]
      /\ phase'[w] \notin Writing
      /\ (phase'[w] \notin {"idle", "render"} => holds'[w] \in Projects)
      /\ markdown' \in Command!Missing \cup Projects
  <2>1. CASE Command!RenderReads(w)
    <3>1. phase[w] = "render" /\ UNCHANGED markdown
      BY <2>1 DEF Command!RenderReads
    <3>2. \/ phase' = [phase EXCEPT ![w] = "idle"] /\ UNCHANGED holds
          \/ /\ phase' = [phase EXCEPT ![w] = "truncate markdown"]
             /\ holds' = [holds EXCEPT ![w] = project] /\ project \in Projects
      BY <1>1, <2>1 DEF Command!RenderReads, ProjectTypes
    <3> QED BY <1>1, <3>1, <3>2 DEF ProjectTypes, Phases, Writing
  <2>2. CASE Command!RenderWrites(w)
    <3>1. phase[w] \in {"truncate markdown", "write markdown"} /\ holds[w] \in Projects
      BY <1>1, <2>2 DEF Command!RenderWrites, ProjectTypes
    <3>2. \/ /\ phase' = [phase EXCEPT ![w] = "write markdown"] /\ UNCHANGED holds
             /\ markdown' = EmptyFile
          \/ /\ phase' = [phase EXCEPT ![w] = "idle"] /\ holds' = [holds EXCEPT ![w] = NoDocument]
             /\ markdown' \in {holds[w], MixedFile}
      BY <2>2 DEF Command!RenderWrites, Command!Over
    <3> QED BY <1>1, <3>1, <3>2 DEF ProjectTypes, Phases, Writing, Command!Missing
  <2> QED BY <2>1, <2>2
<1>4. update' \in [Processes -> Nat] /\ commands' = commands
      /\ \A q \in Processes \ {w} : update'[q] = update[q]
  BY <1>1, <1>2 DEF ProjectTypes
<1> QED BY <1>2, <1>3, <1>4, ReaderKeeps

LEMMA RenderBegins ==
    ASSUME Editable, ProjectInv,
           (\E p \in Processes : Command!CmdRender(p)) \/ Command!WatchSees
    PROVE  ProjectInv'
<1>1. ProjectTypes
  BY DEF ProjectInv
<1>2. PICK w \in Everyone : /\ phase[w] = "idle" /\ phase' = [phase EXCEPT ![w] = "render"]
                            /\ commands' \in {commands, commands + 1}
                            /\ UNCHANGED <<project, markdown, holds, update, done>>
                            /\ Calm' => Calm
                            /\ Calm' /\ w \in Processes => Others(w)
  <2>1. CASE \E p \in Processes : Command!CmdRender(p)
    <3>1. PICK p \in Processes : Command!CmdRender(p)
      BY <2>1
    <3>2. (Calm' => Calm) /\ (Calm' => Others(p))
      BY <3>1 DEF Command!CmdRender, Calm, Others
    <3> QED BY <3>1, <3>2 DEF Command!CmdRender, Everyone
  <2>2. CASE Command!WatchSees
    <3>1. Calm' => Calm
      BY <2>2 DEF Command!WatchSees, Calm
    <3> QED BY <2>2, <3>1 DEF Command!WatchSees, Everyone, Editable
  <2> QED BY <2>1, <2>2
<1>3. /\ phase' \in [Everyone -> Phases] /\ phase'[w] = "render"
      /\ \A v \in Everyone \ {w} : phase'[v] = phase[v]
  BY <1>1, <1>2 DEF ProjectTypes, Phases
<1>4. /\ holds' \in [Everyone -> Projects \cup {NoDocument}] /\ update' \in [Processes -> Nat]
      /\ markdown' \in Command!Missing \cup Projects
      /\ phase[w] \notin Writing /\ phase'[w] \notin Writing
      /\ \A v \in Everyone \ {w} : phase'[v] = phase[v] /\ holds'[v] = holds[v]
      /\ \A q \in Processes \ {w} : update'[q] = update[q]
      /\ (phase'[w] \notin {"idle", "render"} => holds'[w] \in Projects)
  BY <1>1, <1>2, <1>3 DEF ProjectTypes, Writing
<1> QED BY <1>2, <1>3, <1>4, ReaderKeeps

\* The file that an earlier command has left holds a document.
LEMMA EarlierDocument ==
    LET begun == [Command!NewProject EXCEPT
                     !.tasks = [t \in TaskIDs |-> Command!StartTask(Command!NewTask)],
                     !.events = {0}]
    IN  begun \in Projects /\ begun.events = {0}
<1> DEFINE begun == [Command!NewProject EXCEPT
                        !.tasks = [t \in TaskIDs |-> Command!StartTask(Command!NewTask)],
                        !.events = {0}]
<1> DEFINE task == Command!StartTask(Command!NewTask)
<1>1. Command!NewTask \in Tasks /\ Sensible(Command!NewTask)
  BY DEF Tasks, Sensible, Command!NewTask
<1>2. task \in Tasks /\ Sensible(task)
  <2>1. task \in Command!Changes(Command!NewTask)
    BY DEF Command!Changes
  <2> HIDE DEF task
  <2> QED BY <1>1, <2>1, ChangesMakeSense
<1>3. Command!NewProject \in [tasks : [TaskIDs -> Tasks], events : SUBSET Nat]
  BY <1>1 DEF Command!NewProject
<1> HIDE DEF task
<1>4. begun \in [tasks : [TaskIDs -> Tasks], events : SUBSET Nat] /\ begun.events = {0}
      /\ \A t \in TaskIDs : Sensible(begun.tasks[t])
  <2>1. begun = [Command!NewProject EXCEPT !.tasks = [t \in TaskIDs |-> task], !.events = {0}]
    BY DEF task
  <2> HIDE DEF begun
  <2>2. PICK tasks, kept : Command!NewProject = [tasks |-> tasks, events |-> kept]
    BY DEF Command!NewProject
  <2>3. begun = [tasks |-> [t \in TaskIDs |-> task], events |-> {0}]
    BY <2>1, <2>2
  <2> QED BY <1>2, <2>3
<1> QED BY <1>4 DEF Projects, Command!MakesSense, Sensible

LEMMA ProjectBegins == ASSUME Editable, Command!ProjectInit PROVE ProjectInv
<1> DEFINE begun == [Command!NewProject EXCEPT
                        !.tasks = [t \in TaskIDs |-> Command!StartTask(Command!NewTask)],
                        !.events = {0}]
<1>1. /\ project \in {NoDocument, begun} /\ markdown = project
      /\ phase = [p \in Everyone |-> "idle"] /\ holds = [p \in Everyone |-> NoDocument]
      /\ update = [p \in Processes |-> 0] /\ commands = 0 /\ done = {}
  BY DEF Command!ProjectInit, Everyone
<1>2. begun \in Projects /\ begun.events = {0}
  BY EarlierDocument
<1> HIDE DEF begun
<1>3. ProjectTypes
  BY <1>1, <1>2 DEF ProjectTypes, Command!Missing, Phases, Writing, Everyone, Editable
<1>4. Steady
  <2>1. \A p \in Processes : phase[p] = "idle"
    BY <1>1 DEF Everyone
  <2>2. KeepsNewest(project.events, done)
    BY <1>1 DEF KeepsNewest
  <2> QED BY <1>1, <2>1, <2>2 DEF Steady, Writing
<1> QED BY <1>3, <1>4 DEF ProjectInv

LEMMA ProjectStep ==
    ASSUME Editable, ProjectInv, [Command!ProjectNext]_(Command!projectVars)
    PROVE  ProjectInv'
<1>1. DOMAIN phase = Everyone /\ Processes \subseteq Everyone /\ Command!Watcher \in Everyone
  BY DEF ProjectInv, ProjectTypes, Everyone
<1>2. CASE UNCHANGED <<project, unseen, markdown, phase, holds, update, commands, done, mishaps>>
  <2>1. ProjectTypes' = ProjectTypes
    BY <1>2 DEF ProjectTypes
  <2>2. Calm' = Calm
    BY <1>2 DEF Calm
  <2>3. Steady' = Steady
    BY <1>2 DEF Steady, Others, KeepsNewest, Above
  <2> QED BY <2>1, <2>2, <2>3 DEF ProjectInv
<1>3. ASSUME NEW p \in Processes, Command!CmdInit(p) \/ Command!ChangeTask(p)
      PROVE  ProjectInv'
  BY <1>3, CommandsKeep
<1>4. ASSUME NEW p \in Processes, Command!WriteProject(p) PROVE ProjectInv'
  <2>1. phase[p] \in {"truncate project", "write project"}
    BY <1>4 DEF Command!WriteProject
  <2> QED BY <1>4, <2>1, TruncationKeeps, WriteKeeps
<1>5. ASSUME NEW w \in Everyone, Command!RenderReads(w) \/ Command!RenderWrites(w)
      PROVE  ProjectInv'
  BY <1>5, RendersKeep
<1>6. ASSUME NEW p \in Everyone, Command!CommandKilled(p) PROVE ProjectInv'
  BY <1>6, KillKeeps
<1>7. ASSUME (\E p \in Processes : Command!CmdRender(p)) \/ Command!WatchSees PROVE ProjectInv'
  BY <1>7, RenderBegins
<1>8. Command!ProjectNext => ProjectInv'
  BY <1>1, <1>2, <1>3, <1>4, <1>5, <1>6, <1>7
     DEF Command!ProjectNext, Command!CmdWatch, Command!Exhausted
<1> QED BY <1>2, <1>8 DEF Command!projectVars

\* Unless commands overlap or one is killed while it writes, the project file holds every
\* update that is done but those that a document's worth of later ones has pushed out; and
\* every document, on disk, in memory or shown, makes sense of its tasks, whoever is killed.
THEOREM UpdatesAreKept ==
    ASSUME Editable PROVE ProjectSpec => [](Command!UpdatesStand /\ Command!TasksMakeSense)
<1>1. Command!ProjectInit => ProjectInv
  BY ProjectBegins
<1>2. ProjectInv /\ [Command!ProjectNext]_(Command!projectVars) => ProjectInv'
  BY ProjectStep
<1>3. ProjectInv => Command!UpdatesStand /\ Command!TasksMakeSense
  <2> SUFFICES ASSUME ProjectInv PROVE Command!UpdatesStand /\ Command!TasksMakeSense
    OBVIOUS
  <2>1. ProjectTypes
    BY DEF ProjectInv
  <2>2. \A d \in Command!Missing \cup Projects : d \in Projects <=> d \notin Command!Missing
    BY DEF Editable, Command!Missing
  <2>3. Command!UpdatesStand
    <3>1. Calm => Steady
      BY DEF ProjectInv
    <3>2. project \in Projects <=> project \notin Command!Missing
      BY <2>1, <2>2 DEF ProjectTypes
    <3>3. \A S : Command!Cardinality(S) = Cardinality(S)
      BY DEF Command!Cardinality, Cardinality
    <3>4. ASSUME Calm
          PROVE  /\ project \in Command!Missing =>
                       done = {} \/ \E p \in Processes : phase[p] = "write project"
                 /\ project \notin Command!Missing => \A n \in done \ project.events :
                       Command!Cardinality({e \in project.events : e > n}) >= EventCap
      BY <3>1, <3>2, <3>3, <3>4 DEF Steady, KeepsNewest, Above
    <3> QED BY <3>4, Zenon DEF Command!UpdatesStand, Calm
  <2>4. Command!TasksMakeSense
    <3>1. \A d \in Command!Documents : d \in Projects
      <4>1. \A p \in DOMAIN holds : holds[p] \in Command!Missing \cup Projects
        BY <2>1 DEF ProjectTypes, Command!Missing
      <4>2. \A d \in Command!Documents :
               d \in Command!Missing \cup Projects /\ d \notin Command!Missing
        BY <2>1, <4>1 DEF Command!Documents, ProjectTypes
      <4> QED BY <2>2, <4>2
    <3> QED BY <3>1 DEF Command!TasksMakeSense, Projects
  <2> QED BY <2>3, <2>4
<1> QED BY <1>1, <1>2, <1>3, PTL DEF ProjectSpec

\* Nothing has overlapped, and nobody was killed in the middle of a write.
Quiet == mishaps \cap {"overlap", "write project", "write markdown", "watcher"} = {}

Rendering == {"truncate markdown", "write markdown"}

\* Then the file is unreadable only while it is written; a command renders what is in the
\* file, and so does the watcher when it has seen the last modification; and the Markdown
\* shows the file, unless the watcher has still to truncate it or it is truncated.
Shows ==
    /\ project \in {EmptyFile, MixedFile} \ {NoDocument} =>
          \E p \in Processes : phase[p] = "write project"
    /\ \A p \in Processes : phase[p] \in Rendering => holds[p] = project
    /\ ~unseen /\ phase[Command!Watcher] \in Rendering => holds[Command!Watcher] = project
    /\ ~unseen /\ project \in Projects =>
          \/ markdown = project \/ phase[Command!Watcher] \in {"render", "truncate markdown"}
          \/ markdown = EmptyFile /\ \E w \in Everyone : phase[w] = "write markdown"

ShowInv == ProjectInv /\ (Quiet => Shows)

\* A step of one that was not writing, and leaves the files alone.
LEMMA ShowsStill ==
    ASSUME Editable, ProjectInv, Shows, NEW w \in Everyone, UNCHANGED <<project, markdown>>,
           \A v \in Everyone \ {w} : phase'[v] = phase[v] /\ holds'[v] = holds[v],
           phase[w] \notin {"write project", "write markdown"},
           phase'[w] \in Rendering => holds'[w] = project,
           \/ UNCHANGED unseen
              /\ (w = Command!Watcher => phase[w] = "render" /\ (project \notin Projects
                                            \/ phase'[w] = "truncate markdown"))
           \/ w = Command!Watcher /\ phase'[w] = "render"
    PROVE  Shows'
<1>1. Processes \subseteq Everyone /\ Command!Watcher \in Everyone /\ Command!Watcher \notin Processes
  BY DEF Everyone, Editable
<1>2. \A v \in Everyone : phase[v] \in {"write project", "write markdown"} => phase'[v] = phase[v]
  OBVIOUS
<1>3. project' \in {EmptyFile, MixedFile} \ {NoDocument} =>
         \E p \in Processes : phase'[p] = "write project"
  BY <1>1, <1>2 DEF Shows
<1>4. ASSUME NEW p \in Processes, phase'[p] \in Rendering PROVE holds'[p] = project
  BY <1>1, <1>4 DEF Shows
<1>5. ASSUME ~unseen', phase'[Command!Watcher] \in Rendering PROVE holds'[Command!Watcher] = project
  <2>1. CASE w = Command!Watcher
    BY <1>5, <2>1
  <2>2. CASE w # Command!Watcher
    BY <1>1, <1>5, <2>2 DEF Shows
  <2> QED BY <2>1, <2>2
<1>6. ASSUME ~unseen', project \in Projects
      PROVE  \/ markdown = project \/ phase'[Command!Watcher] \in {"render", "truncate markdown"}
             \/ markdown = EmptyFile /\ \E v \in Everyone : phase'[v] = "write markdown"
  <2>1. CASE w = Command!Watcher
    BY <1>6, <2>1
  <2>2. CASE w # Command!Watcher
    <3>1. phase'[Command!Watcher] = phase[Command!Watcher] /\ ~unseen
      <4>1. unseen' = unseen
        BY <2>2
      <4> QED BY <1>1, <1>6, <2>2, <4>1, Zenon
    <3> QED BY <1>2, <1>6, <3>1 DEF Shows
  <2> QED BY <2>1, <2>2
<1> QED BY <1>3, <1>4, <1>5, <1>6 DEF Shows

\* A write to the project leaves a modification that is not seen.
LEMMA ShowsWrite ==
    ASSUME Editable, ProjectInv, ProjectInv', Quiet', NEW p \in Processes, Command!WriteProject(p)
    PROVE  Shows'
<1>1. unseen' = TRUE /\ Calm'
  BY DEF Command!WriteProject, Quiet, Calm
<1>2. Steady' /\ ProjectTypes
  BY <1>1 DEF ProjectInv
<1>3. p \in Everyone /\ phase \in [Everyone -> Phases]
  BY <1>2 DEF ProjectTypes, Everyone
<1>4. \/ phase'[p] = "write project" /\ project' = EmptyFile
      \/ phase'[p] = "render" /\ project' \in Command!Over(project, holds[p])
         /\ phase[p] = "write project"
  BY <1>3 DEF Command!WriteProject
<1>5. \A q \in Processes : phase'[q] \notin Rendering
  BY <1>2, <1>4 DEF Steady, Others, Rendering
<1>6. project' \in {EmptyFile, MixedFile} => \E q \in Processes : phase'[q] = "write project"
  <2>1. CASE phase'[p] = "write project"
    BY <2>1
  <2>2. CASE phase'[p] = "render" /\ project' \in Command!Over(project, holds[p])
             /\ phase[p] = "write project"
    <3>1. Calm /\ Steady
      BY <1>1 DEF Command!WriteProject, Calm, ProjectInv
    <3>2. project' = holds[p] /\ holds[p] \in Projects
      BY <1>2, <1>3, <2>2, <3>1 DEF Steady, Command!Over, ProjectTypes
    <3> QED BY <3>2 DEF Editable
  <2> QED BY <1>4, <2>1, <2>2
<1> QED BY <1>1, <1>5, <1>6 DEF Shows

\* Whoever truncates the Markdown will write it, and writes what is in the file.
LEMMA ShowsRender ==
    ASSUME Editable, ProjectInv, Shows, NEW w \in Everyone, Command!RenderWrites(w)
    PROVE  Shows'
<1>1. ProjectTypes
  BY DEF ProjectInv
<1>2. Processes \subseteq Everyone /\ Command!Watcher \in Everyone
  BY DEF Everyone
<1>3. /\ phase[w] \in Rendering /\ UNCHANGED <<project, unseen>>
      /\ \A v \in Everyone \ {w} : phase'[v] = phase[v] /\ holds'[v] = holds[v]
      /\ \/ /\ phase[w] = "truncate markdown" /\ phase'[w] = "write markdown"
            /\ holds'[w] = holds[w] /\ markdown' = EmptyFile
         \/ /\ phase[w] = "write markdown" /\ phase'[w] = "idle"
            /\ markdown' \in Command!Over(markdown, holds[w])
  BY <1>1 DEF Command!RenderWrites, ProjectTypes, Rendering
<1>4. \A p \in Processes : phase[p] = "write project" => phase'[p] = "write project"
  BY <1>2, <1>3 DEF Rendering
<1>5. \A v \in Everyone : phase'[v] \in Rendering => phase[v] \in Rendering /\ holds'[v] = holds[v]
  BY <1>3 DEF Rendering
<1>6. ASSUME ~unseen', project' \in Projects
      PROVE  \/ markdown' = project \/ phase'[Command!Watcher] \in {"render", "truncate markdown"}
             \/ markdown' = EmptyFile /\ \E v \in Everyone : phase'[v] = "write markdown"
  <2>1. CASE phase'[w] = "write markdown" /\ markdown' = EmptyFile
    BY <2>1
  <2>2. CASE phase[w] = "write markdown" /\ markdown' \in Command!Over(markdown, holds[w])
    <3>1. holds[w] = project
      BY <1>3, <1>6 DEF Shows, Everyone
    <3>2. CASE markdown \in {EmptyFile, project}
      BY <2>2, <3>1, <3>2 DEF Command!Over
    <3>3. CASE markdown \notin {EmptyFile, project}
      <4>1. phase[Command!Watcher] \in {"render", "truncate markdown"}
        BY <1>3, <1>6, <3>3 DEF Shows
      <4>2. phase'[Command!Watcher] = phase[Command!Watcher]
        BY <1>2, <1>3, <2>2, <4>1
      <4> QED BY <4>1, <4>2
    <3> QED BY <3>2, <3>3
  <2> QED BY <1>3, <2>1, <2>2
<1> QED BY <1>2, <1>3, <1>4, <1>5, <1>6 DEF Shows

LEMMA ShowStep ==
    ASSUME Editable, ShowInv, [Command!ProjectNext]_(Command!projectVars)
    PROVE  ShowInv'
<1>1. ProjectInv /\ ProjectInv' /\ ProjectTypes
  BY ProjectStep DEF ShowInv, ProjectInv
<1>2. DOMAIN phase = Everyone /\ Processes \subseteq Everyone /\ Command!Watcher \in Everyone
      /\ Command!Watcher \notin Processes
  BY <1>1 DEF ProjectTypes, Everyone, Editable
<1>3. SUFFICES ASSUME Quiet' PROVE Shows'
  BY <1>1 DEF ShowInv
<1>4. mishaps \subseteq mishaps' => Shows
  BY <1>3 DEF ShowInv, Quiet
<1>5. CASE UNCHANGED <<project, unseen, markdown, phase, holds, update, commands, done, mishaps>>
  BY <1>4, <1>5 DEF Shows
<1>6. ASSUME NEW p \in Processes, NEW document, Command!Begins(p, document) PROVE Shows'
  <2>1. /\ phase[p] = "idle" /\ phase' = [phase EXCEPT ![p] = "truncate project"]
        /\ \E d : holds' = [holds EXCEPT ![p] = d]
        /\ mishaps \subseteq mishaps' /\ UNCHANGED <<project, unseen, markdown>>
    BY <1>6 DEF Command!Begins
  <2>2. /\ phase'[p] = "truncate project"
        /\ \A v \in Everyone \ {p} : phase'[v] = phase[v] /\ holds'[v] = holds[v]
    BY <1>1, <1>2, <2>1 DEF ProjectTypes
  <2> QED BY <1>1, <1>2, <1>4, <2>1, <2>2, ShowsStill DEF Rendering
<1>7. ASSUME NEW p \in Processes, Command!CmdInit(p) \/ Command!ChangeTask(p) PROVE Shows'
  BY <1>6, <1>7 DEF Command!CmdInit, Command!ChangeTask
<1>8. ASSUME NEW p \in Processes, Command!WriteProject(p) PROVE Shows'
  BY <1>1, <1>3, <1>8, ShowsWrite
<1>9. ASSUME NEW w \in Everyone, Command!RenderReads(w) PROVE Shows'
  <2>1. /\ phase[w] = "render" /\ mishaps \subseteq mishaps' /\ UNCHANGED <<project, unseen, markdown>>
        /\ \A v \in Everyone \ {w} : phase'[v] = phase[v] /\ holds'[v] = holds[v]
        /\ \/ phase'[w] = "idle" /\ project \in Command!Missing
           \/ phase'[w] = "truncate markdown" /\ holds'[w] = project
    BY <1>1, <1>9 DEF Command!RenderReads, ProjectTypes
  <2>2. project \in Command!Missing => project \notin Projects
    BY DEF Command!Missing, Editable
  <2> QED BY <1>1, <1>4, <2>1, <2>2, ShowsStill DEF Rendering
<1>10. ASSUME NEW w \in Everyone, Command!RenderWrites(w) PROVE Shows'
  <2>1. mishaps \subseteq mishaps'
    BY <1>10 DEF Command!RenderWrites
  <2> QED BY <1>1, <1>4, <1>10, <2>1, ShowsRender
<1>11. ASSUME NEW p \in Processes, Command!CmdRender(p) PROVE Shows'
  <2>1. /\ phase[p] = "idle" /\ phase'[p] = "render"
        /\ \A v \in Everyone \ {p} : phase'[v] = phase[v] /\ holds'[v] = holds[v]
        /\ mishaps \subseteq mishaps' /\ UNCHANGED <<project, unseen, markdown>>
    BY <1>1, <1>2, <1>11 DEF Command!CmdRender, ProjectTypes
  <2> QED BY <1>1, <1>2, <1>4, <2>1, ShowsStill DEF Rendering
<1>12. CASE Command!WatchSees
  <2> DEFINE w == Command!Watcher
  <2>1. /\ phase[w] = "idle" /\ phase'[w] = "render"
        /\ \A v \in Everyone \ {w} : phase'[v] = phase[v] /\ holds'[v] = holds[v]
        /\ mishaps \subseteq mishaps' /\ UNCHANGED <<project, markdown>>
    BY <1>1, <1>2, <1>12 DEF Command!WatchSees, ProjectTypes
  <2> HIDE DEF w
  <2> QED BY <1>1, <1>2, <1>4, <2>1, ShowsStill DEF Rendering, w
<1>13. ASSUME NEW p \in Everyone, Command!CommandKilled(p) PROVE Shows'
  <2>1. /\ phase'[p] = "idle" /\ mishaps \subseteq mishaps'
        /\ \A v \in Everyone \ {p} : phase'[v] = phase[v] /\ holds'[v] = holds[v]
        /\ UNCHANGED <<project, unseen, markdown>>
    BY <1>1, <1>13 DEF Command!CommandKilled, ProjectTypes
  <2>2. phase[p] \notin {"write project", "write markdown"} /\ p # Command!Watcher
    BY <1>3, <1>13 DEF Command!CommandKilled, Quiet
  <2> QED BY <1>1, <1>4, <2>1, <2>2, ShowsStill DEF Rendering
<1>14. Command!ProjectNext => Shows'
  BY <1>2, <1>5, <1>7, <1>8, <1>9, <1>10, <1>11, <1>12, <1>13
     DEF Command!ProjectNext, Command!CmdWatch, Command!Exhausted
<1> QED BY <1>5, <1>14 DEF Command!projectVars

\* When the commands have ended and the watcher has seen the last modification and rendered,
\* the Markdown shows the project file, though both may have rendered at the same time:
\* unless commands overlapped or somebody was killed in the middle of a write.
THEOREM MarkdownFollows ==
    ASSUME Editable PROVE ProjectSpec => []Command!MarkdownShows
<1>1. Command!ProjectInit => ShowInv
  <2> SUFFICES ASSUME Command!ProjectInit PROVE Shows
    BY ProjectBegins DEF ShowInv
  <2>1. /\ markdown = project /\ unseen = (project # NoDocument)
        /\ phase = [p \in Everyone |-> "idle"]
    BY DEF Command!ProjectInit, Everyone
  <2>2. project \in {NoDocument} \cup Projects
    BY EarlierDocument DEF Command!ProjectInit
  <2>3. \A v \in Everyone : phase[v] = "idle"
    BY <2>1
  <2> QED BY <2>1, <2>2, <2>3 DEF Shows, Rendering, Everyone, Editable
<1>2. ShowInv /\ [Command!ProjectNext]_(Command!projectVars) => ShowInv'
  BY ShowStep
<1>3. ShowInv => Command!MarkdownShows
  <2> SUFFICES ASSUME ShowInv, \A p \in DOMAIN phase : phase[p] = "idle", ~unseen,
                      project # NoDocument, Quiet
               PROVE  markdown = project
    BY DEF Command!MarkdownShows, Quiet
  <2>1. \A v \in Everyone : phase[v] = "idle"
    BY DEF ShowInv, ProjectInv, ProjectTypes
  <2>2. Shows /\ ProjectTypes
    BY DEF ShowInv, ProjectInv
  <2>3. project \in Projects
    BY <2>1, <2>2 DEF Shows, ProjectTypes, Command!Missing, Everyone
  <2> QED BY <2>1, <2>2, <2>3 DEF Shows, Everyone
<1> QED BY <1>1, <1>2, <1>3, PTL DEF ProjectSpec
=============================================================================
