----------------------------- MODULE EventStore -----------------------------
(***************************************************************************)
(* EventStore (go-core/eventstore.go): the append-only event streams of a  *)
(* set of aggregates, kept in memory under one RWMutex, with optimistic    *)
(* concurrency control on the stream's version.                            *)
(*                                                                         *)
(* Every method holds the mutex from its first read to its last write, so  *)
(* each is one action.  What is concurrent is the client: it reads a       *)
(* version, decides, and appends later.                                    *)
(***************************************************************************)
EXTENDS Integers, Sequences, SequencesExt

CONSTANTS
    Aggregates,
    EventIDs,   \* what identifies an envelope: its id, type and data
    Clients,
    MaxEvents   \* bound on the length of a stream

VARIABLES
    events,     \* events[a]: the stream of aggregate a, in append order
    snapshots,  \* snapshots[a]: version of the latest saved snapshot, or NoSnapshot
    seen        \* seen[c][a]: the version of a that client c read last

vars == <<events, snapshots, seen>>

Envelope == [id : EventIDs, version : Int]

NoSnapshot == -1

TypeOK ==
    /\ events \in [Aggregates -> Seq(Envelope)]
    /\ snapshots \in [Aggregates -> Int]
    /\ seen \in [Clients -> [Aggregates -> Nat]]

\* Mutant: the index of the last event is taken for its version.
LatestVersionAsIndex(stream) == Len(stream) - 1

\* getLatestVersionLocked: the greatest version in the stream, 0 without events.
LatestVersion(stream) ==
    Max({0} \cup {stream[i].version : i \in DOMAIN stream})

\* StreamAll: the events sorted by version, whatever order they are kept in.
StreamAll(stream) ==
    LET order == CHOOSE p \in Bijection(DOMAIN stream, DOMAIN stream) :
            \A i, j \in DOMAIN stream : i < j => stream[p[i]].version <= stream[p[j]].version
    IN  [i \in DOMAIN stream |-> stream[order[i]]]

\* Mutant: the first event is left out.
StreamAfter(stream, version) ==
    StreamAll(SelectSeq(stream, LAMBDA e : e.version > version))

\* Stream: those of them from a version on.
StreamFrom(stream, version) ==
    StreamAll(SelectSeq(stream, LAMBDA e : e.version >= version))

\* The rules of Execute: version 0 asks for the next one, any other version but
\* the next is a conflict.
Assigned(stream, version) ==
    IF version = 0 THEN LatestVersion(stream) + 1 ELSE version

\* Mutant: any newer version is accepted.
AcceptsNewer(stream, version) == Assigned(stream, version) > LatestVersion(stream)

Accepts(stream, version) == Assigned(stream, version) = LatestVersion(stream) + 1

Extended(stream, id, version) ==
    Append(stream, [id |-> id, version |-> Assigned(stream, version)])

Init ==
    /\ events = [a \in Aggregates |-> <<>>]
    /\ snapshots = [a \in Aggregates |-> NoSnapshot]
    /\ seen = [c \in Clients |-> [a \in Aggregates |-> 0]]

Room(a) == Len(events[a]) < MaxEvents

Execute(a, id, version) ==
    /\ Room(a)
    /\ Accepts(events[a], version)
    /\ events' = [events EXCEPT ![a] = Extended(@, id, version)]
    /\ UNCHANGED <<snapshots, seen>>

GetLatestVersion(c, a) ==
    /\ seen' = [seen EXCEPT ![c][a] = LatestVersion(events[a])]
    /\ UNCHANGED <<events, snapshots>>

\* Mutant: the expected version is not compared.
AppendUnchecked(c, a, id) ==
    /\ Room(a)
    /\ events' = [events EXCEPT ![a] = Extended(@, id, 0)]
    /\ UNCHANGED <<snapshots, seen>>

\* The EventStoreBackend entry point: the client passes the version it expects
\* the stream to be at.
AppendExpected(c, a, id) ==
    /\ Room(a)
    /\ LatestVersion(events[a]) = seen[c][a]
    /\ events' = [events EXCEPT ![a] = Extended(@, id, 0)]
    /\ UNCHANGED <<snapshots, seen>>

\* SaveSnapshot does not look at the stream or at the snapshot it replaces.
SaveSnapshot(a, version) ==
    /\ snapshots' = [snapshots EXCEPT ![a] = version]
    /\ UNCHANGED <<events, seen>>

Next ==
    \E a \in Aggregates :
        \/ \E id \in EventIDs, version \in -1 .. MaxEvents + 1 : Execute(a, id, version)
        \/ \E version \in 0 .. MaxEvents : SaveSnapshot(a, version)
        \/ \E c \in Clients :
            \/ GetLatestVersion(c, a)
            \/ \E id \in EventIDs : AppendExpected(c, a, id)

Spec == Init /\ [][Next]_vars

-----------------------------------------------------------------------------

Contiguous(stream) == \A i \in DOMAIN stream : stream[i].version = i

\* Whatever clients race to append, the versions of a stream are 1, 2, 3, ...
\* without a gap or a duplicate.
VersionsContiguous == \A a \in Aggregates : Contiguous(events[a])

\* Resuming a stream from a version returns exactly the events appended since.
ResumeMissesNothing ==
    \A a \in Aggregates : \A v \in 1 .. MaxEvents :
        StreamFrom(events[a], v) = SubSeq(events[a], v, Len(events[a]))

\* Streams are append-only.
StreamsOnlyGrow ==
    [][\A a \in Aggregates : IsPrefix(events[a], events'[a])]_vars

\* No lost update: an append on an expected version succeeds only while the
\* stream is exactly as long as it was when the client looked.
NoUpdateLost ==
    \A c \in Clients, a \in Aggregates, id \in EventIDs :
        AppendExpected(c, a, id) => Len(events'[a]) = seen[c][a] + 1

NoLostUpdate == [][NoUpdateLost]_vars

=============================================================================
