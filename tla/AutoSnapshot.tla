---------------------------- MODULE AutoSnapshot ----------------------------
(***************************************************************************)
(* AutoSnapshotTrigger (go-core/eventstore_snapshot.go) over one aggregate *)
(* of a ShardedEventStore (go-core/eventstore_sharded.go).  A client       *)
(* appends, then counts the event under the trigger's mutex, then looks at *)
(* the counter without it; the snapshot is taken by the client itself or   *)
(* by a goroutine, in steps that other clients interleave with.            *)
(***************************************************************************)
EXTENDS Integers, Sequences, SequencesExt

CONSTANTS
    Clients,
    Goroutines,             \* bound on the asynchronous snapshots under way
    EventIDs,
    MaxEventsPerSnapshot,
    AsyncSnapshot,
    MaxEvents               \* bound on the length of the stream

VARIABLES
    events,      \* shard.events[a]
    versions,    \* shard.versions[a]: the cached latest version
    snapshot,    \* shard.snapshots[a]: [version, state]
    since,       \* tracker.eventsSinceSnapshot
    overdue,     \* MaxTimeSinceSnapshot has passed since tracker.lastSnapshotTime
    cancelled,   \* the trigger's context
    pc,          \* pc[t]: next critical section of a client or goroutine
    read         \* read[t]: the events that takeSnapshot works on

vars == <<events, versions, snapshot, since, overdue, cancelled, pc, read>>

Threads == Clients \cup Goroutines

NoSnapshot == [version |-> 0, state |-> <<>>]

Envelope == [id : EventIDs, version : Nat]

TypeOK ==
    /\ events \in Seq(Envelope)
    /\ versions \in 0..MaxEvents
    /\ snapshot \in [version : 0..MaxEvents, state : Seq(Envelope)]
    /\ since \in 0..MaxEvents
    /\ overdue \in BOOLEAN /\ cancelled \in BOOLEAN
    /\ pc \in [Threads -> {"idle", "count", "check", "start", "stream", "handle",
                           "save", "reset"}]
    /\ read \in [Threads -> Seq(Envelope)]

Init ==
    /\ events = <<>> /\ versions = 0
    /\ snapshot = NoSnapshot
    /\ since = 0 /\ overdue = FALSE
    /\ cancelled = FALSE
    /\ pc = [t \in Threads |-> "idle"]
    /\ read = [t \in Threads |-> <<>>]

Goto(t, step) == pc' = [pc EXCEPT ![t] = step]

\* ShardedEventStore.Execute: a positive version must be the next one, any other
\* asks for it.
Execute(c, id, version) ==
    /\ pc[c] = "idle"
    /\ Len(events) < MaxEvents
    /\ version > 0 => version = versions + 1
    /\ events' = Append(events, [id |-> id, version |-> versions + 1])
    /\ versions' = versions + 1
    /\ Goto(c, "count")
    /\ UNCHANGED <<snapshot, since, overdue, cancelled, read>>

\* AfterExecute under t.mu.
Count(c) ==
    /\ pc[c] = "count"
    /\ since' = since + 1
    /\ Goto(c, "check")
    /\ UNCHANGED <<events, versions, snapshot, overdue, cancelled, read>>

Needed == since >= MaxEventsPerSnapshot \/ overdue

\* AfterExecute after t.mu.
Check(c) ==
    /\ pc[c] = "check"
    /\ \/ ~Needed /\ Goto(c, "idle")
       \/ Needed /\ ~AsyncSnapshot /\ Goto(c, "stream")
       \/ /\ Needed /\ AsyncSnapshot
          /\ \E g \in Goroutines :
              pc[g] = "idle" /\ pc' = [pc EXCEPT ![c] = "idle", ![g] = "start"]
    /\ UNCHANGED <<events, versions, snapshot, since, overdue, cancelled, read>>

\* The goroutine looks at the context once.
Start(g) ==
    /\ pc[g] = "start"
    /\ Goto(g, IF cancelled THEN "idle" ELSE "stream")
    /\ UNCHANGED <<events, versions, snapshot, since, overdue, cancelled, read>>

StreamEvents(t) ==
    /\ pc[t] = "stream"
    /\ read' = [read EXCEPT ![t] = events]
    /\ Goto(t, IF events = <<>> THEN "idle" ELSE "handle")
    /\ UNCHANGED <<events, versions, snapshot, since, overdue, cancelled>>

\* The user's handler: its error leaves tracker and snapshot alone.
Handle(t) ==
    /\ pc[t] = "handle"
    /\ Goto(t, "save") \/ Goto(t, "idle")
    /\ UNCHANGED <<events, versions, snapshot, since, overdue, cancelled, read>>

\* SaveSnapshot replaces whatever snapshot is there.
Save(t) ==
    /\ pc[t] = "save"
    /\ snapshot' = [version |-> Last(read[t]).version, state |-> read[t]]
    /\ Goto(t, "reset")
    /\ UNCHANGED <<events, versions, since, overdue, cancelled, read>>

\* The tracker forgets the events that were counted since the stream was read.
Reset(t) ==
    /\ pc[t] = "reset"
    /\ since' = 0 /\ overdue' = FALSE
    /\ read' = [read EXCEPT ![t] = <<>>]
    /\ Goto(t, "idle")
    /\ UNCHANGED <<events, versions, snapshot, cancelled>>

TimePasses ==
    /\ ~overdue /\ (since > 0 \/ snapshot # NoSnapshot)   \* there is a tracker
    /\ overdue' = TRUE
    /\ UNCHANGED <<events, versions, snapshot, since, cancelled, pc, read>>

Cancel ==
    /\ cancelled' = TRUE
    /\ UNCHANGED <<events, versions, snapshot, since, overdue, pc, read>>

TakeSnapshot(t) == StreamEvents(t) \/ Handle(t) \/ Save(t) \/ Reset(t)

Next ==
    \/ TimePasses \/ Cancel
    \/ \E c \in Clients :
        \/ \E id \in EventIDs, version \in -1..MaxEvents : Execute(c, id, version)
        \/ Count(c) \/ Check(c)
    \/ \E g \in Goroutines : Start(g)
    \/ \E t \in Threads : TakeSnapshot(t)

Spec == Init /\ [][Next]_vars

-----------------------------------------------------------------------------

\* The cached version is that of the last event, and a snapshot holds the events
\* up to the version it claims, whichever of the concurrent ones was saved last.
SnapshotMatchesStream ==
    /\ \A i \in DOMAIN events : events[i].version = i
    /\ versions = Len(events)
    /\ snapshot.version = Len(snapshot.state)
    /\ IsPrefix(snapshot.state, events)

\* One client that takes its snapshots itself knows how far the snapshot is
\* behind: between its calls no event is forgotten.
NothingUncounted ==
    (\A t \in Threads : pc[t] = "idle") => since = Len(events) - snapshot.version
=============================================================================
