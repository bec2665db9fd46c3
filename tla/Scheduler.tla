----------------------------- MODULE Scheduler -----------------------------
(***************************************************************************)
(* Task scheduling (go-core/scheduler_*.go): a TaskQueue ordered by        *)
(* priority and enqueue time, an AgentPool with heartbeats, MatchEngine,   *)
(* and SchedulerComposer, whose ScheduleNext dequeues a task, matches it   *)
(* to an idle agent, marks the agent busy and hands the task off.          *)
(*                                                                         *)
(* The queue and the pool have a mutex each; ScheduleNext takes them one   *)
(* after the other, so the steps of several schedulers, the agents'        *)
(* heartbeats and the passing of time interleave between them.             *)
(* ScheduleAll repeats ScheduleNext and returns at its first error, that   *)
(* of an empty queue included: whether it is called again is up to others. *)
(***************************************************************************)
EXTENDS Naturals, Sequences, FiniteSets, SequencesExt

CONSTANTS
    Schedulers,      \* goroutines that call ScheduleNext and ScheduleAll
    Agents,
    Tasks,
    Priority,        \* Priority[t], greater first
    Eligible,        \* Eligible[t]: agents with t's phase and capabilities
    Churn,           \* agents that leave the pool and come back
    LateHeartbeats,  \* TRUE: 30 s may pass without a heartbeat
    Unreliable       \* TRUE: handoffs fail and contexts are cancelled

ASSUME SchedulerAssumption ==
    /\ IsFiniteSet(Agents)
    /\ Priority \in [Tasks -> Nat]
    /\ Eligible \in [Tasks -> SUBSET Agents]
    /\ Churn \subseteq Agents
    /\ LateHeartbeats \in BOOLEAN /\ Unreliable \in BOOLEAN

VARIABLES
    queue,     \* waiting tasks in the order of their CreatedAt
    closed,    \* the queue is closed
    status,    \* status[a], "absent" outside the pool
    beats,     \* agents by LastHeartbeat, the oldest first
    stale,     \* agents whose LastHeartbeat is more than 30 s ago
    pc,        \* pc[s]: next step of s's ScheduleNext, "out" between calls
    held,      \* held[s]: the task s has dequeued
    matched,   \* matched[s]: candidates, then the agent that s has chosen
    working,   \* working[a]: tasks handed to agent a and not finished
    done,      \* tasks that an agent has finished
    dropped    \* tasks that ScheduleNext returned an error for

vars == <<queue, closed, status, beats, stale, pc, held, matched, working, done, dropped>>
poolVars == <<status, beats, stale>>
queueVars == <<queue, closed>>

Submitted ==
    ToSet(queue) \cup (UNION {held[s] : s \in Schedulers})
                 \cup (UNION {working[a] : a \in Agents}) \cup done \cup dropped

TypeOK ==
    /\ queue \in Seq(Tasks)
    /\ closed \in BOOLEAN
    /\ status \in [Agents -> {"absent", "idle", "busy", "offline"}]
    /\ beats \in Seq(Agents)
    /\ stale \subseteq Agents
    /\ pc \in [Schedulers -> {"out", "dequeue", "match", "claim", "handoff", "backoff"}]
    /\ held \in [Schedulers -> SUBSET Tasks]
    /\ matched \in [Schedulers -> SUBSET Agents]
    /\ \A s \in Schedulers :
        /\ held[s] = {} <=> pc[s] \in {"out", "dequeue"}
        /\ matched[s] = {} <=> pc[s] \in {"out", "dequeue", "match", "backoff"}
    /\ working \in [Agents -> SUBSET Tasks]
    /\ done \subseteq Tasks
    /\ dropped \subseteq Tasks

Init ==
    /\ queue = <<>>
    /\ closed = FALSE
    /\ status = [a \in Agents |-> "idle"]
    /\ beats = SetToSeq(Agents)
    /\ stale = {}
    /\ pc = [s \in Schedulers |-> "out"]
    /\ held = [s \in Schedulers |-> {}]
    /\ matched = [s \in Schedulers |-> {}]
    /\ working = [a \in Agents |-> {}]
    /\ done = {}
    /\ dropped = {}

-----------------------------------------------------------------------------
(* AgentPool.                                                              *)

\* LastHeartbeat = time.Now().
Beat(a) ==
    /\ \E i \in DOMAIN beats : beats[i] = a /\ beats' = Append(RemoveAt(beats, i), a)
    /\ stale' = stale \ {a}

\* UpdateStatus; the error for an agent that has left is ignored by the callers.
UpdateStatus(a, st) ==
    IF status[a] = "absent"
    THEN UNCHANGED poolVars
    ELSE status' = [status EXCEPT ![a] = st] /\ Beat(a)

\* Add refuses an agent that is in the pool.
Add(a) ==
    /\ a \in Churn
    /\ status[a] = "absent"
    /\ status' = [status EXCEPT ![a] = "idle"]
    /\ Beat(a)
    /\ UNCHANGED <<queueVars, pc, held, matched, working, done, dropped>>

Leave(a) ==
    /\ a \in Churn
    /\ status[a] # "absent"
    /\ status' = [status EXCEPT ![a] = "absent"]
    /\ stale' = stale \ {a}
    /\ UNCHANGED <<queueVars, beats, pc, held, matched, working, done, dropped>>

Heartbeat(a) ==
    /\ status[a] # "absent"
    /\ status' = [status EXCEPT ![a] = IF @ = "offline" THEN "idle" ELSE @]
    /\ Beat(a)
    /\ UNCHANGED <<queueVars, pc, held, matched, working, done, dropped>>

\* Time: the agent heard from longest ago passes the 30 s.
HeartbeatOverdue(a) ==
    /\ LateHeartbeats
    /\ status[a] # "absent" /\ a \notin stale
    /\ \A i, j \in DOMAIN beats :
          beats[i] = a /\ j < i => beats[j] \in stale \/ status[beats[j]] = "absent"
    /\ stale' = stale \cup {a}
    /\ UNCHANGED <<queueVars, status, beats, pc, held, matched, working, done, dropped>>

\* ListAvailable marks every agent without a recent heartbeat offline, whatever
\* it was doing, and returns the idle ones.
AfterMarking == [a \in Agents |->
    IF status[a] # "absent" /\ a \in stale THEN "offline" ELSE status[a]]

-----------------------------------------------------------------------------
(* TaskQueue.                                                              *)

Enqueue(t) ==
    /\ t \notin Submitted
    /\ ~closed
    /\ queue' = Append(queue, t)
    /\ UNCHANGED <<closed, poolVars, pc, held, matched, working, done, dropped>>

\* Mutant: the heap's top is read and left in place.
PeekNotPop(s) ==
    /\ pc[s] = "dequeue"
    /\ queue # <<>>
    /\ held' = [held EXCEPT ![s] = {Head(queue)}]
    /\ pc' = [pc EXCEPT ![s] = "match"]
    /\ UNCHANGED <<queueVars, poolVars, matched, working, done, dropped>>

\* The heap's top: the greatest priority, and the earliest enqueued of those.
\* A closed queue still hands out what it holds.
Dequeue(s) ==
    /\ pc[s] = "dequeue"
    /\ \E i \in DOMAIN queue :
        /\ \A j \in DOMAIN queue :
            \/ Priority[queue[j]] < Priority[queue[i]]
            \/ Priority[queue[j]] = Priority[queue[i]] /\ i <= j
        /\ held' = [held EXCEPT ![s] = {queue[i]}]
        /\ queue' = RemoveAt(queue, i)
    /\ pc' = [pc EXCEPT ![s] = "match"]
    /\ UNCHANGED <<closed, poolVars, matched, working, done, dropped>>

Close ==
    /\ ~closed
    /\ closed' = TRUE
    /\ UNCHANGED <<queue, poolVars, pc, held, matched, working, done, dropped>>

-----------------------------------------------------------------------------
(* SchedulerComposer.ScheduleNext after Dequeue.                           *)

Task(s) == CHOOSE t \in held[s] : TRUE

Chosen(s) == CHOOSE a \in matched[s] : TRUE

\* ScheduleNext returns with nothing in its hands: to ScheduleAll's loop, which
\* dequeues again, or to a caller.
Returns(s, next) ==
    /\ pc' = [pc EXCEPT ![s] = next]
    /\ held' = [held EXCEPT ![s] = {}]
    /\ matched' = [matched EXCEPT ![s] = {}]

\* Mutant: a task without a candidate is taken for matched.
MatchedUnchecked(s) ==
    /\ pc[s] = "match"
    /\ status' = AfterMarking
    /\ matched' = [matched EXCEPT ![s] = {a \in Eligible[Task(s)] : AfterMarking[a] = "idle"}]
    /\ pc' = [pc EXCEPT ![s] = "claim"]
    /\ UNCHANGED <<queueVars, beats, stale, held, working, done, dropped>>

\* MatchEngine asks the pool for idle agents of the task's phase and keeps those
\* with its capabilities.
Match(s) ==
    LET candidates == {a \in Eligible[Task(s)] : AfterMarking[a] = "idle"} IN
    /\ pc[s] = "match"
    /\ status' = AfterMarking
    /\ matched' = [matched EXCEPT ![s] = candidates]
    /\ pc' = [pc EXCEPT ![s] = IF candidates = {} THEN "backoff" ELSE "claim"]
    /\ UNCHANGED <<queueVars, beats, stale, held, working, done, dropped>>

\* findLongestIdle: the candidate with the oldest heartbeat.
LongestIdle(s, a) ==
    \E i \in DOMAIN beats : beats[i] = a /\ \A j \in 1..(i - 1) : beats[j] \notin matched[s]

\* Mutant: the chosen agent is not marked busy.
ClaimUnmarked(s) ==
    /\ pc[s] = "claim"
    /\ \E a \in matched[s] :
        /\ LongestIdle(s, a)
        /\ matched' = [matched EXCEPT ![s] = {a}]
    /\ pc' = [pc EXCEPT ![s] = "handoff"]
    /\ UNCHANGED <<queueVars, poolVars, held, working, done, dropped>>

\* UpdateStatus marks the best candidate busy without looking at its status again.
Claim(s) ==
    /\ pc[s] = "claim"
    /\ \E a \in matched[s] :
        /\ LongestIdle(s, a)
        /\ matched' = [matched EXCEPT ![s] = {a}]
        /\ UpdateStatus(a, "busy")
    /\ pc' = [pc EXCEPT ![s] = "handoff"]
    /\ UNCHANGED <<queueVars, held, working, done, dropped>>

\* HandoffComposer.Execute succeeds: the task is with the agent.
Dispatched(s) ==
    /\ pc[s] = "handoff"
    /\ working' = [working EXCEPT ![Chosen(s)] = @ \cup held[s]]
    /\ \E next \in {"dequeue", "out"} : Returns(s, next)
    /\ UNCHANGED <<queueVars, poolVars, done, dropped>>

\* Mutant: the failed task's agent stays busy.
DispatchFailedKeepsBusy(s) ==
    /\ Unreliable
    /\ pc[s] = "handoff"
    /\ dropped' = dropped \cup held[s]
    /\ Returns(s, "out")
    /\ UNCHANGED <<queueVars, poolVars, working, done>>

\* It fails: the agent is released and the task returned with an error, which
\* ends ScheduleAll.
DispatchFailed(s) ==
    /\ Unreliable
    /\ pc[s] = "handoff"
    /\ UpdateStatus(Chosen(s), "idle")
    /\ dropped' = dropped \cup held[s]
    /\ Returns(s, "out")
    /\ UNCHANGED <<queueVars, working, done>>

\* Mutant: the task is forgotten when no agent matches.
RequeueForgotten(s) ==
    /\ pc[s] = "backoff"
    /\ Returns(s, "dequeue")
    /\ UNCHANGED <<queueVars, poolVars, working, done, dropped>>

\* No match: after 5 s the task goes back with a new CreatedAt, unless the queue
\* has been closed meanwhile, an error that ends ScheduleAll.
Requeue(s) ==
    /\ pc[s] = "backoff"
    /\ \/ /\ ~closed
          /\ queue' = Append(queue, Task(s))
          /\ \E next \in {"dequeue", "out"} : Returns(s, next)
          /\ UNCHANGED dropped
       \/ /\ closed
          /\ dropped' = dropped \cup held[s]
          /\ Returns(s, "out")
          /\ UNCHANGED queue
    /\ UNCHANGED <<closed, poolVars, working, done>>

\* The context is cancelled during the 5 s: ScheduleAll ends.
BackoffCancelled(s) ==
    /\ Unreliable
    /\ pc[s] = "backoff"
    /\ dropped' = dropped \cup held[s]
    /\ Returns(s, "out")
    /\ UNCHANGED <<queueVars, poolVars, working, done>>

-----------------------------------------------------------------------------

\* The agent's side: it finishes a task and, with nothing left to do, reports
\* idle through the AgentPoolAdapter.
Finish(a, t) ==
    /\ t \in working[a]
    /\ working' = [working EXCEPT ![a] = @ \ {t}]
    /\ done' = done \cup {t}
    /\ IF working[a] = {t} THEN UpdateStatus(a, "idle") ELSE UNCHANGED poolVars
    /\ UNCHANGED <<queueVars, pc, held, matched, dropped>>

ScheduleNext(s) ==
    \/ Dequeue(s)
    \/ Match(s)
    \/ Claim(s)
    \/ Dispatched(s)
    \/ DispatchFailed(s)
    \/ Requeue(s)
    \/ BackoffCancelled(s)

\* ScheduleNext or ScheduleAll is called, for the first time or again.
Call(s) ==
    /\ pc[s] = "out"
    /\ pc' = [pc EXCEPT ![s] = "dequeue"]
    /\ UNCHANGED <<queueVars, poolVars, held, matched, working, done, dropped>>

\* Dequeue finds nothing and gives up: it was told not to wait, its time is over, the
\* queue is closed or the context is cancelled.  ScheduleAll ends too.
NothingDequeued(s) ==
    /\ pc[s] = "dequeue"
    /\ queue = <<>>
    /\ pc' = [pc EXCEPT ![s] = "out"]
    /\ UNCHANGED <<queueVars, poolVars, held, matched, working, done, dropped>>

Next ==
    \/ \E t \in Tasks : Enqueue(t)
    \/ Close
    \/ \E s \in Schedulers : Call(s) \/ ScheduleNext(s) \/ NothingDequeued(s)
    \/ \E a \in Agents :
        \/ Add(a)
        \/ Leave(a)
        \/ Heartbeat(a)
        \/ HeartbeatOverdue(a)
        \/ \E t \in Tasks : Finish(a, t)

Spec == Init /\ [][Next]_vars

\* A call of ScheduleNext goes on to its return, and agents finish what they are
\* given.  That anything is called is not assumed.
FairSpec ==
    /\ Spec
    /\ \A s \in Schedulers : WF_vars(ScheduleNext(s))
    /\ \A a \in Agents : WF_vars(\E t \in Tasks : Finish(a, t))

-----------------------------------------------------------------------------

\* The places where a task is.
Places(t) ==
    ({"queue"} \X {i \in DOMAIN queue : queue[i] = t})
    \cup ({"held"} \X {s \in Schedulers : t \in held[s]})
    \cup ({"working"} \X {a \in Agents : t \in working[a]})
    \cup ({"done"} \X ({t} \cap done)) \cup ({"dropped"} \X ({t} \cap dropped))

\* Whatever schedulers, agents and cancellations do, a task waits once, or one
\* scheduler holds it, or one agent works on it, or it is finished, or its loss
\* was reported: ScheduleNext never hands a task out twice.
TaskInOnePlace == \A t \in Tasks : \A p, q \in Places(t) : p = q

\* No task vanishes: what was submitted stays accounted for.
NoTaskForgotten == [][Submitted \subseteq Submitted']_vars

Assigned(a) ==
    working[a] \cup
        (UNION {held[s] : s \in {r \in Schedulers : pc[r] = "handoff" /\ matched[r] = {a}}})

\* An agent that stays in the pool is given one task at a time, across requeues,
\* failed handoffs and heartbeats.
OneTaskPerAgent == \A a \in Agents \ Churn : Cardinality(Assigned(a)) <= 1

\* No task starves as long as some scheduler is called again and again, whatever
\* errors end its calls: every task that is submitted is finished or its loss is
\* reported, although a task of a greater priority whose agents are busy goes
\* back to the head of the queue each time.
EveryTaskEnds ==
    (\E s \in Schedulers : []<>(pc[s] # "out"))
        => \A t \in Tasks : t \in Submitted ~> t \in done \cup dropped
=============================================================================
