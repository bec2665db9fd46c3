--------------------------- MODULE SchedulerProofs ---------------------------
(***************************************************************************)
(* Theorems about Scheduler, for any agents, tasks, schedulers and bound   *)
(* of the queue: no task is in two places, none disappears, and a single   *)
(* scheduler gives no agent a second task.                                 *)
(*                                                                         *)
(* The inductive invariant is TypeOK, HeldAlone (a scheduler holds one     *)
(* task) and Apart (the places of a task exclude one another); for one     *)
(* scheduler also StaysSteady, which follows an agent from idle to         *)
(* matched, claimed and working.                                           *)
(*                                                                         *)
(* Then what else gives verdicts while it is asked from several sides: the *)
(* votes of a federation (Federation.tla, the instance Fed; VotesInv), the *)
(* guardian's rounds and alerts (Guardian.tla, Guard; GuardInv), and the   *)
(* search for a chain of migrations (Schema.tla, Data; ChainInv).          *)
(***************************************************************************)
EXTENDS Scheduler, Integers, FiniteSetTheorems, SequenceTheorems, TLAPS

CONSTANTS
    Instances, Proposals, Proposer, ModeOf, Components,   \* of Federation
    Callers, Scores, Yellow, Orange, Red, Drifts, MaxErrors, Cooldown, MaxClock,
    AlertBuffer, Nodes, MaxChanges,                       \* of Guardian
    Types, VersionNames, Schemas, MaxRegistrations, Versions, Migrations,
    Source, Target                                        \* of Schema
VARIABLES
    mode, proposal, votes, said, registered, up, asking, answers, health, flipped,
    hasPrevious, previous, published, gPc, input, before, level, decision,
    clock, lastAlert, alerts, lost, outcome,
    edges, nodes, changes, phase, colour, path, unseen, cycles,
    inDegree, dQueue, sorted, redundant, islands, violations,
    registry, registrations, listing, keysBefore, ranged,
    chain, search, mQueue, entry, neighbors, visited, route, applied
Fed == INSTANCE Federation WITH status <- up
Guard == INSTANCE Guardian WITH pc <- gPc, left <- unseen, queue <- dQueue
Data == INSTANCE Schema WITH registered <- registrations, before <- keysBefore, queue <- mQueue

-----------------------------------------------------------------------------
(* Sequences.                                                              *)

\* Appending adds the element behind the others.
LEMMA AppendTo ==
    ASSUME NEW S, NEW q \in Seq(S), NEW x \in S
    PROVE  /\ Append(q, x) \in Seq(S)
           /\ DOMAIN Append(q, x) = DOMAIN q \cup {Len(q) + 1}
           /\ \A i \in DOMAIN q : Append(q, x)[i] = q[i]
           /\ Append(q, x)[Len(q) + 1] = x
           /\ Len(q) + 1 \notin DOMAIN q
           /\ ToSet(Append(q, x)) = ToSet(q) \cup {x}
<1>1. Append(q, x) \in Seq(S) /\ Len(Append(q, x)) = Len(q) + 1 /\ Len(q) \in Nat
  OBVIOUS
<1>2. DOMAIN q = 1..Len(q) /\ DOMAIN Append(q, x) = 1..(Len(q) + 1)
  BY <1>1
<1>3. \A i \in DOMAIN q : Append(q, x)[i] = q[i]
  BY <1>2
<1>4. Append(q, x)[Len(q) + 1] = x
  OBVIOUS
<1>5. DOMAIN Append(q, x) = DOMAIN q \cup {Len(q) + 1} /\ Len(q) + 1 \notin DOMAIN q
  BY <1>1, <1>2
<1>6. ToSet(Append(q, x)) = ToSet(q) \cup {x}
  BY <1>3, <1>4, <1>5 DEF ToSet
<1> QED
  BY <1>1, <1>3, <1>4, <1>5, <1>6

\* Removing a position keeps every other element, in order.
LEMMA RemovedAt ==
    ASSUME NEW S, NEW q \in Seq(S), NEW i \in DOMAIN q
    PROVE  /\ RemoveAt(q, i) \in Seq(S)
           /\ \A j \in DOMAIN RemoveAt(q, i) :
                \E k \in DOMAIN q : k # i /\ RemoveAt(q, i)[j] = q[k] /\ k = (IF j < i THEN j ELSE j + 1)
           /\ \A k \in DOMAIN q : k # i => \E j \in DOMAIN RemoveAt(q, i) : RemoveAt(q, i)[j] = q[k]
           /\ DOMAIN RemoveAt(q, i) \subseteq Nat
<1> DEFINE n == Len(q)
           u == SubSeq(q, 1, i - 1)
           v == SubSeq(q, i + 1, n)
           r == RemoveAt(q, i)
<1>1. n \in Nat /\ DOMAIN q = 1..n /\ i \in 1..n
  OBVIOUS
<1>2. u \in Seq(S) /\ Len(u) = i - 1 /\ \A j \in 1..(i - 1) : u[j] = q[j]
  BY <1>1, SubSeqProperties
<1>3. v \in Seq(S) /\ Len(v) = n - i /\ \A j \in 1..(n - i) : v[j] = q[i + j]
  <2>1. i + 1 \in 1..(n + 1) /\ n \in (i + 1 - 1)..n
    BY <1>1
  <2>2. v \in Seq(S) /\ Len(v) = n - i
    BY <1>1, <2>1, SubSeqProperties
  <2>3. \A j \in 1..(n - i) : v[j] = q[i + j]
    BY <1>1, <2>1, SubSeqProperties
  <2> QED
    BY <2>2, <2>3
<1>4. r = u \o v
  BY DEF RemoveAt
<1>5. r \in Seq(S) /\ Len(r) = n - 1
  <2> HIDE DEF u, v, n, r
  <2>1. r \in Seq(S) /\ Len(r) = Len(u) + Len(v)
    BY <1>2, <1>3, <1>4, ConcatProperties
  <2>2. (i - 1) + (n - i) = n - 1
    BY <1>1
  <2> QED
    BY <1>2, <1>3, <2>1, <2>2
<1>6. DOMAIN r = 1..(n - 1) /\ DOMAIN r \subseteq Nat
  BY <1>1, <1>5
<1>7. ASSUME NEW j \in DOMAIN r
      PROVE  r[j] = IF j < i THEN q[j] ELSE q[j + 1]
  <2> HIDE DEF u, v, n, r
  <2>1. CASE j < i
    <3>1. j \in 1..Len(u)
      BY <1>1, <1>2, <1>6, <2>1
    <3> QED
      BY <1>2, <1>3, <1>4, <2>1, <3>1, <1>1, ConcatProperties
  <2>2. CASE ~(j < i)
    <3>1. j \in (Len(u) + 1)..(Len(u) + Len(v)) /\ j - Len(u) \in 1..(n - i)
      BY <1>1, <1>2, <1>3, <1>6, <2>2
    <3>2. r[j] = v[j - Len(u)]
      <4>1. j \in 1..(Len(u) + Len(v)) /\ ~(j <= Len(u))
        BY <1>1, <1>2, <1>3, <3>1
      <4> QED
        BY <1>2, <1>3, <1>4, <4>1, ConcatProperties
    <3>3. i + (j - Len(u)) = j + 1
      BY <1>1, <1>2, <1>6
    <3> QED
      BY <1>3, <2>2, <3>1, <3>2, <3>3
  <2> QED
    BY <2>1, <2>2
<1>8. ASSUME NEW j \in DOMAIN r
      PROVE  \E k \in DOMAIN q : k # i /\ r[j] = q[k] /\ k = (IF j < i THEN j ELSE j + 1)
  <2> DEFINE k == IF j < i THEN j ELSE j + 1
  <2>1. k \in DOMAIN q /\ k # i
    BY <1>1, <1>6
  <2> QED
    BY <1>7, <2>1
<1>9. ASSUME NEW k \in DOMAIN q, k # i
      PROVE  \E j \in DOMAIN r : r[j] = q[k]
  <2> DEFINE j == IF k < i THEN k ELSE k - 1
  <2>1. j \in DOMAIN r
    BY <1>1, <1>6, <1>9
  <2>2. r[j] = q[k]
    <3>1. CASE k < i
      BY <1>7, <2>1, <3>1
    <3>2. CASE ~(k < i)
      <4>1. j = k - 1 /\ ~(j < i) /\ j + 1 = k
        BY <1>1, <1>9, <3>2
      <4> HIDE DEF r, j
      <4> QED
        BY <1>7, <2>1, <4>1
    <3> QED
      BY <3>1, <3>2
  <2> QED
    BY <2>1, <2>2
<1> QED
  BY <1>5, <1>6, <1>8, <1>9

-----------------------------------------------------------------------------

\* UpdateHeartbeat keeps the order of the heartbeats typed.
LEMMA BeatTypes ==
    ASSUME TypeOK, NEW a \in Agents, Beat(a)
    PROVE  beats' \in Seq(Agents) /\ stale' \subseteq Agents
<1>1. PICK i \in DOMAIN beats : beats' = Append(RemoveAt(beats, i), a)
  BY DEF Beat
<1>2. RemoveAt(beats, i) \in Seq(Agents)
  BY RemovedAt DEF TypeOK
<1> QED
  BY <1>1, <1>2, AppendTo DEF Beat, TypeOK

\* UpdateStatus keeps the pool typed.
LEMMA UpdateStatusTypes ==
    ASSUME TypeOK, NEW a \in Agents, NEW st \in {"idle", "busy"}, UpdateStatus(a, st)
    PROVE  /\ status' \in [Agents -> {"absent", "idle", "busy", "offline"}]
           /\ beats' \in Seq(Agents)
           /\ stale' \subseteq Agents
  BY BeatTypes DEF UpdateStatus, poolVars, TypeOK

\* A scheduler that has dequeued holds a task.
LEMMA HeldTask ==
    ASSUME TypeOK, NEW s \in Schedulers, pc[s] \notin {"out", "dequeue"}
    PROVE  Task(s) \in held[s] /\ Task(s) \in Tasks
  BY DEF TypeOK, Task

\* A scheduler that hands off has matched an agent.
LEMMA ChosenAgent ==
    ASSUME TypeOK, NEW s \in Schedulers, pc[s] = "handoff"
    PROVE  Chosen(s) \in matched[s] /\ Chosen(s) \in Agents
  BY DEF TypeOK, Chosen

\* The types hold of an empty pool and queue.
LEMMA InitialTypes == Init => TypeOK
<1> SUFFICES ASSUME Init PROVE TypeOK
  OBVIOUS
<1>1. SetToSeq(Agents) \in Seq(Agents)
  <2>1. PICK n \in Nat : ExistsBijection(1..n, Agents)
    BY SchedulerAssumption, FS_NatBijection
  <2>2. n = Cardinality(Agents)
    BY <2>1, FS_CountingElements, SchedulerAssumption
  <2>3. PICK f : f \in Bijection(1..n, Agents)
    BY <2>1 DEF ExistsBijection
  <2>4. f \in [1..n -> Agents] /\ IsInjective(f)
    BY <2>3 DEF Bijection, Injection, IsInjective
  <2>5. SetToSeq(Agents) \in [1..n -> Agents]
    BY <2>2, <2>4 DEF SetToSeq
  <2> QED
    BY <2>5
<1>2. <<>> \in Seq(Tasks)
  OBVIOUS
<1> QED
  BY <1>1, <1>2 DEF Init, TypeOK

\* Every step of the pool, the queue, the schedulers and the agents keeps the
\* types.
LEMMA TypesKept == TypeOK /\ [Next]_vars => TypeOK'
<1> SUFFICES ASSUME TypeOK, [Next]_vars PROVE TypeOK'
  OBVIOUS
<1>1. ASSUME NEW t \in Tasks, Enqueue(t) PROVE TypeOK'
  BY <1>1, AppendTo DEF Enqueue, TypeOK, poolVars
<1>2. CASE Close
  BY <1>2 DEF Close, TypeOK, poolVars
<1>3. ASSUME NEW s \in Schedulers, Dequeue(s) PROVE TypeOK'
  <2>1. PICK i \in DOMAIN queue : held' = [held EXCEPT ![s] = {queue[i]}] /\ queue' = RemoveAt(queue, i)
    BY <1>3 DEF Dequeue
  <2>2. queue' \in Seq(Tasks) /\ queue[i] \in Tasks
    BY <2>1, RemovedAt DEF TypeOK
  <2> QED
    BY <1>3, <2>1, <2>2 DEF Dequeue, TypeOK, poolVars
<1>4. ASSUME NEW s \in Schedulers, Match(s) PROVE TypeOK'
  <2> DEFINE candidates == {a \in Eligible[Task(s)] : AfterMarking[a] = "idle"}
  <2>1. candidates \in SUBSET Agents
    BY <1>4, HeldTask, SchedulerAssumption DEF Match
  <2>2. AfterMarking \in [Agents -> {"absent", "idle", "busy", "offline"}]
    BY DEF AfterMarking, TypeOK
  <2>3. /\ status' = AfterMarking
        /\ matched' = [matched EXCEPT ![s] = candidates]
        /\ pc' = [pc EXCEPT ![s] = IF candidates = {} THEN "backoff" ELSE "claim"]
        /\ UNCHANGED <<queue, closed, beats, stale, held, working, done, dropped>>
        /\ pc[s] = "match"
    BY <1>4 DEF Match, queueVars
  <2> HIDE DEF candidates
  <2> QED
    BY <2>1, <2>2, <2>3 DEF TypeOK
<1>5. ASSUME NEW s \in Schedulers, Claim(s) PROVE TypeOK'
  <2>1. PICK a \in matched[s] :
            matched' = [matched EXCEPT ![s] = {a}] /\ UpdateStatus(a, "busy")
    BY <1>5 DEF Claim
  <2>2. a \in Agents
    BY <2>1 DEF TypeOK
  <2>3. /\ status' \in [Agents -> {"absent", "idle", "busy", "offline"}]
        /\ beats' \in Seq(Agents)
        /\ stale' \subseteq Agents
    BY <2>1, <2>2, UpdateStatusTypes
  <2> QED
    BY <1>5, <2>1, <2>2, <2>3 DEF Claim, TypeOK, queueVars
<1>6. ASSUME NEW s \in Schedulers, Dispatched(s) PROVE TypeOK'
  <2>1. PICK next \in {"dequeue", "out"} : Returns(s, next)
    BY <1>6 DEF Dispatched
  <2> QED
    BY <1>6, <2>1, ChosenAgent DEF Dispatched, Returns, TypeOK, queueVars, poolVars
<1>7. ASSUME NEW s \in Schedulers, DispatchFailed(s) PROVE TypeOK'
  <2>1. /\ status' \in [Agents -> {"absent", "idle", "busy", "offline"}]
        /\ beats' \in Seq(Agents)
        /\ stale' \subseteq Agents
    BY <1>7, ChosenAgent, UpdateStatusTypes DEF DispatchFailed
  <2> QED
    BY <1>7, <2>1 DEF DispatchFailed, Returns, TypeOK, queueVars
<1>8. ASSUME NEW s \in Schedulers, Requeue(s) PROVE TypeOK'
  <2>0. Task(s) \in Tasks
    BY <1>8, HeldTask DEF Requeue
  <2>1. queue' \in Seq(Tasks)
    <3>1. queue' \in {queue, Append(queue, Task(s))}
      BY <1>8 DEF Requeue
    <3>2. queue \in Seq(Tasks)
      BY DEF TypeOK
    <3> QED BY <2>0, <3>1, <3>2, AppendTo
  <2>2. dropped' \subseteq Tasks
    BY <1>8 DEF Requeue, TypeOK
  <2>3. PICK next \in {"dequeue", "out"} : Returns(s, next)
    BY <1>8 DEF Requeue
  <2> QED
    BY <1>8, <2>1, <2>2, <2>3 DEF Requeue, Returns, TypeOK, poolVars
<1>9. ASSUME NEW s \in Schedulers, BackoffCancelled(s) PROVE TypeOK'
  BY <1>9 DEF BackoffCancelled, Returns, TypeOK, queueVars, poolVars
<1>10. ASSUME NEW a \in Agents, Add(a) \/ Heartbeat(a) PROVE TypeOK'
  <2>1. beats' \in Seq(Agents) /\ stale' \subseteq Agents
    BY <1>10, BeatTypes DEF Add, Heartbeat
  <2> QED
    BY <1>10, <2>1 DEF Add, Heartbeat, TypeOK, queueVars
<1>11. ASSUME NEW a \in Agents, Leave(a) PROVE TypeOK'
  BY <1>11 DEF Leave, TypeOK, queueVars
<1>12. ASSUME NEW a \in Agents, HeartbeatOverdue(a) PROVE TypeOK'
  BY <1>12 DEF HeartbeatOverdue, TypeOK, queueVars
<1>13. ASSUME NEW a \in Agents, NEW t \in Tasks, Finish(a, t) PROVE TypeOK'
  <2>1. /\ status' \in [Agents -> {"absent", "idle", "busy", "offline"}]
        /\ beats' \in Seq(Agents)
        /\ stale' \subseteq Agents
    BY <1>13, UpdateStatusTypes DEF Finish, TypeOK, poolVars
  <2> QED
    BY <1>13, <2>1 DEF Finish, TypeOK, queueVars
<1>14. CASE UNCHANGED vars
  BY <1>14 DEF vars, TypeOK
<1>15. ASSUME NEW s \in Schedulers, Call(s) \/ NothingDequeued(s) PROVE TypeOK'
  BY <1>15 DEF Call, NothingDequeued, TypeOK, queueVars, poolVars
<1> QED
  BY <1>1, <1>2, <1>3, <1>4, <1>5, <1>6, <1>7, <1>8, <1>9, <1>10, <1>11, <1>12, <1>13, <1>14, <1>15
     DEF Next, ScheduleNext

\* Every variable keeps its type, for any agents, tasks, schedulers and queue
\* bound.
THEOREM SchedulerTypes == Spec => []TypeOK
  BY InitialTypes, TypesKept, PTL DEF Spec

-----------------------------------------------------------------------------

\* A task that was submitted is in the queue, held, worked on, done or dropped.
LEMMA SubmittedTasks ==
    ASSUME NEW x
    PROVE  x \in Submitted <=>
             \/ \E i \in DOMAIN queue : queue[i] = x
             \/ \E s \in Schedulers : x \in held[s]
             \/ \E a \in Agents : x \in working[a]
             \/ x \in done \/ x \in dropped
<1>1. x \in ToSet(queue) <=> \E i \in DOMAIN queue : queue[i] = x
  BY DEF ToSet
<1>2. x \in UNION {held[s] : s \in Schedulers} <=> \E s \in Schedulers : x \in held[s]
  OBVIOUS
<1>3. x \in UNION {working[a] : a \in Agents} <=> \E a \in Agents : x \in working[a]
  OBVIOUS
<1> DEFINE H == UNION {held[s] : s \in Schedulers}
           W == UNION {working[a] : a \in Agents}
<1>4. x \in Submitted <=> x \in ToSet(queue) \/ x \in H \/ x \in W \/ x \in done \/ x \in dropped
  <2> HIDE DEF H, W
  <2>1. Submitted = ToSet(queue) \cup H \cup W \cup done \cup dropped
    BY DEF Submitted, H, W
  <2> QED
    BY <2>1
<1> QED
  BY <1>1, <1>2, <1>3, <1>4

\* The same of the next state.
LEMMA SubmittedTasksNext ==
    ASSUME NEW CONSTANT x
    PROVE  (x \in Submitted <=>
             \/ \E i \in DOMAIN queue : queue[i] = x
             \/ \E s \in Schedulers : x \in held[s]
             \/ \E a \in Agents : x \in working[a]
             \/ x \in done \/ x \in dropped)'
  BY SubmittedTasks, PTL

\* A scheduler holds one task at a time.
HeldAlone == \A s \in Schedulers : \A t, u \in held[s] : t = u

\* A task that is in one place is in no other.
Apart ==
    /\ \A i, j \in DOMAIN queue : queue[i] = queue[j] => i = j
    /\ \A i \in DOMAIN queue :
        /\ queue[i] \notin done /\ queue[i] \notin dropped
        /\ \A s \in Schedulers : queue[i] \notin held[s]
        /\ \A a \in Agents : queue[i] \notin working[a]
    /\ \A s \in Schedulers : \A t \in held[s] :
        /\ t \notin done /\ t \notin dropped
        /\ \A r \in Schedulers : t \in held[r] => r = s
        /\ \A a \in Agents : t \notin working[a]
    /\ \A a \in Agents : \A t \in working[a] :
        /\ t \notin done /\ t \notin dropped
        /\ \A b \in Agents : t \in working[b] => b = a
    /\ \A t \in done : t \notin dropped

\* Places that exclude one another are at most one place per task.
LEMMA ApartMeansOnePlace == TypeOK /\ Apart => TaskInOnePlace
<1> SUFFICES ASSUME TypeOK, Apart, NEW t \in Tasks, NEW p \in Places(t), NEW q \in Places(t)
             PROVE  p = q
  BY DEF TaskInOnePlace
<1> DEFINE In(x) == \/ \E i \in DOMAIN queue : queue[i] = t /\ x = <<"queue", i>>
                    \/ \E s \in Schedulers : t \in held[s] /\ x = <<"held", s>>
                    \/ \E a \in Agents : t \in working[a] /\ x = <<"working", a>>
                    \/ t \in done /\ x = <<"done", t>>
                    \/ t \in dropped /\ x = <<"dropped", t>>
<1>1. In(p) /\ In(q)
  BY DEF Places
<1> HIDE DEF In
<1>2. CASE \E i \in DOMAIN queue : queue[i] = t
  BY <1>1, <1>2 DEF In, Apart
<1>3. CASE \E s \in Schedulers : t \in held[s]
  BY <1>1, <1>3 DEF In, Apart
<1>4. CASE \E a \in Agents : t \in working[a]
  BY <1>1, <1>4 DEF In, Apart
<1>5. CASE t \in done
  BY <1>1, <1>5 DEF In, Apart
<1>6. CASE t \in dropped
  BY <1>1, <1>6 DEF In, Apart
<1> QED
  BY <1>1, <1>2, <1>3, <1>4, <1>5, <1>6 DEF In

\* Every step keeps the places apart: a task leaves one place when it enters
\* another.
LEMMA ApartKept == TypeOK /\ HeldAlone /\ Apart /\ [Next]_vars => HeldAlone' /\ Apart'
<1> SUFFICES ASSUME TypeOK, HeldAlone, Apart, [Next]_vars PROVE HeldAlone' /\ Apart'
  OBVIOUS
<1>1. ASSUME NEW t \in Tasks, Enqueue(t) PROVE HeldAlone' /\ Apart'
  <2>1. /\ t \notin done /\ t \notin dropped
        /\ \A i \in DOMAIN queue : queue[i] # t
        /\ \A s \in Schedulers : t \notin held[s]
        /\ \A a \in Agents : t \notin working[a]
    BY <1>1, SubmittedTasks DEF Enqueue
  <2>2. /\ DOMAIN queue' = DOMAIN queue \cup {Len(queue) + 1}
        /\ \A i \in DOMAIN queue : queue'[i] = queue[i]
        /\ queue'[Len(queue) + 1] = t
    BY <1>1, AppendTo DEF Enqueue, TypeOK
  <2>3. UNCHANGED <<held, working, done, dropped>>
    BY <1>1 DEF Enqueue
  <2> QED
    BY <2>1, <2>2, <2>3 DEF HeldAlone, Apart
<1>2. CASE UNCHANGED <<queue, held, working, done, dropped>>
  BY <1>2 DEF HeldAlone, Apart
<1>3. ASSUME NEW s \in Schedulers, Dequeue(s) PROVE HeldAlone' /\ Apart'
  <2>1. PICK i \in DOMAIN queue : held' = [held EXCEPT ![s] = {queue[i]}] /\ queue' = RemoveAt(queue, i)
    BY <1>3 DEF Dequeue
  <2>2. /\ \A j \in DOMAIN queue' :
              \E k \in DOMAIN queue : k # i /\ queue'[j] = queue[k] /\ k = (IF j < i THEN j ELSE j + 1)
        /\ DOMAIN queue' \subseteq Nat
    BY <2>1, RemovedAt DEF TypeOK
  <2>3. UNCHANGED <<working, done, dropped>> /\ held[s] = {}
    BY <1>3 DEF Dequeue, TypeOK
  <2>4. i \in Nat
    BY DEF TypeOK
  <2>5. \A j, k \in DOMAIN queue' : queue'[j] = queue'[k] => j = k
    BY <2>2, <2>4 DEF Apart
  <2>6. \A j \in DOMAIN queue' : \E k \in DOMAIN queue : k # i /\ queue'[j] = queue[k]
    BY <2>2
  <2>7. \A r \in Schedulers : held'[r] = IF r = s THEN {queue[i]} ELSE held[r]
    BY <2>1 DEF TypeOK
  <2> QED
    BY <2>3, <2>5, <2>6, <2>7 DEF HeldAlone, Apart
<1>4. ASSUME NEW s \in Schedulers, Dispatched(s) PROVE HeldAlone' /\ Apart'
  <2>1. /\ \A r \in Schedulers : held'[r] = IF r = s THEN {} ELSE held[r]
        /\ \A a \in Agents : working'[a] = IF a = Chosen(s) THEN working[a] \cup held[s] ELSE working[a]
        /\ UNCHANGED <<queue, done, dropped>>
    <3>1. PICK next \in {"dequeue", "out"} : Returns(s, next)
      BY <1>4 DEF Dispatched
    <3> QED
      BY <1>4, <3>1 DEF Dispatched, Returns, TypeOK, queueVars
  <2>2. \A t \in held[s] :
            /\ t \notin done /\ t \notin dropped
            /\ \A i \in DOMAIN queue : queue[i] # t
            /\ \A r \in Schedulers : t \in held[r] => r = s
            /\ \A a \in Agents : t \notin working[a]
    BY DEF Apart
  <2>3. ASSUME NEW a \in Agents, NEW t \in working'[a]
        PROVE  /\ t \notin done /\ t \notin dropped
               /\ \A i \in DOMAIN queue : queue[i] # t
               /\ \A r \in Schedulers : t \notin held'[r]
               /\ \A b \in Agents : t \in working'[b] => b = a
    <3>1. CASE t \in working[a]
      <4>1. /\ t \notin held[s] /\ t \notin done /\ t \notin dropped
            /\ \A i \in DOMAIN queue : queue[i] # t
            /\ \A r \in Schedulers : t \notin held[r]
            /\ \A b \in Agents : t \in working[b] => b = a
        BY <3>1 DEF Apart
      <4> QED
        BY <2>1, <4>1
    <3>2. CASE a = Chosen(s) /\ t \in held[s]
      BY <2>1, <2>2, <3>2
    <3> QED
      BY <2>1, <2>3, <3>1, <3>2
  <2> QED
    BY <2>1, <2>3 DEF HeldAlone, Apart
<1>5. ASSUME NEW s \in Schedulers,
             /\ dropped' = dropped \cup held[s]
             /\ Returns(s, "out")
             /\ UNCHANGED <<queue, working, done>>
      PROVE  HeldAlone' /\ Apart'
  <2>1. \A r \in Schedulers : held'[r] = IF r = s THEN {} ELSE held[r]
    BY <1>5 DEF Returns, TypeOK
  <2> QED
    BY <1>5, <2>1 DEF HeldAlone, Apart
<1>6. ASSUME NEW s \in Schedulers, Requeue(s) PROVE HeldAlone' /\ Apart'
  <2>1. CASE closed
    BY <1>5, <1>6, <2>1 DEF Requeue
  <2>2. CASE ~closed
    <3>1. Task(s) \in held[s] /\ Task(s) \in Tasks
      BY <1>6, HeldTask DEF Requeue
    <3>2. /\ DOMAIN queue' = DOMAIN queue \cup {Len(queue) + 1}
          /\ \A i \in DOMAIN queue : queue'[i] = queue[i]
          /\ queue'[Len(queue) + 1] = Task(s)
      <4>1. queue' = Append(queue, Task(s))
        BY <1>6, <2>2 DEF Requeue
      <4> QED
        BY <3>1, <4>1, AppendTo DEF TypeOK
    <3>3. /\ \A r \in Schedulers : held'[r] = IF r = s THEN {} ELSE held[r]
          /\ UNCHANGED <<working, done, dropped>>
      BY <1>6, <2>2 DEF Requeue, Returns, TypeOK
    <3> QED
      BY <3>1, <3>2, <3>3 DEF HeldAlone, Apart
  <2> QED
    BY <2>1, <2>2
<1>7. ASSUME NEW a \in Agents, NEW t \in Tasks, Finish(a, t) PROVE HeldAlone' /\ Apart'
  <2>1. /\ \A b \in Agents : working'[b] = IF b = a THEN working[b] \ {t} ELSE working[b]
        /\ t \in working[a]
        /\ done' = done \cup {t}
        /\ UNCHANGED <<queue, held, dropped>>
    BY <1>7 DEF Finish, TypeOK, queueVars
  <2>2. \A b \in Agents : t \notin working'[b]
    BY <2>1 DEF Apart
  <2>3. t \notin dropped /\ \A i \in DOMAIN queue : queue[i] # t
    BY <2>1 DEF Apart
  <2>4. \A s \in Schedulers : t \notin held[s]
    BY <2>1 DEF Apart
  <2>5. \A b \in Agents : working'[b] \subseteq working[b]
    BY <2>1
  <2> HIDE <1>7
  <2> QED
    BY <2>1, <2>2, <2>3, <2>4, <2>5 DEF HeldAlone, Apart
<1>8. ASSUME NEW s \in Schedulers, ScheduleNext(s) PROVE HeldAlone' /\ Apart'
  BY <1>2, <1>3, <1>4, <1>5, <1>6, <1>8
     DEF ScheduleNext, Match, Claim, DispatchFailed, BackoffCancelled, queueVars
<1>9. ASSUME NEW a \in Agents,
             Add(a) \/ Leave(a) \/ Heartbeat(a) \/ HeartbeatOverdue(a)
      PROVE  HeldAlone' /\ Apart'
  BY <1>2, <1>9 DEF Add, Leave, Heartbeat, HeartbeatOverdue, queueVars
<1>10. CASE Close \/ UNCHANGED vars
  BY <1>2, <1>10 DEF Close, vars
<1>11. ASSUME NEW s \in Schedulers, Call(s) \/ NothingDequeued(s) PROVE HeldAlone' /\ Apart'
  BY <1>2, <1>11 DEF Call, NothingDequeued, queueVars
<1> QED
  BY <1>1, <1>7, <1>8, <1>9, <1>10, <1>11 DEF Next

\* A task is in one place at a time, however schedulers, heartbeats and failing
\* handoffs interleave: no task is worked on twice.
THEOREM SchedulerKeepsOnePlace == Spec => []TaskInOnePlace
<1>1. Init => HeldAlone /\ Apart
  BY DEF Init, HeldAlone, Apart
<1>2. TypeOK /\ Apart => TaskInOnePlace
  BY ApartMeansOnePlace
<1> QED
  BY <1>1, <1>2, InitialTypes, TypesKept, ApartKept, PTL DEF Spec

\* No step takes a submitted task out of every place.
LEMMA StepForgetsNothing == TypeOK /\ HeldAlone /\ [Next]_vars => Submitted \subseteq Submitted'
<1> SUFFICES ASSUME TypeOK, HeldAlone, [Next]_vars, NEW x \in Submitted PROVE x \in Submitted'
  OBVIOUS
<1> DEFINE Queued == \E i \in DOMAIN queue : queue[i] = x
           Held == \E s \in Schedulers : x \in held[s]
           Worked == \E a \in Agents : x \in working[a]
<1>1. Queued \/ Held \/ Worked \/ x \in done \/ x \in dropped
  BY SubmittedTasks
<1>2. Queued' \/ Held' \/ Worked' \/ x \in done' \/ x \in dropped' => x \in Submitted'
  BY SubmittedTasksNext
<1>3. ASSUME NEW t \in Tasks, queue' = Append(queue, t) PROVE Queued => Queued'
  BY <1>3, AppendTo DEF TypeOK
<1>4. ASSUME NEW t \in Tasks, Enqueue(t) PROVE x \in Submitted'
  BY <1>1, <1>2, <1>3, <1>4 DEF Enqueue
<1>5. CASE UNCHANGED <<queue, held, working, done, dropped>>
  BY <1>1, <1>2, <1>5
<1>6. ASSUME NEW s \in Schedulers, Dequeue(s) PROVE x \in Submitted'
  <2>1. PICK i \in DOMAIN queue : held' = [held EXCEPT ![s] = {queue[i]}] /\ queue' = RemoveAt(queue, i)
    BY <1>6 DEF Dequeue
  <2>2. \A k \in DOMAIN queue : k # i => \E j \in DOMAIN queue' : queue'[j] = queue[k]
    BY <2>1, RemovedAt DEF TypeOK
  <2>3. \A r \in Schedulers : held'[r] = IF r = s THEN {queue[i]} ELSE held[r]
    BY <2>1 DEF TypeOK
  <2>4. held[s] = {} /\ UNCHANGED <<working, done, dropped>>
    BY <1>6 DEF Dequeue, TypeOK
  <2> QED
    BY <1>1, <1>2, <2>2, <2>3, <2>4
<1>7. ASSUME NEW s \in Schedulers, Dispatched(s) PROVE x \in Submitted'
  <2>1. /\ \A r \in Schedulers : held'[r] = IF r = s THEN {} ELSE held[r]
        /\ \A a \in Agents : working'[a] = IF a = Chosen(s) THEN working[a] \cup held[s] ELSE working[a]
        /\ UNCHANGED <<queue, done, dropped>>
    <3>1. PICK next \in {"dequeue", "out"} : Returns(s, next)
      BY <1>7 DEF Dispatched
    <3> QED
      BY <1>7, <3>1 DEF Dispatched, Returns, TypeOK, queueVars
  <2>2. Chosen(s) \in Agents
    BY <1>7, ChosenAgent DEF Dispatched
  <2> QED
    BY <1>1, <1>2, <2>1, <2>2
<1>8. ASSUME NEW s \in Schedulers,
             /\ dropped' = dropped \cup held[s]
             /\ Returns(s, "out")
             /\ UNCHANGED <<queue, working, done>>
      PROVE  x \in Submitted'
  <2>1. \A r \in Schedulers : held'[r] = IF r = s THEN {} ELSE held[r]
    BY <1>8 DEF Returns, TypeOK
  <2> QED
    BY <1>1, <1>2, <1>8, <2>1
<1>9. ASSUME NEW s \in Schedulers, Requeue(s) PROVE x \in Submitted'
  <2>1. CASE closed
    BY <1>8, <1>9, <2>1 DEF Requeue
  <2>2. CASE ~closed
    <3>1. Task(s) \in held[s] /\ Task(s) \in Tasks
      BY <1>9, HeldTask DEF Requeue
    <3>2. queue' = Append(queue, Task(s))
      BY <1>9, <2>2 DEF Requeue
    <3>3. \E i \in DOMAIN queue' : queue'[i] = Task(s)
      BY <3>1, <3>2, AppendTo DEF TypeOK
    <3>4. /\ \A r \in Schedulers : held'[r] = IF r = s THEN {} ELSE held[r]
          /\ UNCHANGED <<working, done, dropped>>
      BY <1>9, <2>2 DEF Requeue, Returns, TypeOK
    <3> QED
      BY <1>1, <1>2, <1>3, <3>1, <3>2, <3>3, <3>4 DEF HeldAlone
  <2> QED
    BY <2>1, <2>2
<1>10. ASSUME NEW a \in Agents, NEW t \in Tasks, Finish(a, t) PROVE x \in Submitted'
  <2>1. /\ \A b \in Agents : working'[b] = IF b = a THEN working[b] \ {t} ELSE working[b]
        /\ done' = done \cup {t}
        /\ UNCHANGED <<queue, held, dropped>>
    BY <1>10 DEF Finish, TypeOK, queueVars
  <2> QED
    BY <1>1, <1>2, <2>1
<1>11. ASSUME NEW s \in Schedulers, ScheduleNext(s) PROVE x \in Submitted'
  BY <1>5, <1>6, <1>7, <1>8, <1>9, <1>11
     DEF ScheduleNext, Match, Claim, DispatchFailed, BackoffCancelled, queueVars
<1>12. ASSUME NEW a \in Agents,
              Add(a) \/ Leave(a) \/ Heartbeat(a) \/ HeartbeatOverdue(a)
      PROVE  x \in Submitted'
  BY <1>5, <1>12 DEF Add, Leave, Heartbeat, HeartbeatOverdue, queueVars
<1>13. CASE Close \/ UNCHANGED vars
  BY <1>5, <1>13 DEF Close, vars
<1>14. ASSUME NEW s \in Schedulers, Call(s) \/ NothingDequeued(s) PROVE x \in Submitted'
  BY <1>5, <1>14 DEF Call, NothingDequeued, queueVars
<1> QED
  BY <1>4, <1>10, <1>11, <1>12, <1>13, <1>14 DEF Next

\* No task that Enqueue accepted disappears: what cannot be queued again is
\* dropped with an error, never silently.
THEOREM SchedulerForgetsNoTask == Spec => NoTaskForgotten
<1>1. Init => HeldAlone /\ Apart
  BY DEF Init, HeldAlone, Apart
<1>2. TypeOK /\ HeldAlone /\ [Next]_vars => [Submitted \subseteq Submitted']_vars
  BY StepForgetsNothing
<1> QED
  BY <1>1, <1>2, InitialTypes, TypesKept, ApartKept, PTL DEF Spec, NoTaskForgotten

-----------------------------------------------------------------------------

\* S has at most one element.
AtMostOne(S) == \A x, y \in S : x = y

\* An agent that neither leaves nor is overdue: idle without work, matched while
\* idle, and claimed before its one task reaches it.
Steady(a) ==
    /\ a \notin stale
    /\ status[a] \in {"idle", "busy"}
    /\ AtMostOne(working[a])
    /\ status[a] = "idle" => working[a] = {}
    /\ \A s \in Schedulers : pc[s] = "claim" /\ a \in matched[s] => status[a] = "idle"
    /\ \A s \in Schedulers : pc[s] = "handoff" /\ a \in matched[s] =>
            matched[s] = {a} /\ status[a] = "busy" /\ working[a] = {}

StaysSteady == \A a \in Agents \ Churn : Steady(a)

\* A steady agent has at most one task, in its hands or on its way to it.
LEMMA SteadyMeansOneTask ==
    ASSUME NEW only, Schedulers = {only}, TypeOK, HeldAlone, StaysSteady
    PROVE  OneTaskPerAgent
<1> SUFFICES ASSUME NEW a \in Agents \ Churn PROVE Cardinality(Assigned(a)) <= 1
  BY DEF OneTaskPerAgent
<1>1. AtMostOne(Assigned(a))
  <2> DEFINE H == UNION {held[s] : s \in {r \in Schedulers : pc[r] = "handoff" /\ matched[r] = {a}}}
  <2>1. \A t \in H : t \in held[only] /\ pc[only] = "handoff" /\ matched[only] = {a}
    OBVIOUS
  <2>2. H # {} => working[a] = {}
    BY <2>1 DEF StaysSteady, Steady
  <2>3. AtMostOne(H) /\ AtMostOne(working[a])
    BY <2>1 DEF HeldAlone, StaysSteady, Steady, AtMostOne
  <2> HIDE DEF H
  <2>4. AtMostOne(working[a] \cup H)
    BY <2>2, <2>3 DEF AtMostOne
  <2> QED
    BY <2>4 DEF Assigned, H
<1>2. CASE Assigned(a) = {}
  BY <1>2, FS_EmptySet
<1>3. CASE Assigned(a) # {}
  <2>1. PICK t : Assigned(a) = {t}
    BY <1>1, <1>3 DEF AtMostOne
  <2>2. Cardinality({t}) = 1
    BY FS_Singleton
  <2> QED
    BY <2>1, <2>2
<1> QED
  BY <1>2, <1>3

\* With one scheduler, and heartbeats in time, agents outside Churn stay steady.
LEMMA SteadyKept ==
    ASSUME NEW only, Schedulers = {only}, ~LateHeartbeats,
           TypeOK, HeldAlone, StaysSteady, [Next]_vars
    PROVE  StaysSteady'
<1> SUFFICES ASSUME NEW a \in Agents \ Churn PROVE Steady(a)'
  BY DEF StaysSteady
<1> USE DEF AtMostOne
<1>0. Steady(a) /\ a \in Agents
  BY DEF StaysSteady
<1>1. ASSUME NEW b \in Agents, NEW st \in {"idle", "busy"}, UpdateStatus(b, st)
      PROVE  a \notin stale' /\ status'[a] = (IF a = b THEN st ELSE status[a])
  BY <1>0, <1>1 DEF UpdateStatus, Beat, poolVars, TypeOK, Steady
<1>2. CASE UNCHANGED <<poolVars, pc, matched, working>>
  BY <1>0, <1>2 DEF Steady, poolVars
<1>3. ASSUME NEW s \in Schedulers, Dequeue(s) PROVE Steady(a)'
  BY <1>0, <1>3 DEF Dequeue, Steady, poolVars, TypeOK
<1>4. ASSUME NEW s \in Schedulers, Match(s) PROVE Steady(a)'
  <2>1. status'[a] = status[a] /\ UNCHANGED <<stale, working>>
    BY <1>0, <1>4 DEF Match, AfterMarking, Steady
  <2>2. /\ s = only
        /\ \A b \in matched'[s] : AfterMarking[b] = "idle"
        /\ pc'[s] # "handoff"
    BY <1>4 DEF Match, TypeOK
  <2>3. a \in matched'[s] => status[a] = "idle"
    BY <1>0, <2>2 DEF AfterMarking, Steady
  <2> QED
    BY <1>0, <2>1, <2>2, <2>3 DEF Steady
<1>5. ASSUME NEW s \in Schedulers, Claim(s) PROVE Steady(a)'
  <2>1. PICK b \in matched[s] :
            matched' = [matched EXCEPT ![s] = {b}] /\ UpdateStatus(b, "busy")
    BY <1>5 DEF Claim
  <2>2. b \in Agents
    BY <2>1 DEF TypeOK
  <2>3. a \notin stale' /\ status'[a] = (IF a = b THEN "busy" ELSE status[a])
    BY <1>1, <2>1, <2>2
  <2>4. s = only /\ matched'[s] = {b} /\ pc[s] = "claim" /\ pc'[s] = "handoff" /\ working' = working
    BY <1>5, <2>1 DEF Claim, TypeOK
  <2> QED
    BY <1>0, <2>1, <2>3, <2>4 DEF Steady
<1>6. ASSUME NEW s \in Schedulers, Dispatched(s) PROVE Steady(a)'
  <2>1. s = only /\ pc[s] = "handoff" /\ pc'[s] \in {"dequeue", "out"} /\ UNCHANGED poolVars
    BY <1>6 DEF Dispatched, Returns, TypeOK
  <2>2. Chosen(s) \in matched[s] /\ Chosen(s) \in Agents
    BY <1>6, ChosenAgent DEF Dispatched
  <2>3. working'[a] = IF a = Chosen(s) THEN working[a] \cup held[s] ELSE working[a]
    BY <1>0, <1>6 DEF Dispatched, TypeOK
  <2>4. CASE a = Chosen(s)
    <3>1. status[a] = "busy" /\ working[a] = {}
      BY <1>0, <2>1, <2>2, <2>4 DEF Steady
    <3>2. AtMostOne(working'[a])
      BY <2>3, <2>4, <3>1 DEF HeldAlone
    <3> QED
      BY <1>0, <2>1, <3>1, <3>2 DEF Steady, poolVars
  <2>5. CASE a # Chosen(s)
    BY <1>0, <2>1, <2>3, <2>5 DEF Steady, poolVars
  <2> QED
    BY <2>4, <2>5
<1>7. ASSUME NEW s \in Schedulers, DispatchFailed(s) PROVE Steady(a)'
  <2>1. s = only /\ pc[s] = "handoff" /\ pc'[s] = "out" /\ working' = working
    BY <1>7 DEF DispatchFailed, Returns, TypeOK
  <2>2. Chosen(s) \in matched[s] /\ Chosen(s) \in Agents
    BY <1>7, ChosenAgent DEF DispatchFailed
  <2>3. a \notin stale' /\ status'[a] = (IF a = Chosen(s) THEN "idle" ELSE status[a])
    BY <1>1, <1>7, <2>2 DEF DispatchFailed
  <2>4. a = Chosen(s) => working[a] = {}
    BY <1>0, <2>1, <2>2 DEF Steady
  <2> QED
    BY <1>0, <2>1, <2>3, <2>4 DEF Steady
<1>8. ASSUME NEW s \in Schedulers, Requeue(s) \/ BackoffCancelled(s) PROVE Steady(a)'
  <2>1. s = only /\ pc'[s] \in {"dequeue", "out"} /\ UNCHANGED <<poolVars, working>>
    BY <1>8 DEF Requeue, BackoffCancelled, Returns, TypeOK
  <2> QED
    BY <1>0, <2>1 DEF Steady, poolVars
<1>9. ASSUME NEW b \in Agents, Add(b) \/ Leave(b) \/ Heartbeat(b) PROVE Steady(a)'
  <2>1. status'[a] = status[a] /\ a \notin stale'
    BY <1>0, <1>9 DEF Add, Leave, Heartbeat, Beat, Steady, TypeOK
  <2>2. UNCHANGED <<pc, matched, working>>
    BY <1>9 DEF Add, Leave, Heartbeat
  <2> QED
    BY <1>0, <2>1, <2>2 DEF Steady
<1>10. ASSUME NEW b \in Agents, HeartbeatOverdue(b) PROVE Steady(a)'
  BY <1>10 DEF HeartbeatOverdue
<1>11. ASSUME NEW b \in Agents, NEW t \in Tasks, Finish(b, t) PROVE Steady(a)'
  <2>1. /\ t \in working[b]
        /\ working' = [working EXCEPT ![b] = working[b] \ {t}]
        /\ UNCHANGED <<pc, matched>>
        /\ working[b] = {t} \/ UNCHANGED poolVars
        /\ UpdateStatus(b, "idle") \/ UNCHANGED poolVars
    BY <1>11 DEF Finish
  <2>2. CASE a # b
    <3>1. working'[a] = working[a] /\ a \notin stale' /\ status'[a] = status[a]
      BY <1>0, <1>1, <2>1, <2>2 DEF TypeOK, poolVars, Steady
    <3> QED
      BY <1>0, <2>1, <3>1 DEF Steady
  <2>3. CASE a = b
    <3>1. working[a] = {t} /\ working'[a] = {}
      BY <1>0, <2>1, <2>3 DEF TypeOK, Steady
    <3>2. a \notin stale' /\ status'[a] = "idle"
      BY <1>1, <1>11, <2>3, <3>1 DEF Finish
    <3> QED
      BY <1>0, <2>1, <3>1, <3>2 DEF Steady
  <2> QED
    BY <2>2, <2>3
<1>12. ASSUME NEW s \in Schedulers, ScheduleNext(s) PROVE Steady(a)'
  BY <1>3, <1>4, <1>5, <1>6, <1>7, <1>8, <1>12 DEF ScheduleNext
<1>13. CASE \/ \E t \in Tasks : Enqueue(t)
            \/ Close
            \/ UNCHANGED vars
  BY <1>2, <1>13 DEF Enqueue, Close, vars, poolVars
<1>14. ASSUME NEW s \in Schedulers, Call(s) \/ NothingDequeued(s) PROVE Steady(a)'
  <2>1. pc'[s] \in {"dequeue", "out"} /\ UNCHANGED <<poolVars, matched, working>>
    BY <1>14 DEF Call, NothingDequeued, TypeOK
  <2>2. \A q \in Schedulers : q = s
    OBVIOUS
  <2> QED
    BY <1>0, <2>1, <2>2 DEF Steady, poolVars
<1> QED
  BY <1>9, <1>10, <1>11, <1>12, <1>13, <1>14 DEF Next

\* One SchedulerComposer gives no agent a second task before the first is
\* finished; the runs with two schedulers, or with late heartbeats, show that
\* both conditions are needed.
THEOREM OneSchedulerOneTask ==
    ASSUME NEW CONSTANT only, Schedulers = {only}, ~LateHeartbeats
    PROVE  Spec => []OneTaskPerAgent
<1>1. Init => HeldAlone /\ Apart /\ StaysSteady
  BY DEF Init, HeldAlone, Apart, StaysSteady, Steady, AtMostOne
<1>2. TypeOK /\ HeldAlone /\ StaysSteady => OneTaskPerAgent
  BY SteadyMeansOneTask
<1>3. TypeOK /\ HeldAlone /\ StaysSteady /\ [Next]_vars => StaysSteady'
  BY SteadyKept
<1> QED
  BY <1>1, <1>2, <1>3, InitialTypes, TypesKept, ApartKept, PTL DEF Spec

-----------------------------------------------------------------------------
(* The votes of instances. *)

\* The instances are some, proposals are theirs, and a mode that is proposed degrades.
Proposable ==
    /\ IsFiniteSet(Instances)
    /\ Proposer \in [Proposals -> Instances]
    /\ ModeOf \in [Proposals -> Fed!Modes \ {"none"}]

No(p) == {i \in Instances : said[p][i] = "no"}

\* The counts of a proposal are those of the votes that were heard.
CountsAre(p) ==
    IF proposal[p] \in {"none", "published"}
    THEN votes[p].no = 0 /\ \A i \in Instances : said[p][i] \notin {"yes", "no"}
    ELSE /\ votes[p].yes = Cardinality(Fed!Yes(p)) /\ votes[p].no = Cardinality(No(p))
         /\ CASE proposal[p] = "open" -> /\ Fed!Total > 1 => votes[p].yes < Fed!Required
                                         /\ votes[p].no <= Fed!Total - Fed!Required
              [] proposal[p] = "confirmed" -> votes[p].yes >= Fed!Required
              [] OTHER -> votes[p].no > Fed!Total - Fed!Required

\* Whoever is degraded has had a proposal of that confirmed.
VotesInv ==
    /\ mode \in [Instances -> Fed!Modes]
    /\ proposal \in [Proposals -> {"none", "published", "open", "confirmed", "rejected"}]
    /\ votes \in [Proposals -> [yes : Nat, no : Nat]]
    /\ said \in [Proposals -> [Instances -> {"nothing", "ignored", "yes", "no"}]]
    /\ \A p \in Proposals : said[p][Proposer[p]] = "nothing" /\ CountsAre(p)
    /\ \A i \in Instances : mode[i] # "none" =>
          \E p \in Proposals : Proposer[p] = i /\ ModeOf[p] = mode[i] /\ proposal[p] = "confirmed"

\* Both modules count alike.
LEMMA SameCardinality ==
    ASSUME NEW S
    PROVE  Fed!Cardinality(S) = Cardinality(S)
BY DEF Fed!Cardinality, Cardinality

\* The instances are counted, and more than half of them are required.
LEMMA Counts ==
    ASSUME Proposable
    PROVE  /\ Fed!Total \in Nat /\ Fed!Required \in Nat
           /\ Fed!Total < 2 * Fed!Required /\ 2 * (Fed!Required - 1) <= Fed!Total
           /\ \A S \in SUBSET Instances : /\ IsFiniteSet(S) /\ Cardinality(S) \in Nat
                                          /\ Cardinality(S) <= Fed!Total
<1>1. Fed!Total \in Nat
  BY FS_CardinalityType, SameCardinality DEF Proposable, Fed!Total
<1>2. ASSUME NEW S \in SUBSET Instances
      PROVE  IsFiniteSet(S) /\ Cardinality(S) \in Nat /\ Cardinality(S) <= Fed!Total
  BY FS_Subset, FS_CardinalityType, SameCardinality DEF Proposable, Fed!Total
<1>3. PICK n \in Nat : n = Fed!Total
  BY <1>1
<1>4. n < 2 * (n \div 2 + 1) /\ 2 * (n \div 2) <= n /\ n \div 2 + 1 \in Nat
  OBVIOUS
<1> QED BY <1>2, <1>3, <1>4 DEF Fed!Required

\* A vote that is heard is counted.
LEMMA VoteCounts ==
    ASSUME Proposable, VotesInv, NEW p \in Proposals, NEW i \in Instances, i # Proposer[p],
           said[p][i] = "nothing", NEW agree \in BOOLEAN,
           said' = [said EXCEPT ![p][i] = IF agree THEN "yes" ELSE "no"]
    PROVE  /\ Cardinality(Fed!Yes(p)') = Cardinality(Fed!Yes(p)) + (IF agree THEN 1 ELSE 0)
           /\ Cardinality(No(p)') = Cardinality(No(p)) + (IF agree THEN 0 ELSE 1)
           /\ \A q \in Proposals \ {p} : said'[q] = said[q]
<1>1. /\ \A q \in Proposals \ {p} : said'[q] = said[q]
      /\ \A j \in Instances : said'[p][j] = IF j = i THEN (IF agree THEN "yes" ELSE "no")
                                            ELSE said[p][j]
  BY DEF VotesInv
<1>2. /\ Fed!Yes(p) \in SUBSET Instances /\ No(p) \in SUBSET Instances
      /\ i \notin Fed!Yes(p) \cup No(p)
  BY DEF Fed!Yes, No, Proposable
<1>3. CASE agree
  <2>1. Fed!Yes(p)' = Fed!Yes(p) \cup {i} /\ No(p)' = No(p)
    BY <1>1, <1>3 DEF Fed!Yes, No
  <2> QED BY <1>1, <1>2, <1>3, <2>1, Counts, FS_AddElement
<1>4. CASE ~agree
  <2>1. Fed!Yes(p)' = Fed!Yes(p) /\ No(p)' = No(p) \cup {i}
    BY <1>1, <1>4 DEF Fed!Yes, No
  <2> QED BY <1>1, <1>2, <1>4, <2>1, Counts, FS_AddElement
<1> QED BY <1>3, <1>4

\* What is known of a proposal is known while nothing happens to it.
LEMMA CountsStay ==
    ASSUME NEW q, CountsAre(q), said'[q] = said[q], votes'[q] = votes[q], proposal'[q] = proposal[q]
    PROVE  CountsAre(q)'
<1>1. Fed!Yes(q)' = Fed!Yes(q) /\ No(q)' = No(q)
  BY DEF Fed!Yes, No
<1> QED BY <1>1 DEF CountsAre, Fed!Total, Fed!Required

\* No step miscounts.
LEMMA VotesStep ==
    ASSUME Proposable, VotesInv, [Fed!VoteNext]_(Fed!voteVars)
    PROVE  VotesInv'
<1>1. CASE UNCHANGED Fed!voteVars
  <2>1. \A p \in Proposals : CountsAre(p)'
    BY <1>1, CountsStay DEF VotesInv, Fed!voteVars
  <2> QED BY <1>1, <2>1 DEF VotesInv, Fed!voteVars
<1>2. ASSUME NEW p \in Proposals, Fed!Broadcast(p)
      PROVE  VotesInv'
  <2>1. /\ UNCHANGED <<mode, votes, said>> /\ proposal[p] = "none"
        /\ proposal' = [proposal EXCEPT ![p] = "published"]
    BY <1>2 DEF Fed!Broadcast
  <2>2. \A q \in Proposals : CountsAre(q)'
    <3>1. CountsAre(p)'
      BY <2>1 DEF VotesInv, CountsAre
    <3>2. ASSUME NEW q \in Proposals, q # p
          PROVE  CountsAre(q)'
      BY <2>1, <3>2, CountsStay DEF VotesInv
    <3> QED BY <3>1, <3>2
  <2> QED BY <2>1, <2>2 DEF VotesInv
<1>3. ASSUME NEW p \in Proposals, Fed!EnterVote(p)
      PROVE  VotesInv'
  <2>1. /\ UNCHANGED <<mode, said>> /\ proposal[p] = "published"
        /\ proposal' = [proposal EXCEPT ![p] = "open"]
        /\ votes' = [votes EXCEPT ![p].yes = 1]
    BY <1>3 DEF Fed!EnterVote
  <2>2. \A q \in Proposals : CountsAre(q)'
    <3>1. Fed!Yes(p)' = {Proposer[p]} /\ No(p)' = {}
      <4>1. \A i \in Instances : said'[p][i] # "yes" /\ said'[p][i] # "no"
        BY <2>1 DEF VotesInv, CountsAre
      <4> QED BY <4>1 DEF Fed!Yes, No
    <3>2. Cardinality(Fed!Yes(p)') = 1 /\ Cardinality(No(p)') = 0
      BY <3>1, FS_Singleton, FS_EmptySet
    <3>3. votes'[p].yes = 1 /\ votes'[p].no = 0 /\ proposal'[p] = "open"
      BY <2>1 DEF VotesInv, CountsAre
    <3>4. /\ Fed!Total' = Fed!Total /\ Fed!Required' = Fed!Required
          /\ Fed!Total > 1 => 1 < Fed!Required
          /\ 0 <= Fed!Total - Fed!Required
      <4>1. Fed!Total # 0
        BY FS_EmptySet, SameCardinality DEF Proposable, Fed!Total
      <4>2. PICK n \in Nat \ {0} : n = Fed!Total
        BY <4>1, Counts
      <4>3. (n > 1 => 1 < n \div 2 + 1) /\ 0 <= n - (n \div 2 + 1)
        OBVIOUS
      <4> QED BY <4>2, <4>3 DEF Fed!Total, Fed!Required
    <3>5. CountsAre(p)'
      BY <3>2, <3>3, <3>4 DEF CountsAre
    <3>6. ASSUME NEW q \in Proposals, q # p
          PROVE  CountsAre(q)'
      <4>1. said'[q] = said[q] /\ votes'[q] = votes[q] /\ proposal'[q] = proposal[q]
        BY <2>1, <3>6 DEF VotesInv
      <4> QED BY <4>1, CountsStay DEF VotesInv
    <3> QED BY <3>5, <3>6
  <2>3. votes' \in [Proposals -> [yes : Nat, no : Nat]]
    BY <2>1 DEF VotesInv
  <2> QED BY <2>1, <2>2, <2>3 DEF VotesInv
<1>4. ASSUME NEW p \in Proposals, NEW i \in Instances, NEW agree \in BOOLEAN,
             Fed!VoteOnDegradation(i, p, agree)
      PROVE  VotesInv'
  <2>1. CASE proposal[p] # "open"
    <3>1. /\ UNCHANGED <<mode, proposal, votes>>
          /\ said' = [said EXCEPT ![p][i] = "ignored"] /\ said[p][i] = "nothing" /\ i # Proposer[p]
      BY <1>4, <2>1 DEF Fed!VoteOnDegradation
    <3>2. /\ \A q \in Proposals \ {p} : said'[q] = said[q]
          /\ \A j \in Instances : said'[p][j] = IF j = i THEN "ignored" ELSE said[p][j]
      BY <3>1 DEF VotesInv
    <3>3. Fed!Yes(p)' = Fed!Yes(p) /\ No(p)' = No(p)
      BY <3>1, <3>2 DEF Fed!Yes, No
    <3>4. CountsAre(p)'
      BY <3>1, <3>2, <3>3 DEF VotesInv, CountsAre, Fed!Total, Fed!Required
    <3>5. \A q \in Proposals : CountsAre(q)'
      BY <3>1, <3>2, <3>4, CountsStay DEF VotesInv
    <3>6. said' \in [Proposals -> [Instances -> {"nothing", "ignored", "yes", "no"}]]
      BY <3>1 DEF VotesInv
    <3>7. \A q \in Proposals : said'[q][Proposer[q]] = "nothing"
      BY <3>1, <3>2 DEF VotesInv, Proposable
    <3> QED BY <3>1, <3>5, <3>6, <3>7 DEF VotesInv
  <2>2. CASE proposal[p] = "open"
    <3> DEFINE counted == IF agree THEN [votes[p] EXCEPT !.yes = @ + 1]
                          ELSE [votes[p] EXCEPT !.no = @ + 1]
    <3>1. /\ said' = [said EXCEPT ![p][i] = IF agree THEN "yes" ELSE "no"]
          /\ said[p][i] = "nothing" /\ i # Proposer[p]
          /\ votes' = [votes EXCEPT ![p] = counted]
          /\ \/ /\ counted.yes >= Fed!Required
                /\ mode' = [mode EXCEPT ![Proposer[p]] = ModeOf[p]]
                /\ proposal' = [proposal EXCEPT ![p] = "confirmed"]
             \/ /\ counted.yes < Fed!Required /\ Fed!RejectedBy(counted.no)
                /\ proposal' = [proposal EXCEPT ![p] = "rejected"] /\ mode' = mode
             \/ /\ ~(counted.yes >= Fed!Required)
                /\ ~(counted.yes < Fed!Required /\ Fed!RejectedBy(counted.no))
                /\ mode' = mode /\ proposal' = proposal
      BY <1>4, <2>2 DEF Fed!VoteOnDegradation
    <3>2. /\ votes[p].yes = Cardinality(Fed!Yes(p)) /\ votes[p].no = Cardinality(No(p))
          /\ votes[p] \in [yes : Nat, no : Nat]
          /\ Fed!Total > 1 => votes[p].yes < Fed!Required
          /\ votes[p].no <= Fed!Total - Fed!Required
      BY <2>2 DEF VotesInv, CountsAre
    <3>3. /\ counted \in [yes : Nat, no : Nat]
          /\ counted.yes = Cardinality(Fed!Yes(p)') /\ counted.no = Cardinality(No(p)')
      <4>1. /\ Cardinality(Fed!Yes(p)') = Cardinality(Fed!Yes(p)) + (IF agree THEN 1 ELSE 0)
            /\ Cardinality(No(p)') = Cardinality(No(p)) + (IF agree THEN 0 ELSE 1)
        BY <3>1, VoteCounts
      <4>2. PICK y \in Nat, n \in Nat : y = votes[p].yes /\ n = votes[p].no
        BY <3>2
      <4>3. votes[p] = [yes |-> y, no |-> n]
        BY <3>2, <4>2
      <4>4. counted = IF agree THEN [yes |-> y + 1, no |-> n] ELSE [yes |-> y, no |-> n + 1]
        BY <4>3
      <4>5. y = Cardinality(Fed!Yes(p)) /\ n = Cardinality(No(p))
        BY <3>2, <4>2
      <4> HIDE DEF counted
      <4> QED BY <4>1, <4>4, <4>5
    <3>4. \A q \in Proposals \ {p} : said'[q] = said[q]
      BY <3>1 DEF VotesInv
    <3> HIDE DEF counted
    <3>5. votes' \in [Proposals -> [yes : Nat, no : Nat]] /\ votes'[p] = counted
          /\ \A q \in Proposals \ {p} : votes'[q] = votes[q]
      BY <3>1, <3>3 DEF VotesInv
    <3>6. Fed!Total' = Fed!Total /\ Fed!Required' = Fed!Required
      BY DEF Fed!Total, Fed!Required
    <3>7. PICK y \in Nat, n \in Nat : y = counted.yes /\ n = counted.no
      BY <3>3
    <3>8. Fed!Total \in Nat /\ Fed!Required \in Nat
      BY Counts
    <3>9. CountsAre(p)'
      <4>1. CASE y >= Fed!Required
        <5>1. proposal'[p] = "confirmed"
          BY <3>1, <3>7, <3>8, <4>1 DEF VotesInv
        <5> QED BY <3>3, <3>5, <3>6, <3>7, <4>1, <5>1 DEF CountsAre
      <4>2. CASE y < Fed!Required /\ n > Fed!Total - Fed!Required
        <5>1. proposal'[p] = "rejected"
          BY <3>1, <3>7, <3>8, <4>2 DEF VotesInv, Fed!RejectedBy
        <5> QED BY <3>3, <3>5, <3>6, <3>7, <4>2, <5>1 DEF CountsAre
      <4>3. CASE y < Fed!Required /\ ~(n > Fed!Total - Fed!Required)
        <5>1. proposal'[p] = "open"
          BY <2>2, <3>1, <3>7, <3>8, <4>3 DEF VotesInv, Fed!RejectedBy
        <5>2. n <= Fed!Total - Fed!Required
          BY <3>7, <3>8, <4>3
        <5> QED BY <3>3, <3>5, <3>6, <3>7, <4>3, <5>1, <5>2 DEF CountsAre
      <4> QED BY <3>7, <3>8, <4>1, <4>2, <4>3
    <3>10. ASSUME NEW q \in Proposals, q # p
           PROVE  CountsAre(q)'
      <4>1. proposal'[q] = proposal[q]
        BY <3>1, <3>10 DEF VotesInv
      <4> QED BY <3>4, <3>5, <3>10, <4>1, CountsStay DEF VotesInv
    <3>11. \A q \in Proposals : CountsAre(q)'
      BY <3>9, <3>10
    <3>12. said' \in [Proposals -> [Instances -> {"nothing", "ignored", "yes", "no"}]]
      BY <3>1 DEF VotesInv
    <3>13. \A q \in Proposals : said'[q][Proposer[q]] = "nothing"
      BY <3>1, <3>4 DEF VotesInv, Proposable
    <3>14. /\ mode' \in [Instances -> Fed!Modes]
           /\ proposal' \in [Proposals -> {"none", "published", "open", "confirmed", "rejected"}]
      <4>1. ModeOf[p] \in Fed!Modes
        BY DEF Proposable
      <4> QED BY <3>1, <4>1 DEF VotesInv
    <3>15. ASSUME NEW j \in Instances, mode'[j] # "none"
           PROVE  \E q \in Proposals :
                     Proposer[q] = j /\ ModeOf[q] = mode'[j] /\ proposal'[q] = "confirmed"
      <4>1. CASE mode'[j] = mode[j]
        <5>1. PICK q \in Proposals : /\ Proposer[q] = j /\ ModeOf[q] = mode[j]
                                     /\ proposal[q] = "confirmed"
          BY <3>15, <4>1 DEF VotesInv
        <5>2. proposal'[q] = "confirmed"
          BY <2>2, <3>1, <5>1 DEF VotesInv
        <5> QED BY <4>1, <5>1, <5>2
      <4>2. CASE mode'[j] # mode[j]
        <5>1. /\ mode' = [mode EXCEPT ![Proposer[p]] = ModeOf[p]]
              /\ proposal' = [proposal EXCEPT ![p] = "confirmed"]
          BY <3>1, <4>2
        <5>2. j = Proposer[p] /\ mode'[j] = ModeOf[p] /\ proposal'[p] = "confirmed"
          BY <4>2, <5>1 DEF VotesInv
        <5> QED BY <5>2
      <4> QED BY <4>1, <4>2
    <3> QED BY <3>5, <3>11, <3>12, <3>13, <3>14, <3>15 DEF VotesInv
  <2> QED BY <2>1, <2>2
<1>5. ASSUME NEW i \in Instances, Fed!Recover(i)
      PROVE  VotesInv'
  <2>1. UNCHANGED <<proposal, votes, said>> /\ mode' = [mode EXCEPT ![i] = "none"]
    BY <1>5 DEF Fed!Recover
  <2>2. \A p \in Proposals : CountsAre(p)'
    BY <2>1, CountsStay DEF VotesInv
  <2>3. mode' \in [Instances -> Fed!Modes]
    BY <2>1 DEF VotesInv, Fed!Modes
  <2>4. \A j \in Instances : mode'[j] # "none" => mode'[j] = mode[j]
    BY <2>1 DEF VotesInv
  <2> QED BY <2>1, <2>2, <2>3, <2>4 DEF VotesInv
<1> QED BY <1>1, <1>2, <1>3, <1>4, <1>5 DEF Fed!VoteNext

VoteSpec == Fed!FederationInit /\ [][Fed!VoteNext]_(Fed!voteVars)

\* The counts are always right.
LEMMA VotesHold ==
    ASSUME Proposable
    PROVE  VoteSpec => []VotesInv
<1>1. Fed!FederationInit => VotesInv
  <2> SUFFICES ASSUME Fed!FederationInit PROVE VotesInv
    OBVIOUS
  <2>1. \A p \in Proposals : CountsAre(p)
    BY DEF Fed!FederationInit, CountsAre
  <2>2. /\ mode \in [Instances -> Fed!Modes]
        /\ \A p \in Proposals : Proposer[p] \in Instances
    BY DEF Fed!FederationInit, Fed!Modes, Proposable
  <2> QED BY <2>1, <2>2 DEF Fed!FederationInit, VotesInv
<1>2. VotesInv /\ [Fed!VoteNext]_(Fed!voteVars) => VotesInv'
  BY VotesStep
<1> QED BY <1>1, <1>2, PTL DEF VoteSpec

\* Of any number of instances that vote on any proposals, recover and vote again, one is
\* degraded only to a mode that it has proposed and more than half of them wanted
\* (ProposeDegradation, VoteOnDegradation).
THEOREM MajorityIsNeeded ==
    ASSUME Proposable
    PROVE  VoteSpec => []Fed!MajorityDegrades
<1>1. VotesInv => Fed!MajorityDegrades
  <2> SUFFICES ASSUME VotesInv, NEW i \in Instances, mode[i] # "none"
               PROVE  \E p \in Proposals : /\ Proposer[p] = i /\ ModeOf[p] = mode[i]
                                            /\ 2 * Cardinality(Fed!Yes(p)) > Fed!Total
    BY SameCardinality DEF Fed!MajorityDegrades
  <2>1. PICK p \in Proposals : /\ Proposer[p] = i /\ ModeOf[p] = mode[i]
                               /\ proposal[p] = "confirmed"
    BY DEF VotesInv
  <2>2. Cardinality(Fed!Yes(p)) >= Fed!Required
    BY <2>1 DEF VotesInv, CountsAre
  <2>3. Fed!Yes(p) \in SUBSET Instances
    BY DEF Fed!Yes, Proposable
  <2>4. PICK y \in Nat : y = Cardinality(Fed!Yes(p))
    BY <2>3, Counts
  <2>5. 2 * y > Fed!Total
    BY <2>2, <2>4, Counts
  <2> QED BY <2>1, <2>4, <2>5
<1> QED BY <1>1, VotesHold, PTL

\* A proposal is rejected only when those who are not against it are no majority, and it
\* is decided when everybody has been heard (VoteOnDegradation).
THEOREM VotesAreDecided ==
    ASSUME Proposable
    PROVE  VoteSpec => []Fed!VotesDecide
<1>1. VotesInv => Fed!VotesDecide
  <2> SUFFICES ASSUME VotesInv, NEW p \in Proposals
               PROVE  /\ proposal[p] = "rejected" => 2 * Cardinality(Instances \ No(p)) <= Fed!Total
                      /\ proposal[p] = "open" /\ Fed!Total > 1 => Fed!Counted(p) # Instances
    BY SameCardinality DEF Fed!VotesDecide, No
  <2>1. /\ Fed!Yes(p) \in SUBSET Instances /\ No(p) \in SUBSET Instances
        /\ Fed!Yes(p) \cap No(p) = {} /\ Fed!Counted(p) = Fed!Yes(p) \cup No(p)
        /\ Instances = No(p) \cup (Instances \ No(p))
        /\ No(p) \cap (Instances \ No(p)) = {}
    BY DEF VotesInv, Fed!Yes, No, Fed!Counted, Proposable
  <2>2. PICK y \in Nat, n \in Nat, r \in Nat :
            /\ y = Cardinality(Fed!Yes(p)) /\ n = Cardinality(No(p))
            /\ r = Cardinality(Instances \ No(p))
    BY <2>1, Counts
  <2>3. n + r = Fed!Total
    <3>1. Cardinality(No(p) \cup (Instances \ No(p))) =
              Cardinality(No(p)) + Cardinality(Instances \ No(p))
                - Cardinality(No(p) \cap (Instances \ No(p)))
      BY <2>1, Counts, FS_Union
    <3>2. Cardinality(Instances) = n + r - 0
      BY <2>1, <2>2, <3>1, FS_EmptySet, Zenon
    <3> QED BY <3>2, SameCardinality DEF Fed!Total
  <2>4. Cardinality(Fed!Counted(p)) = y + n
    <3>1. Cardinality(Fed!Yes(p) \cup No(p)) =
              Cardinality(Fed!Yes(p)) + Cardinality(No(p)) - Cardinality(Fed!Yes(p) \cap No(p))
      BY <2>1, Counts, FS_Union
    <3> QED BY <2>1, <2>2, <3>1, FS_EmptySet
  <2>5. ASSUME proposal[p] = "rejected"
        PROVE  2 * r <= Fed!Total
    <3>1. n > Fed!Total - Fed!Required
      BY <2>2, <2>5 DEF VotesInv, CountsAre
    <3> QED BY <2>3, <3>1, Counts
  <2>6. ASSUME proposal[p] = "open", Fed!Total > 1
        PROVE  Fed!Counted(p) # Instances
    <3>1. y < Fed!Required /\ n <= Fed!Total - Fed!Required
      BY <2>2, <2>6 DEF VotesInv, CountsAre
    <3>2. y + n # Fed!Total
      BY <3>1, Counts
    <3> QED BY <2>4, <3>2, SameCardinality DEF Fed!Total
  <2> QED BY <2>2, <2>5, <2>6
<1> QED BY <1>1, VotesHold, PTL

-----------------------------------------------------------------------------
(* The rounds of the guardian. *)

\* Scores, what is known of agents, and counts are numbers.
Measured ==
    /\ Scores \subseteq Int /\ Yellow \in Int /\ Orange \in Int /\ Red \in Int
    /\ Drifts \subseteq [baseline : Int, success : Int, usual : Int, duration : Int,
                         otherPhase : BOOLEAN, executed : SUBSET STRING,
                         allowed : SUBSET STRING, tasks : Nat]
    /\ MaxErrors \in Nat /\ MaxClock \in Nat

Decided == {"cooldown", "send", "record", "done"}

\* The score that a round compares with, what it decides, and what it keeps silent about.
GuardInv ==
    /\ gPc \in [Callers -> {"idle", "previous", "judge", "store", "flag"} \cup Decided]
    /\ input \in [Callers -> [score : Int, drift : 0 .. 100, quarantine : BOOLEAN,
                              errors : Nat, healthy : BOOLEAN]]
    /\ before \in [Callers -> Int]
    /\ level \in [Callers -> 1 .. 4] /\ decision \in [Callers -> 1 .. 4]
    /\ lastAlert \in [1 .. 4 -> Int] /\ clock \in Nat
    /\ outcome \in [Callers -> {"none", "clear", "suppressed", "sent"}]
    /\ previous \in Int /\ hasPrevious \in BOOLEAN
    /\ hasPrevious => previous \in published
    /\ \A c \in Callers :
          /\ gPc[c] = "previous" => hasPrevious
          /\ gPc[c] = "flag" => previous \in published
          /\ gPc[c] \in Decided => decision[c] = Guard!Evaluate(level[c], input[c])
          /\ gPc[c] # "done" => outcome[c] = "none"
    /\ \A a \in 1 .. 4 : lastAlert[a] # Guard!None =>
          \E d \in Callers : outcome[d] = "sent" /\ decision[d] = a
    /\ Guard!PreviousIsReal
    /\ Guard!SuppressedWasSaid

\* What the detector says of an agent.
LEMMA DriftIsScored ==
    ASSUME Measured, NEW d \in Drifts
    PROVE  Guard!Detect(d).drift \in 0 .. 100 /\ Guard!Detect(d).quarantine \in BOOLEAN
<1>1. /\ d.baseline \in Int /\ d.success \in Int /\ d.usual \in Int /\ d.duration \in Int
      /\ d.otherPhase \in BOOLEAN
  BY DEF Measured
<1>2. \A v \in Int : Guard!Clamp(v) \in 0 .. 100
  BY DEF Guard!Clamp
<1>3. Guard!DriftScore(d) \in 0 .. 100
  <2> DEFINE slower == IF d.duration > d.usual /\ d.usual > 0
                       THEN ((d.duration - d.usual) * 25) \div d.usual ELSE 0
             worse == IF d.baseline > d.success THEN ((d.baseline - d.success) * 35) \div 100 ELSE 0
             strange == IF d.otherPhase THEN 15 ELSE 0
             over == IF Guard!Overreach(d) THEN 40 ELSE 0
  <2>1. slower \in Int
    <3>1. ASSUME NEW x \in Int, NEW y \in Int, y > 0
          PROVE  x \div y \in Int
      BY <3>1
    <3>2. PICK x \in Int : x = (d.duration - d.usual) * 25
      BY <1>1
    <3> QED BY <1>1, <3>1, <3>2
  <2>2. worse \in Int /\ strange \in Int /\ over \in Int
    BY <1>1
  <2>3. Guard!DriftScore(d) = Guard!Clamp(worse + slower + strange + over)
    BY DEF Guard!DriftScore
  <2> HIDE DEF slower, worse, strange, over
  <2> QED BY <1>2, <2>1, <2>2, <2>3
<1>4. Guard!Overreach(d) \in BOOLEAN
  BY DEF Guard!Overreach
<1>5. (Guard!DriftScore(d) > 70 \/ Guard!Overreach(d)) \in BOOLEAN
  BY <1>4, Zenon
<1>6. CASE d.tasks = 0
  BY <1>6 DEF Guard!Detect
<1>7. CASE d.tasks # 0
  <2>1. Guard!Detect(d) = [drift |-> Guard!DriftScore(d),
                     quarantine |-> Guard!DriftScore(d) > 70 \/ Guard!Overreach(d)]
    BY <1>7 DEF Guard!Detect
  <2>2. PICK q \in BOOLEAN : q = (Guard!DriftScore(d) > 70 \/ Guard!Overreach(d))
    BY <1>5, Zenon
  <2>3. Guard!Detect(d) = [drift |-> Guard!DriftScore(d), quarantine |-> q]
    BY <2>1, <2>2, Zenon
  <2> QED BY <1>3, <2>3
<1> QED BY <1>6, <1>7

\* There are four levels
LEMMA LevelIsOne ==
    ASSUME NEW v
    PROVE  Guard!LevelOf(v) \in 1 .. 4
BY DEF Guard!LevelOf

\* and four decisions.
LEMMA DecisionIsOne ==
    ASSUME NEW lvl, NEW in
    PROVE  Guard!Evaluate(lvl, in) \in 1 .. 4
BY DEF Guard!Evaluate

\* No step of a round, of the clock or of the reader undoes it.
LEMMA GuardStep ==
    ASSUME Measured, GuardInv, [Guard!Next]_(Guard!vars)
    PROVE  GuardInv'
<1>1. CASE UNCHANGED Guard!vars
  BY <1>1 DEF Guard!vars, Guard!watcherVars, Guard!alertVars, GuardInv, Guard!PreviousIsReal,
     Guard!SuppressedWasSaid
<1>2. ASSUME NEW c \in Callers, NEW score \in Scores, NEW d \in Drifts,
             NEW errors \in 0 .. MaxErrors, NEW h \in BOOLEAN, Guard!Begin(c, score, d, errors, h)
      PROVE  GuardInv'
  <2>1. /\ gPc[c] = "idle"
        /\ gPc' = [gPc EXCEPT ![c] = IF hasPrevious THEN "previous" ELSE "judge"]
        /\ input' = [input EXCEPT ![c] =
              [score |-> score, drift |-> Guard!Detect(d).drift,
               quarantine |-> Guard!Detect(d).quarantine, errors |-> errors, healthy |-> h]]
        /\ UNCHANGED <<Guard!watcherVars, before, level, decision, clock, Guard!alertVars>>
    BY <1>2 DEF Guard!Begin, Guard!Goto
  <2>2. [score |-> score, drift |-> Guard!Detect(d).drift, quarantine |-> Guard!Detect(d).quarantine,
         errors |-> errors, healthy |-> h]
            \in [score : Int, drift : 0 .. 100, quarantine : BOOLEAN, errors : Nat,
                 healthy : BOOLEAN]
    <3>1. score \in Int /\ errors \in Nat
      BY DEF Measured
    <3> QED BY <3>1, DriftIsScored
  <2>3. /\ gPc' \in [Callers -> {"idle", "previous", "judge", "store", "flag"} \cup Decided]
        /\ input' \in [Callers -> [score : Int, drift : 0 .. 100, quarantine : BOOLEAN,
                                   errors : Nat, healthy : BOOLEAN]]
    BY <2>1, <2>2 DEF GuardInv
  <2>4. /\ gPc'[c] \in {"previous", "judge"} /\ (gPc'[c] = "previous" => hasPrevious)
        /\ \A e \in Callers \ {c} : gPc'[e] = gPc[e] /\ input'[e] = input[e]
    BY <2>1 DEF GuardInv
  <2> QED BY <2>1, <2>3, <2>4 DEF GuardInv, Guard!watcherVars, Guard!alertVars,
     Guard!PreviousIsReal, Guard!SuppressedWasSaid, Decided
<1>3. ASSUME NEW c \in Callers, Guard!LoadPrevious(c)
      PROVE  GuardInv'
  <2>1. /\ gPc[c] = "previous" /\ gPc' = [gPc EXCEPT ![c] = "judge"]
        /\ before' = [before EXCEPT ![c] = previous]
        /\ UNCHANGED <<Guard!watcherVars, input, level, decision, clock, Guard!alertVars>>
    BY <1>3 DEF Guard!LoadPrevious, Guard!Goto
  <2>2. previous \in published
    BY <2>1 DEF GuardInv
  <2>3. Guard!PreviousIsReal'
    BY <2>1, <2>2 DEF GuardInv, Guard!PreviousIsReal, Guard!watcherVars
  <2> QED BY <2>1, <2>3 DEF GuardInv, Guard!watcherVars, Guard!alertVars,
     Guard!SuppressedWasSaid, Decided
<1>4. ASSUME NEW c \in Callers, Guard!Judge(c)
      PROVE  GuardInv'
  <2>1. /\ gPc[c] = "judge" /\ gPc' = [gPc EXCEPT ![c] = "store"]
        /\ level' = [level EXCEPT ![c] = Guard!LevelOf(input[c].score)]
        /\ UNCHANGED <<Guard!watcherVars, input, before, decision, clock, Guard!alertVars>>
    BY <1>4 DEF Guard!Judge, Guard!Goto
  <2>2. level' \in [Callers -> 1 .. 4]
    BY <2>1, LevelIsOne DEF GuardInv
  <2>3. \A e \in Callers \ {c} : gPc'[e] = gPc[e] /\ level'[e] = level[e]
    BY <2>1 DEF GuardInv
  <2> QED BY <2>1, <2>2, <2>3 DEF GuardInv, Guard!watcherVars, Guard!alertVars,
     Guard!PreviousIsReal, Guard!SuppressedWasSaid, Decided
<1>5. ASSUME NEW c \in Callers, Guard!StoreScore(c)
      PROVE  GuardInv'
  <2>1. /\ gPc[c] = "store" /\ gPc' = [gPc EXCEPT ![c] = "flag"]
        /\ previous' = input[c].score
        /\ published' = published \cup {input[c].score}
        /\ UNCHANGED <<hasPrevious, input, before, level, decision, clock, Guard!alertVars>>
    BY <1>5 DEF Guard!StoreScore, Guard!Goto
  <2>2. previous' \in published' /\ published \subseteq published' /\ previous' \in Int
    BY <2>1 DEF GuardInv
  <2>3. Guard!PreviousIsReal'
    BY <2>1, <2>2 DEF GuardInv, Guard!PreviousIsReal
  <2> QED BY <2>1, <2>2, <2>3 DEF GuardInv, Guard!alertVars, Guard!SuppressedWasSaid, Decided
<1>6. ASSUME NEW c \in Callers, Guard!Decide(c)
      PROVE  GuardInv'
  <2>1. /\ gPc[c] = "flag" /\ gPc' = [gPc EXCEPT ![c] = "cooldown"] /\ hasPrevious' = TRUE
        /\ decision' = [decision EXCEPT ![c] = Guard!Evaluate(level[c], input[c])]
        /\ UNCHANGED <<previous, published, input, before, level, clock, Guard!alertVars>>
    BY <1>6 DEF Guard!Decide, Guard!Goto
  <2>2. decision' \in [Callers -> 1 .. 4] /\ decision'[c] = Guard!Evaluate(level[c], input[c])
    BY <2>1, DecisionIsOne DEF GuardInv
  <2>3. /\ outcome[c] = "none" /\ previous \in published
        /\ \A e \in Callers \ {c} : gPc'[e] = gPc[e] /\ decision'[e] = decision[e]
    BY <2>1 DEF GuardInv
  <2>4. Guard!SuppressedWasSaid'
    BY <2>1, <2>3 DEF GuardInv, Guard!SuppressedWasSaid, Guard!alertVars
  <2>5. \A a \in 1 .. 4 : lastAlert'[a] # Guard!None =>
            \E d \in Callers : outcome'[d] = "sent" /\ decision'[d] = a
    BY <2>1, <2>3 DEF GuardInv, Guard!alertVars
  <2> QED BY <2>1, <2>2, <2>3, <2>4, <2>5 DEF GuardInv, Guard!alertVars, Guard!PreviousIsReal,
     Decided
<1>7. ASSUME NEW c \in Callers, Guard!CheckCooldown(c)
      PROVE  GuardInv'
  <2>1. /\ gPc[c] = "cooldown"
        /\ UNCHANGED <<Guard!watcherVars, input, before, level, decision, clock, lastAlert>>
        /\ UNCHANGED <<alerts, lost>>
        /\ \/ gPc' = [gPc EXCEPT ![c] = "done"] /\ outcome' = [outcome EXCEPT ![c] = "clear"]
           \/ /\ gPc' = [gPc EXCEPT ![c] = "done"]
              /\ outcome' = [outcome EXCEPT ![c] = "suppressed"]
              /\ lastAlert[decision[c]] # Guard!None
           \/ gPc' = [gPc EXCEPT ![c] = "send"] /\ outcome' = outcome
    BY <1>7 DEF Guard!CheckCooldown, Guard!Goto
  <2>2. /\ outcome[c] = "none" /\ decision[c] \in 1 .. 4
        /\ \A e \in Callers \ {c} : outcome'[e] = outcome[e] /\ gPc'[e] = gPc[e]
        /\ outcome'[c] # "none" => gPc'[c] = "done"
        /\ gPc'[c] \in Decided
    BY <2>1 DEF GuardInv, Decided
  <2>3. \A a \in 1 .. 4 : lastAlert'[a] # Guard!None =>
            \E d \in Callers : d # c /\ outcome'[d] = "sent" /\ decision'[d] = a
    <3> SUFFICES ASSUME NEW a \in 1 .. 4, lastAlert[a] # Guard!None
                 PROVE  \E d \in Callers : /\ d # c /\ outcome'[d] = "sent"
                                           /\ decision'[d] = a
      BY <2>1
    <3>1. PICK d \in Callers : outcome[d] = "sent" /\ decision[d] = a
      BY DEF GuardInv
    <3> QED BY <2>1, <2>2, <3>1
  <2>4. Guard!SuppressedWasSaid'
    BY <2>1, <2>2, <2>3 DEF GuardInv, Guard!SuppressedWasSaid
  <2>5. /\ gPc' \in [Callers -> {"idle", "previous", "judge", "store", "flag"} \cup Decided]
        /\ outcome' \in [Callers -> {"none", "clear", "suppressed", "sent"}]
    BY <2>1 DEF GuardInv, Decided
  <2> QED BY <2>1, <2>2, <2>3, <2>4, <2>5 DEF GuardInv, Guard!watcherVars, Guard!PreviousIsReal,
     Decided
<1>8. ASSUME NEW c \in Callers, Guard!Send(c)
      PROVE  GuardInv'
  <2>1. /\ gPc[c] = "send" /\ gPc' = [gPc EXCEPT ![c] = "record"]
        /\ UNCHANGED <<Guard!watcherVars, input, before, level, decision, clock>>
        /\ UNCHANGED <<lastAlert, outcome>>
    BY <1>8 DEF Guard!Send, Guard!Goto
  <2> QED BY <2>1 DEF GuardInv, Guard!watcherVars, Guard!PreviousIsReal,
     Guard!SuppressedWasSaid, Decided
<1>9. ASSUME NEW c \in Callers, Guard!RecordAlert(c)
      PROVE  GuardInv'
  <2>1. /\ gPc[c] = "record" /\ gPc' = [gPc EXCEPT ![c] = "done"]
        /\ lastAlert' = [lastAlert EXCEPT ![decision[c]] = clock]
        /\ outcome' = [outcome EXCEPT ![c] = "sent"]
        /\ UNCHANGED <<Guard!watcherVars, input, before, level, decision, clock, alerts, lost>>
    BY <1>9 DEF Guard!RecordAlert, Guard!Goto
  <2>2. /\ outcome[c] = "none" /\ outcome'[c] = "sent"
        /\ \A e \in Callers \ {c} : outcome'[e] = outcome[e] /\ gPc'[e] = gPc[e]
        /\ gPc'[c] = "done"
        /\ \A a \in (1 .. 4) \ {decision[c]} : lastAlert'[a] = lastAlert[a]
    BY <2>1 DEF GuardInv
  <2>3. Guard!SuppressedWasSaid'
    BY <2>1, <2>2 DEF GuardInv, Guard!SuppressedWasSaid
  <2>4. \A a \in 1 .. 4 : lastAlert'[a] # Guard!None =>
            \E d \in Callers : outcome'[d] = "sent" /\ decision'[d] = a
    <3> SUFFICES ASSUME NEW a \in 1 .. 4, lastAlert'[a] # Guard!None
                 PROVE  \E d \in Callers : outcome'[d] = "sent" /\ decision'[d] = a
      OBVIOUS
    <3>1. CASE a = decision[c]
      BY <2>1, <2>2, <3>1
    <3>2. CASE a # decision[c]
      <4>1. PICK d \in Callers : outcome[d] = "sent" /\ decision[d] = a
        BY <2>2, <3>2 DEF GuardInv
      <4> QED BY <2>1, <2>2, <4>1
    <3> QED BY <3>1, <3>2
  <2>5. /\ gPc' \in [Callers -> {"idle", "previous", "judge", "store", "flag"} \cup Decided]
        /\ outcome' \in [Callers -> {"none", "clear", "suppressed", "sent"}]
        /\ lastAlert' \in [1 .. 4 -> Int]
    BY <2>1 DEF GuardInv, Decided
  <2> QED BY <2>1, <2>2, <2>3, <2>4, <2>5 DEF GuardInv, Guard!watcherVars, Guard!PreviousIsReal,
     Decided
<1>10. CASE Guard!Tick \/ Guard!Deliver
  <2>1. /\ clock' \in Nat
        /\ UNCHANGED <<Guard!watcherVars, gPc, input, before, level, decision, lastAlert, outcome>>
    BY <1>10 DEF Guard!Tick, Guard!Deliver, Guard!alertVars, GuardInv
  <2> QED BY <2>1 DEF GuardInv, Guard!watcherVars, Guard!PreviousIsReal, Guard!SuppressedWasSaid
<1> QED BY <1>1, <1>2, <1>3, <1>4, <1>5, <1>6, <1>7, <1>8, <1>9, <1>10 DEF Guard!Next

\* It always holds.
LEMMA GuardHolds ==
    ASSUME Measured
    PROVE  Guard!Spec => []GuardInv
<1>1. Guard!Init => GuardInv
  <2> SUFFICES ASSUME Guard!Init PROVE GuardInv
    OBVIOUS
  <2>1. Guard!Nothing \in [score : Int, drift : 0 .. 100, quarantine : BOOLEAN, errors : Nat,
                      healthy : BOOLEAN] /\ Guard!None \in Int
    BY DEF Guard!Nothing, Guard!None
  <2>2. /\ input \in [Callers -> [score : Int, drift : 0 .. 100, quarantine : BOOLEAN,
                                  errors : Nat, healthy : BOOLEAN]]
        /\ before \in [Callers -> Int] /\ lastAlert \in [1 .. 4 -> Int]
    BY <2>1 DEF Guard!Init
  <2>3. Guard!PreviousIsReal /\ Guard!SuppressedWasSaid
    BY DEF Guard!Init, Guard!PreviousIsReal, Guard!SuppressedWasSaid
  <2>4. /\ \A c \in Callers : gPc[c] = "idle" /\ outcome[c] = "none"
        /\ \A a \in 1 .. 4 : lastAlert[a] = Guard!None
        /\ gPc \in [Callers -> {"idle", "previous", "judge", "store", "flag"} \cup Decided]
        /\ level \in [Callers -> 1 .. 4] /\ decision \in [Callers -> 1 .. 4]
        /\ outcome \in [Callers -> {"none", "clear", "suppressed", "sent"}]
        /\ clock \in Nat /\ previous \in Int /\ hasPrevious = FALSE
    BY DEF Guard!Init
  <2> QED BY <2>2, <2>3, <2>4 DEF GuardInv, Decided
<1>2. GuardInv /\ [Guard!Next]_(Guard!vars) => GuardInv'
  BY GuardStep
<1> QED BY <1>1, <1>2, PTL DEF Guard!Spec

\* However many goroutines share the guardian, a score is compared with one that some
\* round stored, and an alert is suppressed only behind one of its own action
\* (EntropyWatcher.Validate, AlertAdapter.Execute).
THEOREM GuardComparesAndAlerts ==
    ASSUME Measured
    PROVE  Guard!Spec => [](Guard!PreviousIsReal /\ Guard!SuppressedWasSaid)
<1>1. GuardInv => Guard!PreviousIsReal /\ Guard!SuppressedWasSaid
  BY DEF GuardInv
<1> QED BY <1>1, GuardHolds, PTL

\* However the thresholds are set, a round that is worse in every dimension is never
\* answered more mildly (DecisionEngine.evaluate).
THEOREM WorseIsAnsweredHarder ==
    ASSUME Measured
    PROVE  Guard!Spec => []Guard!WorseIsNotMilder
<1>1. GuardInv => Guard!WorseIsNotMilder
  <2> SUFFICES ASSUME GuardInv, NEW c \in Callers, NEW d \in Callers,
                      gPc[c] = "done", gPc[d] = "done", level[c] =< level[d],
                      input[c].drift =< input[d].drift,
                      input[c].quarantine => input[d].quarantine,
                      input[c].errors =< input[d].errors, input[d].healthy => input[c].healthy
               PROVE  decision[c] =< decision[d]
    BY DEF Guard!WorseIsNotMilder
  <2>1. /\ decision[c] = Guard!Evaluate(level[c], input[c])
        /\ decision[d] = Guard!Evaluate(level[d], input[d])
        /\ level[c] \in 1 .. 4 /\ level[d] \in 1 .. 4
        /\ input[c].drift \in Int /\ input[d].drift \in Int
        /\ input[c].errors \in Int /\ input[d].errors \in Int
    <3>1. \A e \in {c, d} : /\ gPc[e] \in Decided /\ level[e] \in 1 .. 4
                            /\ input[e].drift \in 0 .. 100 /\ input[e].errors \in Nat
      BY DEF GuardInv, Decided
    <3>2. \A e \in {c, d} : decision[e] = Guard!Evaluate(level[e], input[e])
      BY <3>1 DEF GuardInv
    <3> QED BY <3>1, <3>2
  <2> QED BY <2>1 DEF Guard!Evaluate
<1> QED BY <1>1, GuardHolds, PTL

-----------------------------------------------------------------------------
(* The migrations of data. *)

\* Migrations are between versions.
Between ==
    /\ Migrations \subseteq Versions \X Versions
    /\ Source \in Versions /\ Target \in Versions

\* A path of registered migrations from the version that the data has.
Along(way, links) ==
    /\ way \in Seq(Versions) /\ way # <<>> /\ way[1] = Source
    /\ \A i \in 1 .. Len(way) - 1 : <<way[i], way[i + 1]>> \in links

\* The versions that were seen: their successors were, or are still to be looked at.
Spreading ==
    /\ Source \in visited /\ Target \notin visited
    /\ \A v \in visited : \/ \E i \in DOMAIN mQueue : v = Data!Last(mQueue[i])
                          \/ \A to \in Data!Successors(v) :
                                to \in visited \/ (to \in neighbors /\ v = Data!Last(entry))

\* How far Migrate has come.
ChainInv ==
    /\ chain \subseteq Versions \X Versions
    /\ visited \subseteq Versions /\ neighbors \subseteq Versions
    /\ mQueue \in Seq(Seq(Versions)) /\ applied \in Seq(Versions \X Versions)
    /\ search \in {"idle", "search", "apply", "done", "failed", "noPath"}
    /\ search = "idle" => neighbors = {}
    /\ search \in {"idle", "search"} => applied = <<>>
    /\ search = "search" =>
          /\ \A i \in DOMAIN mQueue : Along(mQueue[i], chain)
          /\ neighbors # {} => Along(entry, chain)
          /\ neighbors \subseteq Data!Successors(Data!Last(entry))
          /\ Spreading
    /\ search \in {"apply", "done", "failed"} =>
          Along(route, chain) /\ Data!Last(route) = Target /\ Len(route) > 1
    /\ search = "apply" => Len(applied) + 1 < Len(route)
    /\ search = "done" => Len(applied) + 1 = Len(route)
    /\ search \in {"apply", "done"} =>
          \A i \in 1 .. Len(applied) : applied[i] = <<route[i], route[i + 1]>>
    /\ Data!NoWayOut

\* A path goes on over a registered migration.
LEMMA Onwards ==
    ASSUME NEW links, NEW way, Along(way, links), NEW to \in Versions,
           <<Data!Last(way), to>> \in links
    PROVE  /\ Along(Append(way, to), links) /\ Data!Last(Append(way, to)) = to
           /\ Len(Append(way, to)) > 1
<1>1. /\ way \in Seq(Versions) /\ Len(way) \in Nat \ {0} /\ way[1] = Source
      /\ \A i \in 1 .. Len(way) - 1 : <<way[i], way[i + 1]>> \in links
  BY DEF Along
<1> DEFINE on == Append(way, to)
<1>2. /\ on \in Seq(Versions) /\ Len(on) = Len(way) + 1 /\ on[Len(way) + 1] = to
      /\ \A i \in 1 .. Len(way) : on[i] = way[i]
  BY <1>1
<1>3. way[Len(way)] = Data!Last(way)
  BY DEF Data!Last
<1> HIDE DEF on
<1>4. Data!Last(on) = to /\ Len(on) > 1 /\ on # <<>> /\ on[1] = Source
  BY <1>1, <1>2 DEF Data!Last
<1>5. ASSUME NEW i \in 1 .. Len(on) - 1
      PROVE  <<on[i], on[i + 1]>> \in links
  <2>1. CASE i < Len(way)
    <3>1. i \in 1 .. Len(way) - 1 /\ on[i] = way[i] /\ on[i + 1] = way[i + 1]
      BY <1>1, <1>2, <2>1
    <3> QED BY <1>1, <3>1
  <2>2. CASE i = Len(way)
    <3>1. on[i] = Data!Last(way) /\ on[i + 1] = to
      BY <1>1, <1>2, <1>3, <2>2
    <3> QED BY <3>1
  <2> QED BY <1>1, <1>2, <2>1, <2>2
<1>6. Along(on, links)
  BY <1>2, <1>4, <1>5 DEF Along
<1> QED BY <1>4, <1>6 DEF on

\* A migration that is registered before the search changes nothing of it.
LEMMA RegisterKeeps ==
    ASSUME Between, ChainInv, NEW m \in Migrations, Data!RegisterMigration(m[1], m[2])
    PROVE  ChainInv'
<1>1. /\ search = "idle" /\ search' = "idle" /\ chain' = chain \cup {<<m[1], m[2]>>}
      /\ UNCHANGED <<mQueue, entry, neighbors, visited, route, applied>>
  BY DEF Data!RegisterMigration
<1>2. chain' \subseteq Versions \X Versions
  BY <1>1 DEF ChainInv, Between
<1> QED BY <1>1, <1>2 DEF ChainInv, Data!NoWayOut

\* A search begins with the version that the data has.
LEMMA MigrateKeeps ==
    ASSUME Between, ChainInv, Data!Migrate
    PROVE  ChainInv'
<1>1. /\ search = "idle" /\ search' = "search" /\ Source # Target
      /\ mQueue' = <<<<Source>>>> /\ visited' = {Source}
      /\ UNCHANGED <<chain, entry, neighbors, route, applied>>
  BY DEF Data!Migrate
<1>2. neighbors = {} /\ applied = <<>>
  BY <1>1 DEF ChainInv
<1>3. <<Source>> \in Seq(Versions) /\ Len(<<Source>>) = 1 /\ <<Source>>[1] = Source
  BY DEF Between
<1>4. /\ mQueue' \in Seq(Seq(Versions)) /\ DOMAIN mQueue' = {1} /\ mQueue'[1] = <<Source>>
  BY <1>1, <1>3
<1>5. Along(<<Source>>, chain) /\ Data!Last(<<Source>>) = Source
  BY <1>3 DEF Along, Data!Last
<1>6. Spreading'
  BY <1>1, <1>4, <1>5 DEF Spreading, Data!Last
<1>7. visited' \subseteq Versions
  BY <1>1 DEF Between
<1> QED BY <1>1, <1>2, <1>4, <1>5, <1>6, <1>7 DEF ChainInv, Data!NoWayOut

\* The successors of the end of the path that is taken are to be looked at.
LEMMA DequeueKeeps ==
    ASSUME Between, ChainInv, Data!Dequeue
    PROVE  ChainInv'
<1>1. /\ search = "search" /\ search' = "search" /\ neighbors = {} /\ mQueue # <<>>
      /\ entry' = Head(mQueue) /\ mQueue' = Tail(mQueue)
      /\ neighbors' = Data!Successors(Data!Last(Head(mQueue)))
      /\ UNCHANGED <<chain, search, visited, route, applied>>
  BY DEF Data!Dequeue
<1>2. /\ mQueue \in Seq(Seq(Versions)) /\ Head(mQueue) = mQueue[1] /\ 1 \in DOMAIN mQueue
      /\ mQueue' \in Seq(Seq(Versions)) /\ Len(mQueue) \in Nat \ {0}
      /\ DOMAIN mQueue = 1 .. Len(mQueue) /\ DOMAIN mQueue' = 1 .. Len(mQueue) - 1
      /\ \A i \in DOMAIN mQueue' : mQueue'[i] = mQueue[i + 1] /\ i + 1 \in DOMAIN mQueue
  BY <1>1 DEF ChainInv
<1>3. Along(entry', chain) /\ \A i \in DOMAIN mQueue' : Along(mQueue'[i], chain)
  <2>1. \A i \in DOMAIN mQueue : Along(mQueue[i], chain)
    BY <1>1 DEF ChainInv
  <2> QED BY <1>1, <1>2, <2>1
<1>4. neighbors' \subseteq Versions
  BY <1>1 DEF Data!Successors
<1>5. ASSUME NEW v \in visited
      PROVE  \/ \E i \in DOMAIN mQueue' : v = Data!Last(mQueue'[i])
             \/ \A to \in Data!Successors(v) :
                   to \in visited \/ (to \in neighbors' /\ v = Data!Last(entry'))
  <2>1. CASE \E i \in DOMAIN mQueue : v = Data!Last(mQueue[i])
    <3>1. PICK i \in DOMAIN mQueue : v = Data!Last(mQueue[i])
      BY <2>1
    <3>2. CASE i = 1
      BY <1>1, <1>2, <3>1, <3>2
    <3>3. CASE i # 1
      <4>1. i - 1 \in DOMAIN mQueue' /\ mQueue'[i - 1] = mQueue[i]
        BY <1>2, <3>3
      <4> QED BY <3>1, <4>1
    <3> QED BY <3>2, <3>3
  <2>2. CASE \A to \in Data!Successors(v) : to \in visited
    BY <2>2
  <2> QED BY <1>1, <2>1, <2>2 DEF ChainInv, Spreading
<1>6. Spreading'
  BY <1>1, <1>5 DEF ChainInv, Spreading, Data!Successors
<1>7. /\ chain' = chain /\ visited' = visited /\ route' = route /\ applied' = applied
      /\ neighbors' \subseteq Data!Successors(Data!Last(entry'))
  BY <1>1, <1>2
<1>8. Data!NoWayOut'
  BY <1>1 DEF Data!NoWayOut
<1> QED BY <1>1, <1>2, <1>3, <1>4, <1>6, <1>7, <1>8 DEF ChainInv, Data!Successors

\* A successor is a new path, or the end.
LEMMA LookKeeps ==
    ASSUME Between, ChainInv, NEW to \in Versions, Data!Look(to)
    PROVE  ChainInv'
<1>1. /\ search = "search" /\ to \in neighbors /\ neighbors' = neighbors \ {to}
      /\ UNCHANGED <<chain, entry, applied>>
      /\ \/ to \in visited /\ UNCHANGED <<search, mQueue, visited, route>>
         \/ /\ to = Target /\ route' = Append(entry, to) /\ search' = "apply"
            /\ UNCHANGED <<mQueue, visited>>
         \/ /\ to # Target /\ visited' = visited \cup {to}
            /\ mQueue' = Append(mQueue, Append(entry, to))
            /\ UNCHANGED <<search, route>>
  BY DEF Data!Look
<1>2. /\ Along(entry, chain) /\ to \in Data!Successors(Data!Last(entry))
      /\ Spreading /\ applied = <<>>
      /\ \A i \in DOMAIN mQueue : Along(mQueue[i], chain)
  BY <1>1 DEF ChainInv
<1>3. /\ Along(Append(entry, to), chain) /\ Data!Last(Append(entry, to)) = to
      /\ Len(Append(entry, to)) > 1
  BY <1>2, Onwards DEF Data!Successors
<1>4. /\ chain' \subseteq Versions \X Versions /\ neighbors' \subseteq Versions
      /\ neighbors' \subseteq Data!Successors(Data!Last(entry))
      /\ \A v \in Versions : Data!Successors(v)' = Data!Successors(v)
      /\ applied' = <<>> /\ applied' \in Seq(Versions \X Versions)
      /\ mQueue \in Seq(Seq(Versions)) /\ visited \subseteq Versions
      /\ Data!Successors(Data!Last(entry))' = Data!Successors(Data!Last(entry))
  BY <1>1, <1>2 DEF ChainInv, Data!Successors
<1>5. CASE to \in visited /\ UNCHANGED <<search, mQueue, visited, route>>
  <2>1. Spreading'
    <3>1. ASSUME NEW v \in visited
          PROVE  \/ \E i \in DOMAIN mQueue : v = Data!Last(mQueue[i])
                 \/ \A on \in Data!Successors(v) :
                       on \in visited \/ (on \in neighbors' /\ v = Data!Last(entry))
      BY <1>1, <1>2, <1>5 DEF Spreading
    <3> QED BY <1>1, <1>2, <1>4, <1>5, <3>1 DEF Spreading
  <2> QED BY <1>1, <1>2, <1>4, <1>5, <2>1 DEF ChainInv, Data!NoWayOut
<1>6. CASE /\ to = Target /\ route' = Append(entry, to) /\ search' = "apply"
           /\ UNCHANGED <<mQueue, visited>>
  <2>1. Along(route', chain') /\ Data!Last(route') = Target /\ Len(route') > 1
    BY <1>1, <1>3, <1>6
  <2>2. Len(applied') = 0 /\ Len(applied') + 1 < Len(route')
    BY <1>4, <2>1 DEF Along
  <2> QED BY <1>4, <1>6, <2>1, <2>2 DEF ChainInv, Data!NoWayOut
<1>7. CASE /\ to # Target /\ visited' = visited \cup {to}
           /\ mQueue' = Append(mQueue, Append(entry, to)) /\ UNCHANGED <<search, route>>
  <2>1. Append(entry, to) \in Seq(Versions)
    BY <1>3 DEF Along
  <2>2. /\ mQueue' \in Seq(Seq(Versions)) /\ Len(mQueue) \in Nat
        /\ DOMAIN mQueue = 1 .. Len(mQueue) /\ DOMAIN mQueue' = 1 .. Len(mQueue) + 1
        /\ mQueue'[Len(mQueue) + 1] = Append(entry, to)
        /\ \A i \in DOMAIN mQueue : mQueue'[i] = mQueue[i]
    BY <1>4, <1>7, <2>1
  <2>3. ASSUME NEW i \in DOMAIN mQueue'
        PROVE  Along(mQueue'[i], chain)
    <3>1. CASE i \in DOMAIN mQueue
      BY <1>2, <2>2, <3>1
    <3>2. CASE i = Len(mQueue) + 1
      BY <1>3, <2>2, <3>2
    <3> QED BY <2>2, <3>1, <3>2
  <2>4. ASSUME NEW v \in visited'
        PROVE  \/ \E i \in DOMAIN mQueue' : v = Data!Last(mQueue'[i])
               \/ \A on \in Data!Successors(v) :
                     on \in visited' \/ (on \in neighbors' /\ v = Data!Last(entry))
    <3>1. CASE v = to
      <4>1. Len(mQueue) + 1 \in DOMAIN mQueue' /\ v = Data!Last(mQueue'[Len(mQueue) + 1])
        BY <1>3, <2>2, <3>1
      <4> QED BY <4>1
    <3>2. CASE v # to
      <4>1. v \in visited
        BY <1>7, <3>2
      <4>2. CASE \E i \in DOMAIN mQueue : v = Data!Last(mQueue[i])
        <5>1. PICK i \in DOMAIN mQueue : v = Data!Last(mQueue[i])
          BY <4>2
        <5>2. i \in DOMAIN mQueue' /\ mQueue'[i] = mQueue[i]
          BY <2>2
        <5> QED BY <5>1, <5>2
      <4>3. CASE \A on \in Data!Successors(v) :
                    on \in visited \/ (on \in neighbors /\ v = Data!Last(entry))
        BY <1>1, <1>7, <4>3
      <4> QED BY <1>2, <4>1, <4>2, <4>3 DEF Spreading
    <3> QED BY <3>1, <3>2
  <2>5. Spreading'
    <3>1. visited' \subseteq Versions
      BY <1>4, <1>7
    <3> QED BY <1>1, <1>2, <1>4, <1>7, <2>4, <3>1 DEF Spreading
  <2>6. visited' \subseteq Versions /\ chain' = chain /\ entry' = entry
    BY <1>1, <1>4, <1>7
  <2> QED BY <1>1, <1>2, <1>4, <1>7, <2>2, <2>3, <2>5, <2>6 DEF ChainInv, Data!NoWayOut
<1> QED BY <1>1, <1>5, <1>6, <1>7

\* What was seen has no way out when nothing is left to look at.
LEMMA NoPathKeeps ==
    ASSUME Between, ChainInv, Data!NoPath
    PROVE  ChainInv'
<1>1. /\ search = "search" /\ neighbors = {} /\ mQueue = <<>> /\ search' = "noPath"
      /\ UNCHANGED <<chain, mQueue, entry, neighbors, visited, route, applied>>
  BY DEF Data!NoPath
<1>2. /\ Source \in visited /\ Target \notin visited /\ visited \in SUBSET Versions
      /\ \A v \in visited : Data!Successors(v) \subseteq visited
  BY <1>1 DEF ChainInv, Spreading
<1>3. Data!NoWayOut'
  BY <1>1, <1>2 DEF Data!NoWayOut, Data!Successors
<1> QED BY <1>1, <1>3 DEF ChainInv

\* The migrations are applied along the path.
LEMMA ApplyKeeps ==
    ASSUME Between, ChainInv, Data!Apply
    PROVE  ChainInv'
<1>1. /\ search = "apply"
      /\ UNCHANGED <<chain, mQueue, entry, neighbors, visited, route>>
      /\ \/ /\ applied' = Append(applied,
                            <<route[Len(applied) + 1], route[Len(applied) + 2]>>)
            /\ search' = IF Len(applied) + 2 = Len(route) THEN "done" ELSE "apply"
         \/ applied' = <<>> /\ search' = "failed"
  BY DEF Data!Apply
<1>2. /\ Along(route, chain) /\ Data!Last(route) = Target /\ Len(route) > 1
      /\ applied \in Seq(Versions \X Versions) /\ Len(applied) + 1 < Len(route)
      /\ Len(route) \in Nat /\ Len(applied) \in Nat /\ chain \subseteq Versions \X Versions
      /\ \A i \in 1 .. Len(applied) : applied[i] = <<route[i], route[i + 1]>>
  BY <1>1 DEF ChainInv, Along
<1>3. CASE applied' = <<>> /\ search' = "failed"
  BY <1>1, <1>2, <1>3 DEF ChainInv, Data!NoWayOut
<1>4. CASE /\ applied' = Append(applied, <<route[Len(applied) + 1], route[Len(applied) + 2]>>)
           /\ search' = IF Len(applied) + 2 = Len(route) THEN "done" ELSE "apply"
  <2>1. PICK m \in Versions \X Versions :
            m = <<route[Len(applied) + 1], route[Len(applied) + 2]>>
    <3>1. Len(applied) + 1 \in 1 .. Len(route) - 1 /\ Len(applied) + 1 + 1 = Len(applied) + 2
      BY <1>2
    <3>2. <<route[Len(applied) + 1], route[Len(applied) + 1 + 1]>> \in chain
      BY <1>2, <3>1 DEF Along
    <3> QED BY <1>2, <3>1, <3>2
  <2>2. /\ applied' \in Seq(Versions \X Versions) /\ Len(applied') = Len(applied) + 1
        /\ applied'[Len(applied) + 1] = m
        /\ \A i \in 1 .. Len(applied) : applied'[i] = applied[i]
    BY <1>2, <1>4, <2>1
  <2>3. \A i \in 1 .. Len(applied') : applied'[i] = <<route[i], route[i + 1]>>
    <3> SUFFICES ASSUME NEW i \in 1 .. Len(applied')
                 PROVE  applied'[i] = <<route[i], route[i + 1]>>
      OBVIOUS
    <3>1. CASE i \in 1 .. Len(applied)
      BY <1>2, <2>2, <3>1
    <3>2. CASE i = Len(applied) + 1
      <4>1. i + 1 = Len(applied) + 2
        BY <1>2, <3>2
      <4> QED BY <2>1, <2>2, <3>2, <4>1
    <3> QED BY <1>2, <2>2, <3>1, <3>2
  <2>4. /\ search' = "apply" => Len(applied') + 1 < Len(route)
        /\ search' = "done" => Len(applied') + 1 = Len(route)
        /\ search' \in {"apply", "done"}
    BY <1>2, <1>4, <2>2
  <2> QED BY <1>1, <1>2, <2>2, <2>3, <2>4 DEF ChainInv, Data!NoWayOut
<1> QED BY <1>1, <1>3, <1>4

ChainSpec == Data!ChainInit /\ [][Data!ChainNext]_(Data!chainVars)

\* It always holds.
LEMMA ChainHolds ==
    ASSUME Between
    PROVE  ChainSpec => []ChainInv
<1>1. Data!ChainInit => ChainInv
  BY DEF Data!ChainInit, ChainInv, Data!NoWayOut
<1>2. ChainInv /\ [Data!ChainNext]_(Data!chainVars) => ChainInv'
  <2> SUFFICES ASSUME ChainInv, [Data!ChainNext]_(Data!chainVars) PROVE ChainInv'
    OBVIOUS
  <2>1. CASE UNCHANGED Data!chainVars
    BY <2>1 DEF Data!chainVars, ChainInv, Spreading, Data!Successors, Data!NoWayOut
  <2> QED BY <2>1, RegisterKeeps, MigrateKeeps, DequeueKeeps, LookKeeps, NoPathKeeps, ApplyKeeps
     DEF Data!ChainNext
<1> QED BY <1>1, <1>2, PTL DEF ChainSpec

\* For any versions and any migrations registered between them: the path that Migrate
\* finds is of registered migrations from the one version to the other, the data that it
\* returns has been through all of them in order, and when it finds none there is none:
\* some versions that no migration leads out of have the one and not the other (MigrationChain).
THEOREM MigratesAlongChain ==
    ASSUME Between
    PROVE  ChainSpec => [](Data!RouteIsRegistered /\ Data!DataIsMigrated /\ Data!NoWayOut)
<1>1. ChainInv => Data!RouteIsRegistered /\ Data!DataIsMigrated /\ Data!NoWayOut
  <2> SUFFICES ASSUME ChainInv PROVE Data!RouteIsRegistered /\ Data!DataIsMigrated
    BY DEF ChainInv
  <2>1. Data!RouteIsRegistered
    BY DEF ChainInv, Along, Data!RouteIsRegistered
  <2>2. ASSUME search = "done"
        PROVE  applied = [i \in 1 .. Len(route) - 1 |-> <<route[i], route[i + 1]>>]
    <3>1. /\ applied \in Seq(Versions \X Versions) /\ Len(applied) + 1 = Len(route)
          /\ \A i \in 1 .. Len(applied) : applied[i] = <<route[i], route[i + 1]>>
          /\ route \in Seq(Versions)
      BY <2>2 DEF ChainInv, Along
    <3>2. DOMAIN applied = 1 .. Len(route) - 1 /\ applied = [i \in DOMAIN applied |-> applied[i]]
      BY <3>1
    <3> QED BY <3>1, <3>2
  <2> QED BY <2>1, <2>2 DEF Data!DataIsMigrated
<1> QED BY <1>1, ChainHolds, PTL
=============================================================================
