------------------------------ MODULE Guardian ------------------------------
(***************************************************************************)
(* One round of the guardian: the EntropyWatcher                           *)
(* (go-core/guardian_entropy_watcher.go) levels a score and compares it    *)
(* with the one before, the DriftDetector (guardian_drift.go) rates an     *)
(* agent, the DecisionEngine weighs both and the AlertAdapter sends what   *)
(* is not in order (guardian_alert.go).  Several goroutines share them.    *)
(*                                                                         *)
(* Rates, scores of drift and their weights are in hundredths.             *)
(*                                                                         *)
(* The guard of the dependencies between pipelines                         *)
(* (go-core/guardian_dependency_guard.go) over its graph                   *)
(* (guardian_dependency_graph.go): DetectCycles colours the nodes depth    *)
(* first, TopologicalSort takes them by their in-degree, DetectRedundant   *)
(* and DetectIslands read a transitive closure.  Each is one section under *)
(* the read lock; Go's maps may be ranged over in any order.  Analyze is   *)
(* three such sections, between which others change the graph.             *)
(***************************************************************************)
EXTENDS Integers, Sequences, SequencesExt, FiniteSets

CONSTANTS
    Callers,
    Scores, Yellow, Orange, Red,   \* of entropy, and the thresholds
    Drifts,          \* what the detector may be given of an agent
    MaxErrors,       \* of a static review
    Cooldown, MaxClock,
    AlertBuffer      \* capacity of the alert channel

VARIABLES
    hasPrevious, previous,   \* the watcher's two atomics
    published,               \* the scores whose Validate has returned or stored
    pc, input, before, level, decision,
    clock, lastAlert,        \* a.lastAlert, by action; -1 for none
    alerts, lost, outcome    \* the channel, alerts that found it full

watcherVars == <<hasPrevious, previous, published>>
alertVars == <<lastAlert, alerts, lost, outcome>>
vars == <<watcherVars, pc, input, before, level, decision, clock, alertVars>>

None == -1
Levels == <<"OK", "Yellow", "Orange", "Red">>
Actions == <<"Allow", "Warn", "Block", "Rollback">>
Nothing == [score |-> None, drift |-> 0, quarantine |-> FALSE, errors |-> 0, healthy |-> TRUE]

TypeOK ==
    /\ hasPrevious \in BOOLEAN /\ previous \in Scores \cup {0}
    /\ published \subseteq Scores /\ clock \in 0 .. MaxClock
    /\ \A c \in Callers :
          /\ pc[c] \in {"idle", "previous", "judge", "store", "flag", "cooldown", "send",
                        "record", "done"}
          /\ level[c] \in 1 .. 4 /\ decision[c] \in 1 .. 4
          /\ outcome[c] \in {"none", "clear", "suppressed", "sent"}
    /\ \A a \in 1 .. 4 : lastAlert[a] \in {None} \cup 0 .. MaxClock
    /\ Len(alerts) =< AlertBuffer

Init ==
    /\ hasPrevious = FALSE /\ previous = 0 /\ published = {}
    /\ pc = [c \in Callers |-> "idle"] /\ input = [c \in Callers |-> Nothing]
    /\ before = [c \in Callers |-> None]
    /\ level = [c \in Callers |-> 1] /\ decision = [c \in Callers |-> 1]
    /\ clock = 0 /\ lastAlert = [a \in 1 .. 4 |-> None]
    /\ alerts = <<>> /\ lost = {} /\ outcome = [c \in Callers |-> "none"]

Goto(c, to) == pc' = [pc EXCEPT ![c] = to]

-----------------------------------------------------------------------------
(* DriftDetector.Execute *)

Clamp(v) == IF v < 0 THEN 0 ELSE IF v > 100 THEN 100 ELSE v

\* detectOverreach: something was executed that is not allowed.
Overreach(d) == d.executed \ d.allowed # {}

\* A drop of the success rate, longer tasks, an unusual phase and overreach add up.
DriftScore(d) ==
    Clamp((IF d.baseline > d.success THEN ((d.baseline - d.success) * 35) \div 100 ELSE 0)
          + (IF d.duration > d.usual /\ d.usual > 0
             THEN ((d.duration - d.usual) * 25) \div d.usual ELSE 0)
          + (IF d.otherPhase THEN 15 ELSE 0)
          + (IF Overreach(d) THEN 40 ELSE 0))

\* An agent that has no tasks is not rated.
Detect(d) ==
    IF d.tasks = 0 THEN [drift |-> 0, quarantine |-> FALSE]
    ELSE [drift |-> DriftScore(d), quarantine |-> DriftScore(d) > 70 \/ Overreach(d)]

-----------------------------------------------------------------------------
(* EntropyWatcher.Validate *)

LevelOf(score) ==
    IF score >= Red THEN 4 ELSE IF score >= Orange THEN 3 ELSE IF score >= Yellow THEN 2 ELSE 1

\* A round begins; loadPreviousScore looks at the flag,
Begin(c, score, d, errors, healthy) ==
    /\ pc[c] = "idle"
    /\ input' = [input EXCEPT ![c] =
          [score |-> score, drift |-> Detect(d).drift, quarantine |-> Detect(d).quarantine,
           errors |-> errors, healthy |-> healthy]]
    /\ Goto(c, IF hasPrevious THEN "previous" ELSE "judge")
    /\ UNCHANGED <<watcherVars, before, level, decision, clock, alertVars>>

\* and when it is set at the score.
LoadPrevious(c) ==
    /\ pc[c] = "previous"
    /\ before' = [before EXCEPT ![c] = previous]
    /\ Goto(c, "judge")
    /\ UNCHANGED <<watcherVars, input, level, decision, clock, alertVars>>

\* Mutant: the flag is set before the score is stored.
JudgeFlagged(c) ==
    /\ pc[c] = "judge"
    /\ level' = [level EXCEPT ![c] = LevelOf(input[c].score)]
    /\ hasPrevious' = TRUE
    /\ Goto(c, "store")
    /\ UNCHANGED <<previous, published, input, before, decision, clock, alertVars>>

Judge(c) ==
    /\ pc[c] = "judge"
    /\ level' = [level EXCEPT ![c] = LevelOf(input[c].score)]
    /\ Goto(c, "store")
    /\ UNCHANGED <<watcherVars, input, before, decision, clock, alertVars>>

\* storePreviousScore: the score, then the flag.
StoreScore(c) ==
    /\ pc[c] = "store"
    /\ previous' = input[c].score
    /\ published' = published \cup {input[c].score}
    /\ Goto(c, "flag")
    /\ UNCHANGED <<hasPrevious, input, before, level, decision, clock, alertVars>>

-----------------------------------------------------------------------------
(* DecisionEngine.evaluate *)

\* Mutant: the errors of the review are weighed after entropy and drift.
EvaluateLate(lvl, in) ==
    IF lvl = 4 \/ in.quarantine THEN 4
    ELSE IF lvl = 3 \/ in.drift > 70 THEN 3
    ELSE IF lvl = 2 \/ in.drift > 30 \/ ~in.healthy THEN 2
    ELSE IF in.errors >= 3 THEN 4
    ELSE IF in.errors >= 1 THEN 3
    ELSE 1

Evaluate(lvl, in) ==
    IF lvl = 4 \/ in.quarantine \/ in.errors >= 3 THEN 4
    ELSE IF lvl = 3 \/ in.drift > 70 \/ in.errors >= 1 THEN 3
    ELSE IF lvl = 2 \/ in.drift > 30 \/ ~in.healthy THEN 2
    ELSE 1

\* The flag is set, and the engine decides.
Decide(c) ==
    /\ pc[c] = "flag"
    /\ hasPrevious' = TRUE
    /\ decision' = [decision EXCEPT ![c] = Evaluate(level[c], input[c])]
    /\ Goto(c, "cooldown")
    /\ UNCHANGED <<previous, published, input, before, level, clock, alertVars>>

-----------------------------------------------------------------------------
(* AlertAdapter.Execute *)

\* Nothing is sent when all is in order, nor within the cooldown of the last alert of
\* the action (isInCooldown, under the lock).
CheckCooldown(c) ==
    /\ pc[c] = "cooldown"
    /\ LET last == lastAlert[decision[c]]
           silent == last # None /\ clock - last < Cooldown
       IN  IF decision[c] = 1
           THEN Goto(c, "done") /\ outcome' = [outcome EXCEPT ![c] = "clear"]
           ELSE IF silent
           THEN Goto(c, "done") /\ outcome' = [outcome EXCEPT ![c] = "suppressed"]
           ELSE Goto(c, "send") /\ UNCHANGED outcome
    /\ UNCHANGED <<watcherVars, input, before, level, decision, clock, lastAlert, alerts, lost>>

\* The channel takes the alert, or is full and the alert is dropped.
Send(c) ==
    /\ pc[c] = "send"
    /\ IF Len(alerts) < AlertBuffer
       THEN alerts' = Append(alerts, decision[c]) /\ UNCHANGED lost
       ELSE lost' = lost \cup {decision[c]} /\ UNCHANGED alerts
    /\ Goto(c, "record")
    /\ UNCHANGED <<watcherVars, input, before, level, decision, clock, lastAlert, outcome>>

\* Mutant: an alert silences the milder actions as well.
RecordWorst(c) ==
    /\ pc[c] = "record"
    /\ lastAlert' = [a \in 1 .. 4 |-> IF a =< decision[c] THEN clock ELSE lastAlert[a]]
    /\ outcome' = [outcome EXCEPT ![c] = "sent"]
    /\ Goto(c, "done")
    /\ UNCHANGED <<watcherVars, input, before, level, decision, clock, alerts, lost>>

\* recordAlert, under the lock again: also what was dropped counts as sent.
RecordAlert(c) ==
    /\ pc[c] = "record"
    /\ lastAlert' = [lastAlert EXCEPT ![decision[c]] = clock]
    /\ outcome' = [outcome EXCEPT ![c] = "sent"]
    /\ Goto(c, "done")
    /\ UNCHANGED <<watcherVars, input, before, level, decision, clock, alerts, lost>>

Tick ==
    /\ clock < MaxClock /\ clock' = clock + 1
    /\ UNCHANGED <<watcherVars, pc, input, before, level, decision, alertVars>>

\* The reader of the channel.
Deliver ==
    /\ alerts # <<>> /\ alerts' = Tail(alerts)
    /\ UNCHANGED <<watcherVars, pc, input, before, level, decision, clock, lastAlert, lost,
                   outcome>>

Next ==
    \/ \E c \in Callers :
          \/ \E score \in Scores, d \in Drifts, errors \in 0 .. MaxErrors, h \in BOOLEAN :
                Begin(c, score, d, errors, h)
          \/ LoadPrevious(c) \/ Judge(c) \/ StoreScore(c) \/ Decide(c)
          \/ CheckCooldown(c) \/ Send(c) \/ RecordAlert(c)
    \/ Tick \/ Deliver

Spec == Init /\ [][Next]_vars

-----------------------------------------------------------------------------

\* A score is compared with one that some round stored, never with the zero of an
\* atomic that is not yet written.
PreviousIsReal == \A c \in Callers : before[c] # None => before[c] \in published

\* A round that is worse in every dimension is never answered more mildly.
WorseIsNotMilder ==
    \A c, d \in Callers :
        /\ pc[c] = "done" /\ pc[d] = "done"
        /\ level[c] =< level[d] /\ input[c].drift =< input[d].drift
        /\ input[c].quarantine => input[d].quarantine
        /\ input[c].errors =< input[d].errors
        /\ input[d].healthy => input[c].healthy
        => decision[c] =< decision[d]

\* An alert that was suppressed follows one of its own action, which was delivered, is
\* in the channel or found it full.
SuppressedWasSaid ==
    \A c \in Callers :
        outcome[c] = "suppressed" =>
            \E d \in Callers \ {c} : outcome[d] = "sent" /\ decision[d] = decision[c]

-----------------------------------------------------------------------------
(* The dependencies between pipelines *)

CONSTANTS Nodes, MaxChanges   \* changes of the graph once Analyze has begun

VARIABLES
    edges, nodes,
    changes, phase,            \* of Analyze
    colour, path, left,        \* of the search: left holds the neighbours to look at
    cycles,
    inDegree, queue, sorted,   \* of the sort
    redundant, islands,
    violations                 \* dg.violations

graphVars == <<edges, nodes>>
searchVars == <<colour, path, left, cycles>>
sortVars == <<inDegree, queue, sorted>>
graphAllVars == <<graphVars, changes, phase, searchVars, sortVars, redundant, islands, violations>>

Neighbours(n) == {m \in Nodes : <<n, m>> \in edges}

GraphTypeOK ==
    /\ edges \subseteq nodes \X nodes
    /\ phase \in {"idle", "search", "searched", "sort", "closed", "done"}
    /\ Range(path) = {n \in Nodes : colour[n] = "gray"}
    /\ \A n \in Nodes : inDegree[n] =< Cardinality(Nodes)
    /\ Len(sorted) + Len(queue) =< Cardinality(Nodes)

GraphInit ==
    /\ edges = {} /\ nodes = {}
    /\ changes = 0 /\ phase = "idle"
    /\ colour = [n \in Nodes |-> "white"] /\ path = <<>> /\ left = [n \in Nodes |-> {}]
    /\ cycles = {}
    /\ inDegree = [n \in Nodes |-> 0] /\ queue = <<>> /\ sorted = <<>>
    /\ redundant = {} /\ islands = {} /\ violations = {}

\* Between the sections of Analyze, up to the bound.
Writable ==
    /\ phase \in {"idle", "searched", "closed"}
    /\ changes' = IF phase = "idle" THEN 0 ELSE changes + 1
    /\ changes' =< MaxChanges

AddEdge(n, m) ==
    /\ Writable /\ <<n, m>> \notin edges
    /\ edges' = edges \cup {<<n, m>>} /\ nodes' = nodes \cup {n, m}
    /\ UNCHANGED <<phase, searchVars, sortVars, redundant, islands, violations>>

\* RemoveEdge forgets no node.
RemoveEdge(n, m) ==
    /\ Writable /\ <<n, m>> \in edges
    /\ edges' = edges \ {<<n, m>>} /\ UNCHANGED nodes
    /\ UNCHANGED <<phase, searchVars, sortVars, redundant, islands, violations>>

-----------------------------------------------------------------------------
(* DetectCycles *)

Visit(n) ==
    /\ colour' = [colour EXCEPT ![n] = "gray"]
    /\ path' = Append(path, n)
    /\ left' = [left EXCEPT ![n] = Neighbours(n)]

DetectCycles ==
    /\ phase = "idle" /\ phase' = "search"
    /\ colour' = [n \in Nodes |-> "white"] /\ cycles' = {}
    /\ UNCHANGED <<graphVars, changes, path, left, sortVars, redundant, islands, violations>>

\* The search starts again from a node that it has not seen,
StartAt(n) ==
    /\ phase = "search" /\ path = <<>>
    /\ n \in nodes /\ colour[n] = "white"
    /\ Visit(n)
    /\ UNCHANGED <<graphVars, changes, phase, cycles, sortVars, redundant, islands, violations>>

\* Mutant: only the edge back to the first node of the path closes a cycle.
LookAtRoot(m) ==
    /\ phase = "search" /\ path # <<>>
    /\ m \in left[Last(path)]
    /\ \/ /\ colour[m] = "white"
          /\ colour' = [colour EXCEPT ![m] = "gray"]
          /\ path' = Append(path, m)
          /\ left' = [left EXCEPT ![m] = Neighbours(m), ![Last(path)] = @ \ {m}]
          /\ UNCHANGED cycles
       \/ /\ colour[m] # "white"
          /\ cycles' = IF m = path[1] THEN cycles \cup {path} ELSE cycles
          /\ left' = [left EXCEPT ![Last(path)] = @ \ {m}]
          /\ UNCHANGED <<colour, path>>
    /\ UNCHANGED <<graphVars, changes, phase, sortVars, redundant, islands, violations>>

\* goes into a white neighbour, takes the path from a gray one on as a cycle,
LookAt(m) ==
    /\ phase = "search" /\ path # <<>>
    /\ m \in left[Last(path)]
    /\ \/ /\ colour[m] = "white"
          /\ colour' = [colour EXCEPT ![m] = "gray"]
          /\ path' = Append(path, m)
          /\ left' = [left EXCEPT ![m] = Neighbours(m), ![Last(path)] = @ \ {m}]
          /\ UNCHANGED cycles
       \/ /\ colour[m] = "gray"
          /\ cycles' = cycles \cup
                {SubSeq(path, CHOOSE i \in DOMAIN path : path[i] = m, Len(path))}
          /\ left' = [left EXCEPT ![Last(path)] = @ \ {m}]
          /\ UNCHANGED <<colour, path>>
       \/ /\ colour[m] = "black"
          /\ left' = [left EXCEPT ![Last(path)] = @ \ {m}]
          /\ UNCHANGED <<colour, path, cycles>>
    /\ UNCHANGED <<graphVars, changes, phase, sortVars, redundant, islands, violations>>

\* and leaves a node whose neighbours it has all looked at.
Leave ==
    /\ phase = "search" /\ path # <<>>
    /\ left[Last(path)] = {}
    /\ colour' = [colour EXCEPT ![Last(path)] = "black"]
    /\ path' = Front(path)
    /\ UNCHANGED <<graphVars, changes, phase, left, cycles, sortVars, redundant, islands, violations>>

SearchEnds ==
    /\ phase = "search" /\ path = <<>> /\ \A n \in nodes : colour[n] = "black"
    /\ phase' = "searched"
    /\ UNCHANGED <<graphVars, changes, searchVars, sortVars, redundant, islands, violations>>

-----------------------------------------------------------------------------
(* TopologicalSort, which Analyze does not call *)

Entering(n) == Cardinality({m \in Nodes : <<m, n>> \in edges})

TopologicalSort ==
    /\ phase = "idle" /\ phase' = "sort"
    /\ inDegree' = [n \in Nodes |-> Entering(n)]
    /\ queue' \in SetToSeqs({n \in nodes : Entering(n) = 0})
    /\ sorted' = <<>>
    /\ UNCHANGED <<graphVars, changes, searchVars, redundant, islands, violations>>

\* The head of the queue is taken; its neighbours lose an entering edge.
Take ==
    /\ phase = "sort" /\ queue # <<>>
    /\ sorted' = Append(sorted, Head(queue))
    /\ inDegree' = [n \in Nodes |->
          IF n \in Neighbours(Head(queue)) THEN inDegree[n] - 1 ELSE inDegree[n]]
    /\ \E freed \in SetToSeqs({n \in Neighbours(Head(queue)) : inDegree[n] = 1}) :
          queue' = Tail(queue) \o freed
    /\ UNCHANGED <<graphVars, changes, phase, searchVars, redundant, islands, violations>>

\* Some nodes are left when the queue is empty: the result is nil.
SortEnds ==
    /\ phase = "sort" /\ queue = <<>>
    /\ sorted' = IF Len(sorted) = Cardinality(nodes) THEN sorted ELSE <<>>
    /\ phase' = "done"
    /\ UNCHANGED <<graphVars, changes, searchVars, inDegree, queue, redundant, islands, violations>>

-----------------------------------------------------------------------------
(* DetectRedundant, DetectIslands and the end of Analyze *)

\* transitiveClosure
Closure(es) ==
    LET paths[n \in 0 .. Cardinality(Nodes)] ==
            IF n = 0 THEN es
            ELSE paths[n - 1] \cup
                 {e \in Nodes \X Nodes :
                     \E k \in Nodes : {<<e[1], k>>, <<k, e[2]>>} \subseteq paths[n - 1]}
    IN  paths[Cardinality(Nodes)]

\* Mutant: the order of the second reachability is swapped.
RedundantSwapped ==
    LET reachable == Closure(edges)
    IN  {e \in edges : \E k \in nodes \ {e[1], e[2]} :
            <<e[1], k>> \in reachable /\ <<e[2], k>> \in reachable}

\* The edges whose ends another node connects.
Redundant ==
    LET reachable == Closure(edges)
    IN  {e \in edges : \E k \in nodes \ {e[1], e[2]} :
            <<e[1], k>> \in reachable /\ <<k, e[2]>> \in reachable}

DetectRedundant ==
    /\ phase = "searched" /\ phase' = "closed"
    /\ redundant' = Redundant
    /\ UNCHANGED <<graphVars, changes, searchVars, sortVars, islands, violations>>

\* The nodes that no edge enters and none leaves; what was found is stored.
DetectIslands ==
    /\ phase = "closed" /\ phase' = "done"
    /\ islands' = {n \in nodes : Neighbours(n) = {} /\ Entering(n) = 0}
    /\ violations' = {[type |-> "cycle", nodes |-> Range(c)] : c \in cycles}
          \cup {[type |-> "redundant", nodes |-> {e[1], e[2]}] : e \in redundant}
          \cup {[type |-> "island", nodes |-> {n}] : n \in islands'}
    /\ UNCHANGED <<graphVars, changes, searchVars, sortVars, redundant>>

GraphNext ==
    \/ \E n, m \in Nodes : AddEdge(n, m) \/ RemoveEdge(n, m)
    \/ DetectCycles \/ Leave \/ SearchEnds
    \/ \E n \in Nodes : StartAt(n) \/ LookAt(n)
    \/ TopologicalSort \/ Take \/ SortEnds
    \/ DetectRedundant \/ DetectIslands

GraphSpec == GraphInit /\ [][GraphNext]_graphAllVars

-----------------------------------------------------------------------------

Cyclic == \E n \in Nodes : <<n, n>> \in Closure(edges)

\* Whatever order the maps are ranged over in, DetectCycles reports cycles of the
\* graph, and some when there are any; TopologicalSort gives nil for the same graphs
\* and else an order that every dependency respects.
CyclesAreFound ==
    /\ phase = "search" => \A c \in cycles : \A i \in DOMAIN c :
          <<c[i], c[(i % Len(c)) + 1]>> \in edges
    /\ phase = "searched" /\ changes = 0 => (cycles # {} <=> Cyclic)
    /\ phase = "sort" => \A i, j \in DOMAIN sorted :
          <<sorted[i], sorted[j]>> \in edges => i < j
    /\ phase = "sort" /\ queue = <<>> => (Range(sorted) = nodes <=> ~Cyclic)

\* The edges that are called redundant, of a graph without cycles, may all be removed:
\* every pipeline still depends on the same ones.
RedundantMayGo ==
    phase = "closed" /\ changes = 0 /\ ~Cyclic => Closure(edges \ redundant) = Closure(edges)
=============================================================================
