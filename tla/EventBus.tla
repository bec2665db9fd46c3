------------------------------ MODULE EventBus ------------------------------
(***************************************************************************)
(* EventBus (go-core/eventbus.go): Execute copies the subscriptions of the *)
(* event's type under the read lock, calls the synchronous handlers itself *)
(* one after the other, starts a goroutine for each asynchronous one, and  *)
(* waits for all of them.                                                  *)
(*                                                                         *)
(* The error count is guarded by a mutex in the goroutines and not in the  *)
(* loop that calls the synchronous handlers.  An increment is a read and a *)
(* write, so that the loop's and a goroutine's come between each other.    *)
(* Handlers are external; each returns, with an error or without.          *)
(*                                                                         *)
(* EventBusWorkerPool (eventstore_worker.go), which may run what the bus   *)
(* would start goroutines for, comes second: a queue, the goroutines that  *)
(* take tasks from it, and a Submit that runs the task itself when the     *)
(* queue is full.                                                          *)
(***************************************************************************)
EXTENDS Integers, Sequences, FiniteSets, SequencesExt

CONSTANTS
    Subscribers,   \* subscriptions, each made once and removed at most once
    Async,         \* the subscriptions made by SubscribeAsync
    Publishers,    \* calls of Execute with an event of the one type
    Tasks,         \* the tasks that are submitted to the pool
    Workers,       \* its goroutines
    QueueSize      \* the capacity of taskCh

ASSUME BusAssumption ==
    /\ IsFiniteSet(Workers)
    /\ QueueSize \in Nat
    /\ Tasks \cap {"idle", "returned"} = {}

VARIABLES
    subscriptions, \* the subscriptions of the type, in order
    removed,       \* those that Unsubscribe was called for
    bPc,            \* bPc[p]: the progress of a call
    subs,          \* subs[p]: the copy that it made
    next,          \* next[p]: index of the subscription it is at
    errorCount,    \* errorCount[p]
    loaded,        \* loaded[p]: the count that the loop has read, to add one
    running,       \* running[p]: the goroutines that have not returned
    adding,        \* adding[p]: the one that holds the mutex, and the count it has read
    called,        \* called[p][s]: how often it has called the handler of s
    failures,      \* failures[p]: how many handlers returned an error
    taskCh,        \* the tasks that wait for a worker
    worker,        \* worker[w]: the task that it runs, "idle" or "returned"
    inSubmit,      \* the tasks that their Submit runs
    begun,           \* begun[t]: how often t was begun
    panicked,      \* the tasks that panicked
    poolDone,     \* the context is done
    stop           \* the progress of Stop: "no", "waits" or "returned"

busVars == <<subscriptions, removed, bPc, subs, next, errorCount, loaded, running,
          adding, called, failures>>

subscriptionVars == <<subscriptions, removed>>

BusTypeOK ==
    /\ Range(subscriptions) \subseteq Subscribers
    /\ IsInjective(subscriptions)
    /\ removed \subseteq Subscribers
    /\ removed \cap Range(subscriptions) = {}
    /\ bPc \in [Publishers -> {"start", "loop", "add", "returned"}]
    /\ \A p \in Publishers :
        /\ next[p] \in 1 .. Len(subs[p]) + 1
        /\ errorCount[p] \in 0 .. Len(subs[p])
        /\ running[p] \subseteq Range(subs[p]) \cap Async
        /\ adding[p] \subseteq [by : running[p], count : 0 .. Len(subs[p])]
        /\ Cardinality(adding[p]) <= 1
        /\ called[p] \in [Subscribers -> 0 .. 1]

BusInit ==
    /\ subscriptions = <<>>
    /\ removed = {}
    /\ bPc = [p \in Publishers |-> "start"]
    /\ subs = [p \in Publishers |-> <<>>]
    /\ next = [p \in Publishers |-> 1]
    /\ errorCount = [p \in Publishers |-> 0]
    /\ loaded = [p \in Publishers |-> 0]
    /\ running = [p \in Publishers |-> {}]
    /\ adding = [p \in Publishers |-> {}]
    /\ called = [p \in Publishers |-> [s \in Subscribers |-> 0]]
    /\ failures = [p \in Publishers |-> 0]

callVars == <<bPc, subs, next, errorCount, loaded, running, adding, called, failures>>

\* Subscribe and SubscribeAsync.
Subscribe(s) ==
    /\ s \notin Range(subscriptions) \cup removed
    /\ subscriptions' = Append(subscriptions, s)
    /\ UNCHANGED <<removed, callVars>>

\* The rest keeps its order; an ID is in the list once.
Unsubscribe(s) ==
    /\ \E i \in DOMAIN subscriptions :
        subscriptions[i] = s /\ subscriptions' = RemoveAt(subscriptions, i)
    /\ removed' = removed \cup {s}
    /\ UNCHANGED callVars

Moves(p, step) == bPc' = [bPc EXCEPT ![p] = step]

Copy(p) ==
    /\ bPc[p] = "start"
    /\ subs' = [subs EXCEPT ![p] = subscriptions]
    /\ Moves(p, "loop")
    /\ UNCHANGED <<subscriptionVars, next, errorCount, loaded, running, adding, called, failures>>

At(p) == subs[p][next[p]]

InLoop(p) == bPc[p] = "loop" /\ next[p] <= Len(subs[p])

Call(p, s) == called' = [called EXCEPT ![p][s] = @ + 1]

\* The loop calls a synchronous handler; on an error it reads errorCount.
CallHandler(p) ==
    /\ InLoop(p)
    /\ At(p) \notin Async
    /\ Call(p, At(p))
    /\ \/ /\ next' = [next EXCEPT ![p] = @ + 1]
          /\ UNCHANGED <<bPc, loaded, failures>>
       \/ /\ loaded' = [loaded EXCEPT ![p] = errorCount[p]]
          /\ failures' = [failures EXCEPT ![p] = @ + 1]
          /\ Moves(p, "add")
          /\ UNCHANGED next
    /\ UNCHANGED <<subscriptionVars, subs, errorCount, running, adding>>

AddError(p) ==
    /\ bPc[p] = "add"
    /\ errorCount' = [errorCount EXCEPT ![p] = loaded[p] + 1]
    /\ loaded' = [loaded EXCEPT ![p] = 0]
    /\ next' = [next EXCEPT ![p] = @ + 1]
    /\ Moves(p, "loop")
    /\ UNCHANGED <<subscriptionVars, subs, running, adding, called, failures>>

\* The loop starts a goroutine, whose handler may begin at once.
StartHandler(p) ==
    /\ InLoop(p)
    /\ At(p) \in Async
    /\ Call(p, At(p))
    /\ running' = [running EXCEPT ![p] = @ \cup {At(p)}]
    /\ next' = [next EXCEPT ![p] = @ + 1]
    /\ UNCHANGED <<subscriptionVars, bPc, subs, errorCount, loaded, adding, failures>>

\* An asynchronous handler returns without an error.
HandlerSucceeds(p, s) ==
    /\ s \in running[p]
    /\ \A a \in adding[p] : a.by # s
    /\ running' = [running EXCEPT ![p] = @ \ {s}]
    /\ UNCHANGED <<subscriptionVars, bPc, subs, next, errorCount, loaded, adding, called, failures>>

\* It returns an error: its goroutine locks the mutex and reads the count.
HandlerFails(p, s) ==
    /\ s \in running[p]
    /\ adding[p] = {}
    /\ adding' = [adding EXCEPT ![p] = {[by |-> s, count |-> errorCount[p]]}]
    /\ failures' = [failures EXCEPT ![p] = @ + 1]
    /\ UNCHANGED <<subscriptionVars, bPc, subs, next, errorCount, loaded, running, called>>

HandlerAdds(p) ==
    \E a \in adding[p] :
        /\ errorCount' = [errorCount EXCEPT ![p] = a.count + 1]
        /\ running' = [running EXCEPT ![p] = @ \ {a.by}]
        /\ adding' = [adding EXCEPT ![p] = {}]
        /\ UNCHANGED <<subscriptionVars, bPc, subs, next, loaded, called, failures>>

\* A mutant: a call does not wait for its goroutines.
FinishEarly(p) ==
    /\ bPc[p] = "loop"
    /\ next[p] > Len(subs[p])
    /\ Moves(p, "returned")
    /\ UNCHANGED <<subscriptionVars, subs, next, errorCount, loaded, running, adding, called, failures>>

\* wg.Wait, whether the context is done or not.
Finish(p) ==
    /\ bPc[p] = "loop"
    /\ next[p] > Len(subs[p])
    /\ running[p] = {}
    /\ Moves(p, "returned")
    /\ UNCHANGED <<subscriptionVars, subs, next, errorCount, loaded, running, adding, called, failures>>

BusNext ==
    \/ \E s \in Subscribers : Subscribe(s) \/ Unsubscribe(s)
    \/ \E p \in Publishers :
        \/ Copy(p)
        \/ CallHandler(p)
        \/ AddError(p)
        \/ StartHandler(p)
        \/ \E s \in Subscribers : HandlerSucceeds(p, s) \/ HandlerFails(p, s)
        \/ HandlerAdds(p)
        \/ Finish(p)

BusSpec == BusInit /\ [][BusNext]_busVars

-----------------------------------------------------------------------------
(* EventBusWorkerPool *)

poolVars == <<taskCh, worker, inSubmit, begun, panicked, poolDone, stop>>

PoolTypeOK ==
    /\ Range(taskCh) \subseteq Tasks
    /\ Len(taskCh) <= QueueSize
    /\ worker \in [Workers -> Tasks \cup {"idle", "returned"}]
    /\ panicked \subseteq Tasks
    /\ stop \in {"no", "waits", "returned"}

PoolInit ==
    /\ taskCh = <<>>
    /\ worker = [w \in Workers |-> "idle"]
    /\ inSubmit = {}
    /\ begun = [t \in Tasks |-> 0]
    /\ panicked = {}
    /\ poolDone = FALSE
    /\ stop = "no"

Begin(t) == begun' = [begun EXCEPT ![t] = @ + 1]

\* A task is submitted once; a full queue makes Submit run it.
Submit(t) ==
    /\ begun[t] = 0 /\ t \notin Range(taskCh)
    /\ \/ /\ Len(taskCh) < QueueSize
          /\ taskCh' = Append(taskCh, t)
          /\ UNCHANGED <<inSubmit, begun>>
       \/ /\ Len(taskCh) = QueueSize
          /\ inSubmit' = inSubmit \cup {t}
          /\ Begin(t)
          /\ UNCHANGED taskCh
    /\ UNCHANGED <<worker, panicked, poolDone, stop>>

SubmitEnds(t) ==
    /\ t \in inSubmit
    /\ inSubmit' = inSubmit \ {t}
    /\ UNCHANGED <<taskCh, worker, begun, panicked, poolDone, stop>>

\* A worker that is done with its task selects among the queue and the two
\* channels that end it, of which several may be ready.
TakeTask(w) ==
    /\ worker[w] = "idle"
    /\ taskCh # <<>>
    /\ worker' = [worker EXCEPT ![w] = Head(taskCh)]
    /\ taskCh' = Tail(taskCh)
    /\ Begin(Head(taskCh))
    /\ UNCHANGED <<inSubmit, panicked, poolDone, stop>>

WorkerReturns(w) ==
    /\ worker[w] = "idle"
    /\ poolDone
    /\ worker' = [worker EXCEPT ![w] = "returned"]
    /\ UNCHANGED <<taskCh, inSubmit, begun, panicked, poolDone, stop>>

TaskEnds(w) ==
    /\ worker[w] \in Tasks
    /\ worker' = [worker EXCEPT ![w] = "idle"]
    /\ UNCHANGED <<taskCh, inSubmit, begun, panicked, poolDone, stop>>

\* The deferred recover runs when worker returns, and not when the task does.
TaskPanics(w) ==
    /\ worker[w] \in Tasks
    /\ panicked' = panicked \cup {worker[w]}
    /\ worker' = [worker EXCEPT ![w] = "returned"]
    /\ UNCHANGED <<taskCh, inSubmit, begun, poolDone, stop>>

\* The context that the pool was made with ends.
CancelPool ==
    /\ ~poolDone
    /\ poolDone' = TRUE
    /\ UNCHANGED <<taskCh, worker, inSubmit, begun, panicked, stop>>

Stop ==
    /\ stop = "no"
    /\ poolDone' = TRUE
    /\ stop' = "waits"
    /\ UNCHANGED <<taskCh, worker, inSubmit, begun, panicked>>

\* A mutant: Stop closes the channel and does not wait.
StopUnwaited ==
    /\ stop = "waits"
    /\ stop' = "returned"
    /\ UNCHANGED <<taskCh, worker, inSubmit, begun, panicked, poolDone>>

StopReturns ==
    /\ stop = "waits"
    /\ \A w \in Workers : worker[w] = "returned"
    /\ stop' = "returned"
    /\ UNCHANGED <<taskCh, worker, inSubmit, begun, panicked, poolDone>>

\* What the pool and its callers do by themselves; tasks return or panic.
PoolStep ==
    \/ \E w \in Workers :
        TakeTask(w) \/ WorkerReturns(w) \/ TaskEnds(w) \/ TaskPanics(w)
    \/ \E t \in Tasks : SubmitEnds(t)
    \/ StopReturns

PoolNext ==
    \/ \E t \in Tasks : Submit(t)
    \/ CancelPool
    \/ Stop
    \/ PoolStep

PoolSpec == PoolInit /\ [][PoolNext]_poolVars

-----------------------------------------------------------------------------

Homogeneous(p) == Range(subs[p]) \subseteq Async \/ Range(subs[p]) \cap Async = {}

\* When Execute returns, each handler that was subscribed when it began has been
\* called once and has returned, and no other was called, whoever subscribes or
\* unsubscribes meanwhile.  The error count is exact for handlers of one sort;
\* over both sorts it may miss errors but never invents one.
Reported ==
    \A p \in Publishers : bPc[p] = "returned" =>
        /\ running[p] = {}
        /\ \A s \in Subscribers : called[p][s] = IF s \in Range(subs[p]) THEN 1 ELSE 0
        /\ errorCount[p] <= failures[p]
        /\ Homogeneous(p) => errorCount[p] = failures[p]
        /\ errorCount[p] = 0 => failures[p] = 0

Alive == {w \in Workers : worker[w] # "returned"}

\* No task is begun twice, by a worker or by Submit; once Stop has returned no worker
\* runs one; and the pool has a worker to run what is queued until it is told to end
\* or as many tasks have panicked as it had workers.
PoolHolds ==
    /\ \A t \in Tasks :
        begun[t] + Cardinality({i \in DOMAIN taskCh : taskCh[i] = t}) <= 1
    /\ stop = "returned" => Alive = {}
    /\ Alive = {} => poolDone \/ Cardinality(panicked) >= Cardinality(Workers)

\* Nothing is left to do: no task runs, and none is queued that a worker will take.
PoolAtRest ==
    /\ inSubmit = {}
    /\ \A w \in Workers : worker[w] \notin Tasks
    /\ taskCh # <<>> => Alive = {}
    /\ stop # "waits"

\* eventbus.go: Execute calls the handlers it found once each, waits for all of
\* them and, if they are of one sort, counts their errors.  eventstore_worker.go: no
\* task is run twice or by a pool that was stopped, and a pool keeps a worker unless
\* it is ended or every one of them met a panic.
EventsReported == Reported /\ PoolHolds

\* The comment of Execute: waiting for the handlers makes the report accurate.
ErrorCountIsAccurate ==
    \A p \in Publishers : bPc[p] = "returned" => errorCount[p] = failures[p]
=============================================================================
