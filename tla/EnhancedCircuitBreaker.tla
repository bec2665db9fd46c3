----------------------- MODULE EnhancedCircuitBreaker -----------------------
(***************************************************************************)
(* EnhancedCircuitBreaker.Execute (go-core/patterns_circuit_enhanced.go):  *)
(* a sliding window of outcomes under a sync.RWMutex.  Execute takes the   *)
(* lock, admits the call, runs it without the lock, takes the lock again   *)
(* and records the outcome.  After a failure it asks shouldOpen, which     *)
(* calls Stats, which takes the read lock.                                 *)
(***************************************************************************)
EXTENDS Naturals

CONSTANTS
    Callers,
    NoCaller,
    HalfOpenMax,  \* probes admitted while half open
    MaxCount      \* bound on the outcomes in the window; the threshold is one half

VARIABLES
    writer,     \* the holder of the write lock
    readers,    \* the holders of the read lock
    state, halfOpenReqs,
    cooled,     \* cooldownPeriod has passed since openedAt
    successes, failures,   \* of the window's buckets together
    pc

vars == <<writer, readers, state, halfOpenReqs, cooled, successes, failures, pc>>
locks == <<writer, readers>>
window == <<successes, failures>>

TypeOK ==
    /\ writer \in Callers \cup {NoCaller}
    /\ readers \subseteq Callers
    /\ state \in {"closed", "open", "half_open"}
    /\ halfOpenReqs \in 0..HalfOpenMax
    /\ cooled \in BOOLEAN
    /\ successes \in 0..MaxCount /\ failures \in 0..MaxCount
    /\ pc \in [Callers -> {"idle", "admit", "run", "succeeded", "failed", "weigh", "stats",
                           "query", "leave"}]

Init ==
    /\ writer = NoCaller /\ readers = {}
    /\ state = "closed" /\ halfOpenReqs = 0
    /\ cooled = FALSE
    /\ successes = 0 /\ failures = 0
    /\ pc = [c \in Callers |-> "idle"]

Goto(c, from, to) == pc[c] = from /\ pc' = [pc EXCEPT ![c] = to]

\* Lock waits for every other holder, RLock for the writer: sync.RWMutex is not
\* re-entrant, so the writer's own RLock waits for itself.
Lock(c) == writer = NoCaller /\ readers = {} /\ writer' = c /\ UNCHANGED readers
Unlock(c) == writer' = NoCaller /\ UNCHANGED readers
RLock(c) == writer = NoCaller /\ readers' = readers \cup {c} /\ UNCHANGED writer
RUnlock(c) == readers' = readers \ {c} /\ UNCHANGED writer

-----------------------------------------------------------------------------
(* Execute.                                                                *)

Enter(c) ==
    /\ Goto(c, "idle", "admit")
    /\ Lock(c)
    /\ UNCHANGED <<state, halfOpenReqs, cooled, window>>

Admit(c) ==
    LET probing == state = "half_open" \/ (state = "open" /\ cooled)
        probes == IF state = "open" THEN 0 ELSE halfOpenReqs
        admitted == IF probing THEN probes < HalfOpenMax ELSE state = "closed"
    IN  /\ Goto(c, "admit", IF admitted THEN "run" ELSE "idle")
        /\ state' = IF probing THEN "half_open" ELSE state
        /\ halfOpenReqs' = IF probing /\ admitted THEN probes + 1 ELSE halfOpenReqs
        /\ Unlock(c)
        /\ UNCHANGED <<cooled, window>>

Returns(c) ==
    /\ Goto(c, "run", "succeeded") \/ Goto(c, "run", "failed")
    /\ UNCHANGED <<locks, state, halfOpenReqs, cooled, window>>

Counted(n) == IF n < MaxCount THEN n + 1 ELSE n

\* advanceWindow drops the buckets that time since the last failure has passed.
Success(c) ==
    /\ Goto(c, "succeeded", "idle")
    /\ writer = NoCaller /\ readers = {}
    /\ IF state = "half_open"
       THEN state' = "closed" /\ successes' = 0 /\ failures' = 0
       ELSE /\ UNCHANGED state
            /\ \/ successes' = Counted(successes) /\ UNCHANGED failures
               \/ successes' = 1 /\ failures' = 0
    /\ UNCHANGED <<locks, halfOpenReqs, cooled>>

Failure(c) ==
    /\ Goto(c, "failed", IF state = "open" THEN "leave" ELSE "stats")
    /\ Lock(c)
    /\ \/ failures' = Counted(failures) /\ UNCHANGED successes
       \/ failures' = 1 /\ successes' = 0
    /\ UNCHANGED <<state, halfOpenReqs, cooled>>

\* shouldOpen calls Stats with the write lock held.
StatsInside(c) ==
    /\ Goto(c, "stats", "weigh")
    /\ RLock(c)
    /\ UNCHANGED <<state, halfOpenReqs, cooled, window>>

Weigh(c) ==
    /\ Goto(c, "weigh", "leave")
    /\ RUnlock(c)
    /\ IF 2 * failures >= successes + failures
       THEN state' = "open" /\ cooled' = FALSE
       ELSE UNCHANGED <<state, cooled>>
    /\ UNCHANGED <<halfOpenReqs, window>>

Leave(c) ==
    /\ Goto(c, "leave", "idle")
    /\ Unlock(c)
    /\ UNCHANGED <<state, halfOpenReqs, cooled, window>>

Execute(c) ==
    \/ Admit(c) \/ Returns(c) \/ Success(c) \/ Failure(c)
    \/ StatsInside(c) \/ Weigh(c) \/ Leave(c)

-----------------------------------------------------------------------------

\* State and Stats, called from outside.
Query(c) ==
    /\ \/ Goto(c, "idle", "query") /\ RLock(c)
       \/ Goto(c, "query", "idle") /\ RUnlock(c)
    /\ UNCHANGED <<state, halfOpenReqs, cooled, window>>

Reset(c) ==
    /\ pc[c] = "idle" /\ writer = NoCaller /\ readers = {}
    /\ state' = "closed" /\ halfOpenReqs' = 0 /\ successes' = 0 /\ failures' = 0
    /\ UNCHANGED <<locks, cooled, pc>>

CooldownPasses ==
    /\ ~cooled
    /\ cooled' = TRUE
    /\ UNCHANGED <<locks, state, halfOpenReqs, window, pc>>

Next == CooldownPasses \/ \E c \in Callers : Enter(c) \/ Execute(c) \/ Query(c) \/ Reset(c)

\* Every goroutine that has entered a call runs.
FairSpec ==
    /\ Init /\ [][Next]_vars
    /\ \A c \in Callers : SF_vars(Execute(c)) /\ SF_vars(Query(c) /\ pc[c] = "query")

-----------------------------------------------------------------------------

\* "If the operation succeeds, a success is recorded; if it fails, a failure":
\* a call whose operation failed records it and returns.
FailureIsRecorded == \A c \in Callers : pc[c] = "failed" ~> pc[c] = "idle"
=============================================================================
