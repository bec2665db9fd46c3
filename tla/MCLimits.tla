------------------------------- MODULE MCLimits -------------------------------
(* Small instances of the token buckets, the distributed quota, the idempotent *)
(* port and the Redis lock, one scenario per behaviour.  The lock is used by  *)
(* three processes whose watchdogs are on time, by two that pause and lose    *)
(* commands, and by one that acquires again while it holds it.                *)
EXTENDS RateLimiter, FiniteSets

CONSTANTS c1, c2, c3, k1, k2, g1, g2, g3, l1, l2, l3

VARIABLES
    scenario,
    store, runs, pPc, pKey, result, fresh, reply,
    owner, drawn, value, acquired, lPc, dogs, waits, closed, stopCh, critical

OneShard == [k \in Keys |-> "shard"]

portVars == <<store, runs, pPc, pKey, result, fresh, reply>>
lockVars == <<owner, drawn, value, acquired, lPc, dogs, waits, closed, stopCh, critical>>
limitVars == <<quotaVars, waitVars>>
mcVars == <<scenario, vars, limitVars, portVars, lockVars>>

Overflowing == INSTANCE RateLimiter WITH Half <- 8, MaxClock <- 5
Sharded == INSTANCE RateLimiter WITH Loop <- FALSE, MaxClock <- 2

TwoAndOne == [i \in {c1, c2} |-> IF i = c1 THEN {g1, g2} ELSE {g3}]

Port == INSTANCE IdempotentPort WITH
    Callers <- {c1, c2, c3}, Keys <- {k1, k2}, MaxRuns <- 3, pc <- pPc, key <- pKey

OnTime == INSTANCE RedisLock WITH
    Locks <- {l1, l2, l3}, MaxValue <- 3, Pauses <- FALSE, Nested <- FALSE, Errors <- FALSE,
    pc <- lPc
Paused == INSTANCE RedisLock WITH
    Locks <- {l1, l2, l3}, MaxValue <- 3, Pauses <- TRUE, Nested <- FALSE, Errors <- TRUE,
    pc <- lPc
Again == INSTANCE RedisLock WITH
    Locks <- {l1, l2, l3}, MaxValue <- 3, Pauses <- TRUE, Nested <- TRUE, Errors <- FALSE,
    pc <- lPc

MCInit ==
    /\ scenario \in {"bucket", "sharded", "quota", "waits", "port", "lock", "paused", "again"}
    /\ Init /\ QuotaInit /\ WaitInit /\ Port!Init /\ OnTime!Init

In(s) == scenario = s /\ UNCHANGED scenario

Bucket == In("bucket") /\ Next /\ UNCHANGED <<limitVars, portVars, lockVars>>
ShardedBucket == In("sharded") /\ Sharded!Next /\ UNCHANGED <<limitVars, portVars, lockVars>>
Quotas == In("quota") /\ QuotaNext /\ UNCHANGED <<vars, waitVars, portVars, lockVars>>
Waits ==
    /\ In("waits")
    /\ WaitNext
    /\ UNCHANGED <<tokens, lastRefill, pc, key, now, last, credit, seen, granted>>
    /\ UNCHANGED <<quotaVars, portVars, lockVars>>
Ports == In("port") /\ Port!Next /\ UNCHANGED <<vars, limitVars, lockVars>>
Lock == In("lock") /\ OnTime!Next /\ UNCHANGED <<vars, limitVars, portVars>>
PausedLock ==
    /\ In("paused")
    /\ Paused!Expire \/ \E l \in {l1, l2} : Paused!Use(l) \/ \E d \in 1..3 : Paused!Watchdog(l, d)
    /\ UNCHANGED <<vars, limitVars, portVars>>
LockAgain ==
    /\ In("again")
    /\ Again!Expire \/ Again!Use(l1) \/ \E d \in 1..3 : Again!Watchdog(l1, d)
    /\ UNCHANGED <<vars, limitVars, portVars>>

MCNext ==
    \/ Bucket \/ ShardedBucket
    \/ Quotas \/ Waits \/ Ports
    \/ Lock \/ PausedLock \/ LockAgain

\* The fairness of RedisLock!FairSpec.
Fairness ==
    \A d \in 1..3 :
        WF_mcVars(In("again") /\ Again!Watchdog(l1, d) /\ UNCHANGED <<vars, limitVars, portVars>>)

MCSpec == MCInit /\ [][MCNext]_mcVars /\ Fairness

\* One caller of a bucket whose products overflow within the run's clock.
OverflowNext ==
    /\ In("bucket")
    /\ Overflowing!Tick \/ Overflowing!Request(c1) \/ \E k \in Keys : Overflowing!Ask(c1, k)
    /\ UNCHANGED <<limitVars, portVars, lockVars>>

OverflowSpec == (MCInit /\ scenario = "bucket") /\ [][OverflowNext]_mcVars

-----------------------------------------------------------------------------

\* The type invariants of the five components; a local quota never leaves the range
\* of its clamp (AdjustQuota).
TypesOK ==
    /\ scenario \in {"bucket", "sharded"} => TypeOK
    /\ scenario = "quota" => QuotaTypeOK
    /\ scenario = "waits" => WaitTypeOK
    /\ scenario = "port" => Port!TypeOK
    /\ scenario \in {"lock", "paused", "again"} => Paused!TypeOK

\* "Then refills at a steady rate" (patterns_rate_limiter.go:21), for an idle time
\* of any length.
AlwaysRefills == Overflowing!RefillsWhenDue

\* What is due is granted, and once: RateLimiter.Run refuses only when its bucket is
\* empty (ShardedRateLimiter.Allow also when its only swap fails), and of the concurrent
\* requests with one key every answered one gets the result that is stored for the key,
\* and exactly one gets it as fresh (IdempotentPort.Validate).
GrantedOnce ==
    /\ [](scenario = "port" => Port!AnswersAgree /\ Port!OneFreshAnswer)
    /\ [][scenario = "bucket" =>
            \A c \in Callers : Refused(c) => tokens[ShardOf(c)] < Token]_mcVars

\* Processes with timely watchdogs and a Redis that answers exclude one another, and
\* with pauses and lost commands a Release takes nobody else's key
\* (RedisDistributedLock.Acquire, Release).
LockIsSafe == [](scenario = "lock" => OnTime!MutualExclusion) /\ Paused!ReleasesOnlyOwn

\* The watchdogs of a lock that stays released end (startWatchdog).
LockWatchdogsEnd == scenario = "again" => Again!WatchdogsEnd
=============================================================================
