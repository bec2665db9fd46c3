---------------------------- MODULE RateLimiter ----------------------------
(***************************************************************************)
(* The rate limiters of go-core.                                           *)
(*                                                                         *)
(* First the atomic token buckets: RateLimiter                             *)
(* (patterns_rate_limiter.go, one bucket, a caller retries when its swap   *)
(* fails) and ShardedRateLimiter (patterns_rate_limiter_sharded.go, a      *)
(* bucket per hash of the key, a failed swap is a refusal).  tokens and    *)
(* lastRefill are separate atomics; every access is a step.                *)
(*                                                                         *)
(* Amounts are in microtokens, Token of them in a token; Second is the     *)
(* number of clock ticks in a second (1e9 in the code); products wrap as   *)
(* signed integers of range -Half .. Half-1 (2^63 in the code).            *)
(*                                                                         *)
(* Then the shares of a global rate (DistributedRateLimiter), and the      *)
(* bucket under a mutex whose callers may wait for their token             *)
(* (TokenBucketRateLimiter).                                               *)
(***************************************************************************)
EXTENDS Integers

CONSTANTS
    Callers, Keys, Shards,
    Shard,               \* Shard[k]: hashKey(k) & 0xFF
    Rate, Capacity,      \* microtokens per second, microtokens
    Token, Second, Half,
    Loop,                \* TRUE: RateLimiter.Run, FALSE: ShardedRateLimiter.Allow
    MaxClock,            \* bound on the clock
    Instances,           \* the instances that share the global rate
    Adjusters,           \* Adjusters[i]: goroutines of instance i that call AdjustQuota
    Expected,            \* the instanceCount the limiters are built with
    GlobalRate,
    Rates                \* microtokens per second that SetRate is called with

ASSUME LimiterAssumption ==
    /\ Shard \in [Keys -> Shards]
    /\ Rate \in Nat \ {0} /\ Capacity \in Nat \ {0}
    /\ Token \in Nat \ {0} /\ Second \in Nat \ {0} /\ Half \in Nat \ {0}
    /\ Loop \in BOOLEAN
    /\ MaxClock \in Nat
    /\ Rates \subseteq Nat /\ Rate \in Rates

VARIABLES
    clock,        \* time.Now().UnixNano()
    tokens,       \* tokens[s]
    lastRefill,   \* lastRefill[s]
    pc, key,      \* pc[c], key[c]: c's next step and the key it asks for
    now, last,    \* now[c], last[c]: the times c has read
    credit,       \* credit[c]: the microtokens c has to add
    seen,         \* seen[c]: the tokens c has read
    granted,      \* granted[s]: requests that shard s let through
    quota,        \* quota[i]: localQuota
    loaded,       \* loaded[g]: the quota that goroutine g has loaded, or Idle
    level,        \* the tokens of a TokenBucketRateLimiter, in microtokens by ticks per second
    lastTime,     \* when they were filled up
    rate,
    doing,        \* doing[c]: the progress of a call of Wait
    wakeAt,       \* wakeAt[c]: the end of its sleep
    allowed       \* the tokens that were taken

vars == <<clock, tokens, lastRefill, pc, key, now, last, credit, seen, granted>>
shared == <<clock, tokens, lastRefill, granted>>

\* The value an int64 holds.
Wrap(x) == ((x + Half) % (2 * Half)) - Half

TypeOK ==
    /\ clock \in Nat
    /\ tokens \in [Shards -> 0..Capacity]
    /\ lastRefill \in [Shards -> 0..clock]
    /\ pc \in [Callers -> {"idle", "now", "load", "swap", "add", "peek", "take"}]
    /\ key \in [Callers -> Keys]
    /\ now \in [Callers -> 0..clock]
    /\ last \in [Callers -> 0..clock]
    /\ credit \in [Callers -> Nat]
    /\ seen \in [Callers -> 0..Capacity]
    /\ granted \in [Shards -> Nat]

Init ==
    /\ clock = 0
    /\ tokens = [s \in Shards |-> Capacity]
    /\ lastRefill = [s \in Shards |-> 0]
    /\ pc = [c \in Callers |-> "idle"]
    /\ key \in [Callers -> Keys]
    /\ now = [c \in Callers |-> 0]
    /\ last = [c \in Callers |-> 0]
    /\ credit = [c \in Callers |-> 0]
    /\ seen = [c \in Callers |-> 0]
    /\ granted = [s \in Shards |-> 0]

ShardOf(c) == Shard[key[c]]

Goto(c, from, to) == pc[c] = from /\ pc' = [pc EXCEPT ![c] = to]

-----------------------------------------------------------------------------

Ask(c, k) ==
    /\ Goto(c, "idle", "now")
    /\ key' = [key EXCEPT ![c] = k]
    /\ UNCHANGED <<shared, now, last, credit, seen>>

(* refillTokens, refillBucket.                                             *)

ReadClock(c) ==
    /\ Goto(c, "now", "load")
    /\ now' = [now EXCEPT ![c] = clock]
    /\ UNCHANGED <<shared, key, last, credit, seen>>

NewTokens(c, since) == Wrap(Rate * (now[c] - since)) \div Second

\* Nothing to add when no time has passed or the product is too small, or
\* negative for having wrapped (Go truncates the quotient, TLA+ rounds it down:
\* both are at most 0 then).
LoadLast(c) ==
    LET since == lastRefill[ShardOf(c)]
        due == now[c] > since /\ NewTokens(c, since) > 0
    IN  /\ Goto(c, "load", IF due THEN "swap" ELSE "peek")
        /\ last' = [last EXCEPT ![c] = since]
        /\ credit' = [credit EXCEPT ![c] = IF due THEN NewTokens(c, since) ELSE 0]
        /\ UNCHANGED <<shared, key, now, seen>>

\* A mutant: the interval is credited by every caller that has seen it.
StoreLast(c) ==
    /\ Goto(c, "swap", "add")
    /\ lastRefill' = [lastRefill EXCEPT ![ShardOf(c)] = now[c]]
    /\ UNCHANGED <<clock, tokens, granted, key, now, last, credit, seen>>

\* CompareAndSwap: the interval is credited once.
SwapLast(c) ==
    LET mine == lastRefill[ShardOf(c)] = last[c]
    IN  /\ Goto(c, "swap", IF mine THEN "add" ELSE "peek")
        /\ lastRefill' = IF mine THEN [lastRefill EXCEPT ![ShardOf(c)] = now[c]] ELSE lastRefill
        /\ credit' = IF mine THEN credit ELSE [credit EXCEPT ![c] = 0]
        /\ UNCHANGED <<clock, tokens, granted, key, now, last, seen>>

\* The load and swap are repeated until the swap succeeds: one atomic addition.
Add(c) ==
    LET sum == tokens[ShardOf(c)] + credit[c]
    IN  /\ Goto(c, "add", "peek")
        /\ tokens' = [tokens EXCEPT ![ShardOf(c)] = IF sum > Capacity THEN Capacity ELSE sum]
        /\ credit' = [credit EXCEPT ![c] = 0]
        /\ UNCHANGED <<clock, lastRefill, granted, key, now, last, seen>>

(* Run, Allow.                                                             *)

\* Less than a token: the request is refused.
Peek(c) ==
    LET current == tokens[ShardOf(c)]
    IN  /\ Goto(c, "peek", IF current < Token THEN "idle" ELSE "take")
        /\ seen' = [seen EXCEPT ![c] = current]
        /\ UNCHANGED <<shared, key, now, last, credit>>

\* A mutant: RateLimiter gives up after one swap.
TakeOnce(c) ==
    LET s == ShardOf(c)
        won == tokens[s] = seen[c]
    IN  /\ Goto(c, "take", "idle")
        /\ tokens' = IF won THEN [tokens EXCEPT ![s] = @ - Token] ELSE tokens
        /\ granted' = IF won THEN [granted EXCEPT ![s] = @ + 1] ELSE granted
        /\ UNCHANGED <<clock, lastRefill, key, now, last, credit, seen>>

Take(c) ==
    LET s == ShardOf(c)
        won == tokens[s] = seen[c]
    IN  /\ Goto(c, "take", IF won \/ ~Loop THEN "idle" ELSE "now")
        /\ tokens' = IF won THEN [tokens EXCEPT ![s] = @ - Token] ELSE tokens
        /\ granted' = IF won THEN [granted EXCEPT ![s] = @ + 1] ELSE granted
        /\ UNCHANGED <<clock, lastRefill, key, now, last, credit, seen>>

Request(c) ==
    \/ ReadClock(c) \/ LoadLast(c) \/ SwapLast(c) \/ Add(c) \/ Peek(c) \/ Take(c)

Tick ==
    /\ clock < MaxClock
    /\ clock' = clock + 1
    /\ UNCHANGED <<tokens, lastRefill, pc, key, now, last, credit, seen, granted>>

Next == Tick \/ \E c \in Callers : Request(c) \/ \E k \in Keys : Ask(c, k)

Spec == Init /\ [][Next]_vars

-----------------------------------------------------------------------------
(* DistributedRateLimiter (patterns_rate_limiter_dist.go): every instance starts with *)
(* its share of the global rate and AdjustQuota moves it by a fifth with its usage.   *)
(* Goroutines of an instance may adjust it concurrently: the load and the store of    *)
(* localQuota are two steps.                                                          *)

quotaVars == <<quota, loaded>>

Idle == GlobalRate + 1

Goroutines == UNION {Adjusters[i] : i \in Instances}

\* Lost updates included, the quota of an instance stays between a twentieth and a
\* half of the global rate.
QuotaTypeOK ==
    /\ quota \in [Instances -> (GlobalRate \div 20)..(GlobalRate \div 2)]
    /\ loaded \in [Goroutines -> 0..Idle]

QuotaInit ==
    /\ quota = [i \in Instances |-> GlobalRate \div Expected]
    /\ loaded = [g \in Goroutines |-> Idle]

\* A mutant: the adjusted quota is not clamped.
Unclamped(q) == q

\* At most half of the global rate, at least a twentieth.
Clamped(q) ==
    IF q > GlobalRate \div 2 THEN GlobalRate \div 2
    ELSE IF q < GlobalRate \div 20 THEN GlobalRate \div 20
    ELSE q

\* A usage between 20% and 80% changes nothing.
LoadQuota(i, g) ==
    /\ loaded[g] = Idle
    /\ loaded' = [loaded EXCEPT ![g] = quota[i]]
    /\ UNCHANGED quota

StoreQuota(i, g) ==
    /\ loaded[g] # Idle
    /\ \E adjusted \in {(loaded[g] * 12) \div 10, (loaded[g] * 8) \div 10} :
          quota' = [quota EXCEPT ![i] = Clamped(adjusted)]
    /\ loaded' = [loaded EXCEPT ![g] = Idle]

AdjustQuota(i, g) == LoadQuota(i, g) \/ StoreQuota(i, g)

QuotaNext == \E i \in Instances : \E g \in Adjusters[i] : AdjustQuota(i, g)

QuotaSpec == QuotaInit /\ [][QuotaNext]_quotaVars

-----------------------------------------------------------------------------
(* TokenBucketRateLimiter (patterns_token_bucket.go).  The code's floats are exact *)
(* here: level is the tokens times Token times Second.                             *)

waitVars == <<level, lastTime, rate, doing, wakeAt, allowed>>

Full == Capacity * Second

WaitTypeOK ==
    /\ level \in 0..Full
    /\ lastTime \in 0..clock
    /\ rate \in Rates
    /\ doing \in [Callers -> {"idle", "ask", "measure", "sleep"}]
    /\ wakeAt \in [Callers -> 0..MaxClock + Second]

WaitInit ==
    /\ level = Full
    /\ lastTime = 0
    /\ rate = Rate
    /\ doing = [c \in Callers |-> "idle"]
    /\ wakeAt = [c \in Callers |-> 0]
    /\ allowed = 0

Refilled ==
    LET sum == level + (clock - lastTime) * rate
    IN  IF sum > Full THEN Full ELSE sum

Enough(n) == Refilled >= n * Token * Second

\* A mutant: a refusal keeps the new tokens and the old time.
AllowNKeepsTime(n) ==
    /\ level' = IF Enough(n) THEN Refilled - n * Token * Second ELSE Refilled
    /\ lastTime' = IF Enough(n) THEN clock ELSE lastTime
    /\ allowed' = IF Enough(n) THEN allowed + n ELSE allowed

AllowN(n) ==
    /\ level' = IF Enough(n) THEN Refilled - n * Token * Second ELSE Refilled
    /\ lastTime' = clock
    /\ allowed' = IF Enough(n) THEN allowed + n ELSE allowed

\* A call that does not wait.
CallAllow(n) ==
    /\ AllowN(n)
    /\ UNCHANGED <<clock, rate, doing, wakeAt>>

Step(c, from, to) == doing[c] = from /\ doing' = [doing EXCEPT ![c] = to]

BeginWait(c) ==
    /\ Step(c, "idle", "ask")
    /\ UNCHANGED <<clock, level, lastTime, rate, wakeAt, allowed>>

WaitAsks(c) ==
    /\ Step(c, "ask", IF Enough(1) THEN "idle" ELSE "measure")
    /\ AllowN(1)
    /\ UNCHANGED <<clock, rate, wakeAt>>

\* The tokens are read anew.  The wait is cut to whole seconds, at most one; none is
\* a millisecond, which is less than a tick.
Measure(c) ==
    LET missing == Token * Second - level
    IN  /\ Step(c, "measure", "sleep")
        /\ wakeAt' = [wakeAt EXCEPT ![c] = clock + IF missing >= rate * Second THEN Second ELSE 0]
        /\ UNCHANGED <<clock, level, lastTime, rate, allowed>>

WakeUp(c) ==
    /\ Step(c, "sleep", "ask")
    /\ clock >= wakeAt[c]
    /\ wakeAt' = [wakeAt EXCEPT ![c] = 0]
    /\ UNCHANGED <<clock, level, lastTime, rate, allowed>>

WaitCancelled(c) ==
    /\ Step(c, "sleep", "idle")
    /\ wakeAt' = [wakeAt EXCEPT ![c] = 0]
    /\ UNCHANGED <<clock, level, lastTime, rate, allowed>>

\* The time that has passed is credited at the new rate.
SetRate(r) ==
    /\ rate' = r
    /\ UNCHANGED <<clock, level, lastTime, doing, wakeAt, allowed>>

WaitTick ==
    /\ clock < MaxClock
    /\ clock' = clock + 1
    /\ UNCHANGED waitVars

WaitNext ==
    \/ \E n \in 1..2 : CallAllow(n)
    \/ \E c \in Callers :
        BeginWait(c) \/ WaitAsks(c) \/ Measure(c) \/ WakeUp(c) \/ WaitCancelled(c)
    \/ \E r \in Rates : SetRate(r)
    \/ WaitTick

WaitSpec == (WaitInit /\ clock = 0) /\ [][WaitNext]_<<clock, waitVars>>

-----------------------------------------------------------------------------

\* A bucket lets through its burst and what the rate has earned since, never
\* more, however refills and requests race.
GrantsBounded ==
    \A s \in Shards : Second * Token * granted[s] <= Second * Capacity + Rate * clock

\* A bucket of which several take and wait lets through its burst and what its
\* greatest rate has earned, also when the rate is set while time has not been
\* credited, when more is asked for than there is, and when sleepers wake at once.
WaitsBounded ==
    \A r \in Rates : (\A q \in Rates : q <= r) =>
        Second * Token * allowed <= Full + r * clock

Refused(c) ==
    pc[c] \in {"peek", "take"} /\ pc'[c] = "idle" /\ granted' = granted

\* A bucket that is asked by one caller at a time refills at its steady rate:
\* after the time of a token it has one.
RefillsWhenDue ==
    \A c \in Callers :
        pc[c] = "peek" /\ tokens[ShardOf(c)] < Token
            => Rate * (now[c] - lastRefill[ShardOf(c)]) < Second * Token
=============================================================================
