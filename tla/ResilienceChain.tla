-------------------------- MODULE ResilienceChain --------------------------
(***************************************************************************)
(* The circuit breaker and the chain of layers around it.                  *)
(*                                                                         *)
(* CircuitBreaker.Run (go-core/patterns_circuit.go) is called from several *)
(* goroutines.  state, failures and lastFailure are atomics without a lock *)
(* around them: every load, store and swap is a step of its own.  Time is  *)
(* one bit: cooled says that the cooldown has passed since lastFailure.    *)
(* The failure count only matters up to Threshold and is saturated there.  *)
(*                                                                         *)
(* ResilienceChain (go-core/patterns_resilience_chain.go) is a RateLimiter *)
(* around a Bulkhead around that CircuitBreaker around a Fallback around   *)
(* the inner Composer: the inner call of the breaker is the Fallback,      *)
(* which runs the primary and, when that fails, the fallback Composer.     *)
(* The rate limiter lets a request through or not (see RateLimiter); the   *)
(* bulkhead is a semaphore.                                                *)
(***************************************************************************)
EXTENDS Naturals, FiniteSets

CONSTANTS
    Callers,    \* goroutines
    Threshold,  \* failures that open the circuit
    BulkheadMax \* places in the semaphore of the chain

ASSUME CircuitAssumption == Threshold \in Nat \ {0} /\ BulkheadMax \in Nat \ {0}

VARIABLES
    state,      \* "closed", "open" or "half_open"
    failures,   \* consecutive failures, saturated at Threshold
    cooled,     \* now - lastFailure > cooldown
    pc,         \* pc[c]: c's next step in Run
    seen,       \* seen[c]: the failure count c has loaded
    healthy     \* the inner Composer has recovered and fails no more

vars == <<state, failures, cooled, pc, seen, healthy>>

TypeOK ==
    /\ state \in {"closed", "open", "half_open"}
    /\ failures \in 0..Threshold
    /\ cooled \in BOOLEAN
    /\ pc \in [Callers -> {"idle", "cooldown", "swap", "reload", "call",
                           "failed", "stamp", "weigh", "judge", "open",
                           "succeeded", "recover", "close"}]
    /\ seen \in [Callers -> 0..Threshold]
    /\ healthy \in BOOLEAN

\* lastFailure starts at 0, far in the past.
Init ==
    /\ state = "closed"
    /\ failures = 0
    /\ cooled = TRUE
    /\ pc = [c \in Callers |-> "idle"]
    /\ seen = [c \in Callers |-> 0]
    /\ healthy = FALSE

Goto(c, from, to) ==
    /\ pc[c] = from
    /\ pc' = [pc EXCEPT ![c] = to]

-----------------------------------------------------------------------------
(* Admission.                                                              *)

LoadState(c) ==
    /\ Goto(c, "idle", IF state = "open" THEN "cooldown" ELSE "call")
    /\ UNCHANGED <<state, failures, cooled, seen, healthy>>

\* Within the cooldown the call is rejected with CIRCUIT_OPEN.
CheckCooldown(c) ==
    /\ Goto(c, "cooldown", IF cooled THEN "swap" ELSE "idle")
    /\ UNCHANGED <<state, failures, cooled, seen, healthy>>

\* Mutant: the caller that opens the circuit half-way is turned away.
SwapAndReject(c) ==
    /\ Goto(c, "swap", IF state = "open" THEN "idle" ELSE "reload")
    /\ state' = IF state = "open" THEN "half_open" ELSE state
    /\ UNCHANGED <<failures, cooled, seen, healthy>>

\* CompareAndSwap(open, half_open).
Swap(c) ==
    /\ Goto(c, "swap", IF state = "open" THEN "call" ELSE "reload")
    /\ state' = IF state = "open" THEN "half_open" ELSE state
    /\ UNCHANGED <<failures, cooled, seen, healthy>>

Reload(c) ==
    /\ Goto(c, "reload", IF state = "open" THEN "idle" ELSE "call")
    /\ UNCHANGED <<state, failures, cooled, seen, healthy>>

-----------------------------------------------------------------------------
(* The inner call, and what its outcome does.                              *)

InnerFails(c) ==
    /\ ~healthy
    /\ Goto(c, "call", "failed")
    /\ UNCHANGED <<state, failures, cooled, seen, healthy>>

InnerSucceeds(c) ==
    /\ Goto(c, "call", "succeeded")
    /\ UNCHANGED <<state, failures, cooled, seen, healthy>>

CountFailure(c) ==
    /\ Goto(c, "failed", "stamp")
    /\ failures' = IF failures < Threshold THEN failures + 1 ELSE failures
    /\ UNCHANGED <<state, cooled, seen, healthy>>

StampFailure(c) ==
    /\ Goto(c, "stamp", "weigh")
    /\ cooled' = FALSE
    /\ UNCHANGED <<state, failures, seen, healthy>>

LoadFailures(c) ==
    /\ Goto(c, "weigh", "judge")
    /\ seen' = [seen EXCEPT ![c] = failures]
    /\ UNCHANGED <<state, failures, cooled, healthy>>

\* Mutant: one failure too many before the circuit opens.
JudgeLate(c) ==
    /\ Goto(c, "judge", IF state = "half_open" THEN "open" ELSE "idle")
    /\ UNCHANGED <<state, failures, cooled, seen, healthy>>

\* A failed probe opens the circuit again, a failure opens it at the threshold.
Judge(c) ==
    /\ Goto(c, "judge", IF state = "half_open" \/ seen[c] >= Threshold THEN "open" ELSE "idle")
    /\ UNCHANGED <<state, failures, cooled, seen, healthy>>

OpenCircuit(c) ==
    /\ Goto(c, "open", "idle")
    /\ state' = "open"
    /\ UNCHANGED <<failures, cooled, seen, healthy>>

ResetFailures(c) ==
    /\ Goto(c, "succeeded", "recover")
    /\ failures' = 0
    /\ UNCHANGED <<state, cooled, seen, healthy>>

\* Mutant: a success is not taken for the probe's.
RecoverNever(c) ==
    /\ Goto(c, "recover", "idle")
    /\ UNCHANGED <<state, failures, cooled, seen, healthy>>

Recover(c) ==
    /\ Goto(c, "recover", IF state = "half_open" THEN "close" ELSE "idle")
    /\ UNCHANGED <<state, failures, cooled, seen, healthy>>

CloseCircuit(c) ==
    /\ Goto(c, "close", "idle")
    /\ state' = "closed"
    /\ UNCHANGED <<failures, cooled, seen, healthy>>

-----------------------------------------------------------------------------

Run(c) ==
    \/ LoadState(c) \/ CheckCooldown(c) \/ Swap(c) \/ Reload(c)
    \/ InnerFails(c) \/ InnerSucceeds(c)
    \/ CountFailure(c) \/ StampFailure(c) \/ LoadFailures(c) \/ Judge(c) \/ OpenCircuit(c)
    \/ ResetFailures(c) \/ Recover(c) \/ CloseCircuit(c)

CooldownPasses ==
    /\ ~cooled
    /\ cooled' = TRUE
    /\ UNCHANGED <<state, failures, pc, seen, healthy>>

ServiceRecovers ==
    /\ ~healthy
    /\ healthy' = TRUE
    /\ UNCHANGED <<state, failures, cooled, pc, seen>>

Next == CooldownPasses \/ ServiceRecovers \/ \E c \in Callers : Run(c)

Spec == Init /\ [][Next]_vars

\* Goroutines are scheduled, they go on calling, and time passes.
FairSpec == Spec /\ WF_vars(CooldownPasses) /\ \A c \in Callers : WF_vars(Run(c))

-----------------------------------------------------------------------------

Quiet == \A c \in Callers : pc[c] = "idle"

\* The half-open state always has a caller on its way to leaving it: once every
\* Run has returned the circuit is open or closed, however the loads and stores
\* of late successes and failures interleave.
ProbeDecides == Quiet => state # "half_open"

\* The circuit opens after Threshold consecutive failures: when every Run has
\* returned, a closed circuit has counted fewer.
OpensAtThreshold == Quiet /\ state = "closed" => failures < Threshold

\* A recovered service is used again: callers that keep calling close the
\* circuit, and it stays closed.
ClosesWhenHealthy == <>[](healthy => state = "closed")

-----------------------------------------------------------------------------
(* ResilienceChain.                                                        *)

VARIABLES
    fallback, \* ResilienceConfig.Fallback: "none", one that is "reliable", or one that "may fail"
    slots,    \* callers that hold a place in the semaphore
    stage,    \* stage[c]: where c's request is, around and inside the breaker
    answer    \* answer[c]: what c's last request returned

chainVars == <<fallback, slots, stage, answer>>
allVars == <<vars, chainVars>>

ChainTypeOK ==
    /\ TypeOK
    /\ fallback \in {"none", "reliable", "may fail"}
    /\ slots \subseteq Callers
    /\ stage \in [Callers -> {"out", "limiter", "bulkhead", "breaker", "inner", "fallback", "release"}]
    /\ answer \in [Callers -> {"none", "value", "degraded", "limited", "full", "cancelled", "open", "error"}]
    /\ \A c \in Callers : stage[c] \in {"out", "limiter", "bulkhead"} => pc[c] = "idle"

ChainInit ==
    /\ Init
    /\ fallback \in {"none", "reliable", "may fail"}
    /\ slots = {}
    /\ stage = [c \in Callers |-> "out"]
    /\ answer = [c \in Callers |-> "none"]

Moves(c, from, to) == stage[c] = from /\ stage' = [stage EXCEPT ![c] = to]

Answers(c, a) == answer' = [answer EXCEPT ![c] = a]

-----------------------------------------------------------------------------

Request(c) ==
    /\ Moves(c, "out", "limiter")
    /\ Answers(c, "none")
    /\ UNCHANGED <<vars, slots>>

\* The outermost layer refuses before anything else is touched.
Limiter(c) ==
    /\ \/ Moves(c, "limiter", "bulkhead") /\ UNCHANGED answer
       \/ Moves(c, "limiter", "out") /\ Answers(c, "limited")
    /\ UNCHANGED <<vars, slots>>

\* A place in the semaphore, or a refusal: at once when it is full, and when the request's
\* context has ended, which the select may prefer to a free place.
Bulkhead(c) ==
    /\ \/ /\ Cardinality(slots) < BulkheadMax
          /\ Moves(c, "bulkhead", "breaker") /\ slots' = slots \cup {c} /\ UNCHANGED answer
       \/ /\ Cardinality(slots) >= BulkheadMax
          /\ Moves(c, "bulkhead", "out") /\ UNCHANGED slots /\ Answers(c, "full")
       \/ Moves(c, "bulkhead", "out") /\ UNCHANGED slots /\ Answers(c, "cancelled")
    /\ UNCHANGED vars

\* The breaker's admission; a rejected request goes back through the bulkhead.
BreakerAdmits(c) ==
    /\ stage[c] = "breaker"
    /\ LoadState(c) \/ CheckCooldown(c) \/ Swap(c) \/ Reload(c)
    /\ \/ pc'[c] = "idle" /\ stage' = [stage EXCEPT ![c] = "release"] /\ Answers(c, "open")
       \/ pc'[c] = "call" /\ stage' = [stage EXCEPT ![c] = "inner"] /\ UNCHANGED answer
       \/ pc'[c] \notin {"idle", "call"} /\ UNCHANGED <<stage, answer>>
    /\ UNCHANGED slots

\* The primary's success is the breaker's.
PrimarySucceeds(c) ==
    /\ stage[c] = "inner"
    /\ InnerSucceeds(c)
    /\ Answers(c, "value")
    /\ UNCHANGED <<slots, stage>>

\* Mutant: the breaker sees the primary's failure, the fallback is outside it.
PrimaryFailsFirst(c) ==
    /\ stage[c] = "inner" /\ pc[c] = "call"
    /\ InnerFails(c) /\ Answers(c, "degraded") /\ UNCHANGED stage
    /\ UNCHANGED slots

\* The Fallback is inside the breaker, which does not hear of the primary's failure but
\* of the Fallback's.
PrimaryFails(c) ==
    /\ stage[c] = "inner" /\ pc[c] = "call"
    /\ IF fallback # "none"
       THEN ~healthy /\ Moves(c, "inner", "fallback") /\ UNCHANGED <<vars, answer>>
       ELSE InnerFails(c) /\ Answers(c, "error") /\ UNCHANGED stage
    /\ UNCHANGED slots

FallbackRuns(c) ==
    /\ Moves(c, "fallback", "inner")
    /\ \/ InnerSucceeds(c) /\ Answers(c, "degraded")
       \/ fallback = "may fail" /\ InnerFails(c) /\ Answers(c, "error")
    /\ UNCHANGED slots

\* What the breaker does with the outcome, until it returns.
BreakerRecords(c) ==
    /\ stage[c] = "inner"
    /\ \/ CountFailure(c) \/ StampFailure(c) \/ LoadFailures(c) \/ Judge(c) \/ OpenCircuit(c)
       \/ ResetFailures(c) \/ Recover(c) \/ CloseCircuit(c)
    /\ stage' = IF pc'[c] = "idle" THEN [stage EXCEPT ![c] = "release"] ELSE stage
    /\ UNCHANGED <<slots, answer>>

\* Mutant: a request that the breaker rejects keeps its place.
ReleaseServed(c) ==
    /\ Moves(c, "release", "out")
    /\ slots' = IF answer[c] = "open" THEN slots ELSE slots \ {c}
    /\ UNCHANGED <<vars, answer>>

\* The deferred receive from the semaphore.
Release(c) ==
    /\ Moves(c, "release", "out")
    /\ slots' = slots \ {c}
    /\ UNCHANGED <<vars, answer>>

ChainRun(c) ==
    \/ Limiter(c) \/ Bulkhead(c) \/ BreakerAdmits(c)
    \/ PrimarySucceeds(c) \/ PrimaryFails(c) \/ FallbackRuns(c)
    \/ BreakerRecords(c) \/ Release(c)

ChainNext ==
    \/ \E c \in Callers : (Request(c) \/ ChainRun(c)) /\ UNCHANGED fallback
    \/ (CooldownPasses \/ ServiceRecovers) /\ UNCHANGED chainVars

ChainSpec == ChainInit /\ [][ChainNext]_allVars

-----------------------------------------------------------------------------

\* The bulkhead isolates: no more than BulkheadMax requests are inside it, and
\* no refusal or error inside keeps a place after its request has returned.
BulkheadHolds ==
    /\ Cardinality({c \in Callers : stage[c] \in {"breaker", "inner", "fallback", "release"}})
          <= BulkheadMax
    /\ \A c \in slots : stage[c] # "out"

\* What the breaker counts of a request is what its caller is told: a failure is counted
\* for an error, a success for a value, the Fallback's too, and nothing for a request
\* that one of the layers has refused (CircuitBreaker.Run, Fallback.Run).
CountedAsAnswered ==
    \A c \in {d \in Callers : stage[d] # "out"} :
        /\ pc[c] \in {"failed", "stamp", "weigh", "judge", "open"} => answer[c] = "error"
        /\ pc[c] \in {"succeeded", "recover", "close"} => answer[c] \in {"value", "degraded"}
        /\ answer[c] \in {"limited", "full", "cancelled", "open"} => pc[c] = "idle"

\* The layers keep apart: places come back, and the breaker's count is of the answers.
ChainHolds == BulkheadHolds /\ CountedAsAnswered
=============================================================================
