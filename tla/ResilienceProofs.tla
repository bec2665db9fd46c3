-------------------------- MODULE ResilienceProofs --------------------------
(***************************************************************************)
(* Theorems about ResilienceChain, for any callers, threshold and number   *)
(* of places in the bulkhead.                                              *)
(*                                                                         *)
(* The breaker alone: its types, that a half-open circuit is always left   *)
(* again, and that a single caller meets the threshold exactly.  The       *)
(* chain: where a request stands in it says what the breaker may be doing  *)
(* for it (ChainInv), so that every step of the chain is a step of the     *)
(* breaker or leaves it alone; what holds of the breaker therefore holds   *)
(* inside the chain.  The breaker that instances share, Shared, and the    *)
(* middleware that requests pass on their way in with its audit chain,     *)
(* Guard, follow, and at the end the composers, Comp: branches that run in *)
(* parallel, retries, and calls that are kept apart.                       *)
(***************************************************************************)
EXTENDS ResilienceChain, Integers, Sequences, FiniteSetTheorems, WellFoundedInduction, TLAPS

CONSTANTS Instances, MinRequestCount, MaxCount, Resets   \* of GlobalCircuitBreaker
VARIABLES circuit, failed, succeeded, elapsed, at, announced, well
Shared == INSTANCE GlobalCircuitBreaker WITH
    state <- circuit, failures <- failed, successes <- succeeded, cooled <- elapsed,
    pc <- at, healthy <- well

CONSTANTS
    Requests, Tokens, Outliving, Keys, Users, UserOf, Roles, Parents, Grants,  \* of Security
    MaxChanges, Contents, NoHash, MaxEntries, Holders
VARIABLES
    issued, expired, revoked, aged, forgotten, known, roles, assigned, changes,
    point, with, candidates, user, tooLate, fine, entries, root, proofs, damaged
Guard == INSTANCE Security WITH pc <- point, seen <- candidates

CONSTANTS Branches, StepCount, MaxAttempts, Clients, Interval, MaxClock   \* of Composers
VARIABLES
    kind, ctx, pipe, did, channel, closed, results, outcome, attempt, timer, tried,
    clock, last, deadline, calls
Comp == INSTANCE Composers WITH Callers <- Clients, answer <- outcome

-----------------------------------------------------------------------------
(* The circuit breaker.                                                    *)

\* Every load, store and swap keeps the types.
LEMMA TypesKept == TypeOK /\ [Next]_vars => TypeOK'
<1>. SUFFICES ASSUME TypeOK, [Next]_vars PROVE TypeOK'
    OBVIOUS
<1>. USE CircuitAssumption DEF CircuitAssumption, TypeOK, Goto
<1>1. ASSUME NEW c \in Callers, LoadState(c) \/ CheckCooldown(c) \/ Swap(c) \/ Reload(c)
      PROVE TypeOK'
    BY <1>1 DEF LoadState, CheckCooldown, Swap, Reload
<1>2. ASSUME NEW c \in Callers, InnerFails(c) \/ InnerSucceeds(c) PROVE TypeOK'
    BY <1>2 DEF InnerFails, InnerSucceeds
<1>3. ASSUME NEW c \in Callers,
             StampFailure(c) \/ LoadFailures(c) \/ Judge(c) \/ OpenCircuit(c)
      PROVE TypeOK'
    BY <1>3 DEF StampFailure, LoadFailures, Judge, OpenCircuit
<1>8. ASSUME NEW c \in Callers, CountFailure(c) PROVE TypeOK'
    <2>1. failures' \in 0..Threshold
        BY <1>8 DEF CountFailure
    <2>. QED
        BY <1>8, <2>1 DEF CountFailure
<1>4. ASSUME NEW c \in Callers, ResetFailures(c) \/ Recover(c) \/ CloseCircuit(c)
      PROVE TypeOK'
    BY <1>4 DEF ResetFailures, Recover, CloseCircuit
<1>5. CASE CooldownPasses
    BY <1>5 DEF CooldownPasses
<1>6. CASE ServiceRecovers
    BY <1>6 DEF ServiceRecovers
<1>7. CASE UNCHANGED vars
    BY <1>7 DEF vars
<1>. QED
    BY <1>1, <1>2, <1>3, <1>4, <1>5, <1>6, <1>7, <1>8 DEF Next, Run

\* The breaker's variables keep their types whatever the callers do.
THEOREM CircuitTyping == Spec => []TypeOK
<1>1. Init => TypeOK
    <2>1. 0 \in 0..Threshold
        BY CircuitAssumption DEF CircuitAssumption
    <2>. QED
        BY <2>1 DEF Init, TypeOK
<1>. QED
    BY <1>1, TypesKept, PTL DEF Spec

\* The steps of Run at which a caller still has to read the state after its
\* inner call, or has decided to overwrite it.
Deciding == {"call", "failed", "stamp", "weigh", "judge", "open",
             "succeeded", "recover", "close"}

\* ProbeDecides is not inductive: it only speaks of quiet states.  What every
\* step keeps is that the half-open state has a caller that will decide.
HalfOpenHasDecider == state = "half_open" => \E c \in Callers : pc[c] \in Deciding

\* When every Run has returned, the circuit is not half open: no interleaving of
\* late successes and failures leaves it there without a probe.
THEOREM HalfOpenIsTransient == Spec => []ProbeDecides
<1>1. Init => HalfOpenHasDecider
    BY DEF Init, HalfOpenHasDecider
<1>2. TypeOK /\ HalfOpenHasDecider /\ [Next]_vars => HalfOpenHasDecider'
    <2>. SUFFICES ASSUME TypeOK, HalfOpenHasDecider, [Next]_vars PROVE HalfOpenHasDecider'
        OBVIOUS
    <2>. USE DEF TypeOK, HalfOpenHasDecider, Deciding, Goto
    <2>1. ASSUME NEW c \in Callers, LoadState(c) \/ CheckCooldown(c) \/ Reload(c)
          PROVE HalfOpenHasDecider'
        BY <2>1 DEF LoadState, CheckCooldown, Reload
    <2>2. ASSUME NEW c \in Callers, Swap(c) PROVE HalfOpenHasDecider'
        BY <2>2 DEF Swap
    <2>3. ASSUME NEW c \in Callers,
                 \/ InnerFails(c) \/ InnerSucceeds(c) \/ CountFailure(c)
                 \/ StampFailure(c) \/ LoadFailures(c) \/ ResetFailures(c)
          PROVE HalfOpenHasDecider'
        BY <2>3 DEF InnerFails, InnerSucceeds, CountFailure, StampFailure, LoadFailures, ResetFailures
    <2>4. ASSUME NEW c \in Callers, Judge(c) PROVE HalfOpenHasDecider'
        BY <2>4 DEF Judge
    <2>5. ASSUME NEW c \in Callers, Recover(c) PROVE HalfOpenHasDecider'
        BY <2>5 DEF Recover
    <2>6. ASSUME NEW c \in Callers, OpenCircuit(c) \/ CloseCircuit(c) PROVE HalfOpenHasDecider'
        BY <2>6 DEF OpenCircuit, CloseCircuit
    <2>7. CASE CooldownPasses \/ ServiceRecovers \/ UNCHANGED vars
        BY <2>7 DEF CooldownPasses, ServiceRecovers, vars
    <2>. QED
        BY <2>1, <2>2, <2>3, <2>4, <2>5, <2>6, <2>7 DEF Next, Run
<1>3. HalfOpenHasDecider => ProbeDecides
    BY DEF HalfOpenHasDecider, ProbeDecides, Quiet, Deciding
<1>. QED
    BY <1>1, <1>2, <1>3, CircuitTyping, PTL DEF Spec

\* What a single caller knows at each step of Run.
LoneCall(c) ==
    /\ pc[c] \in {"recover", "close"} => failures = 0
    /\ state = "closed" =>
        /\ pc[c] \in {"idle", "cooldown", "swap", "reload", "call", "failed"} => failures < Threshold
        /\ pc[c] = "judge" => seen[c] = failures

\* CircuitBreaker.Run called by one goroutine at a time opens the circuit with the
\* failure that reaches the threshold, not later.
THEOREM LoneCallerOpensAtThreshold ==
    ASSUME NEW CONSTANT only, Callers = {only}
    PROVE  Spec => []OpensAtThreshold
<1>1. Init => LoneCall(only)
    BY CircuitAssumption DEF Init, LoneCall
<1>2. TypeOK /\ LoneCall(only) /\ [Next]_vars => LoneCall(only)'
    <2>. SUFFICES ASSUME TypeOK, LoneCall(only), [Next]_vars PROVE LoneCall(only)'
        OBVIOUS
    <2>. USE CircuitAssumption DEF TypeOK, LoneCall, Goto
    <2>1. CASE LoadState(only) \/ CheckCooldown(only) \/ Swap(only) \/ Reload(only)
        BY <2>1 DEF LoadState, CheckCooldown, Swap, Reload
    <2>2. CASE InnerFails(only) \/ InnerSucceeds(only) \/ CountFailure(only) \/ StampFailure(only)
        BY <2>2 DEF InnerFails, InnerSucceeds, CountFailure, StampFailure
    <2>3. CASE LoadFailures(only) \/ Judge(only) \/ OpenCircuit(only)
        BY <2>3 DEF LoadFailures, Judge, OpenCircuit
    <2>4. CASE ResetFailures(only) \/ Recover(only) \/ CloseCircuit(only)
        BY <2>4 DEF ResetFailures, Recover, CloseCircuit
    <2>5. CASE CooldownPasses \/ ServiceRecovers \/ UNCHANGED vars
        BY <2>5 DEF CooldownPasses, ServiceRecovers, vars
    <2>. QED
        BY <2>1, <2>2, <2>3, <2>4, <2>5 DEF Next, Run
<1>3. LoneCall(only) => OpensAtThreshold
    BY DEF LoneCall, OpensAtThreshold, Quiet
<1>. QED
    BY <1>1, <1>2, <1>3, CircuitTyping, PTL DEF Spec

-----------------------------------------------------------------------------
(* The chain.                                                              *)

\* The stages between taking a place in the bulkhead and giving it back.
Inside == {"breaker", "inner", "fallback", "release"}

\* What the breaker may be doing for a request at each stage.
Fits(s, p) ==
    /\ s \in {"out", "limiter", "bulkhead", "release"} => p = "idle"
    /\ s = "breaker" => p \in {"idle", "cooldown", "swap", "reload"}
    /\ s = "inner" => p \in Deciding
    /\ s = "fallback" => p = "call"

Stages == \A c \in Callers : Fits(stage[c], pc[c])

\* The places taken are those of the requests inside, and there are enough.
Places ==
    /\ slots = {c \in Callers : stage[c] \in Inside}
    /\ IsFiniteSet(slots) /\ Cardinality(slots) <= BulkheadMax

\* A request that no layer has refused and the breaker has not called has no answer yet.
Counted ==
    /\ CountedAsAnswered
    /\ \A c \in Callers :
        stage[c] \in {"limiter", "bulkhead", "breaker"} \/ pc[c] = "call" => answer[c] = "none"

ChainInv == ChainTypeOK /\ Stages /\ Places /\ Counted

\* Before the first request nobody is inside.
LEMMA InitChain == ChainInit => ChainInv
<1>. SUFFICES ASSUME ChainInit PROVE ChainInv
    OBVIOUS
<1>1. 0 \in 0 .. Threshold
    BY CircuitAssumption
<1>2. ChainTypeOK
    BY <1>1 DEF ChainInit, Init, ChainTypeOK, TypeOK
<1>3. Places
    <2>1. slots = {} /\ {c \in Callers : stage[c] \in Inside} = {}
        BY DEF ChainInit, Inside
    <2>2. IsFiniteSet({}) /\ Cardinality({}) = 0
        BY FS_EmptySet
    <2>. QED
        BY <2>1, <2>2, CircuitAssumption DEF Places
<1>. QED
    BY <1>2, <1>3 DEF ChainInv, ChainInit, Init, Stages, Fits, Counted, CountedAsAnswered

\* Every step of the chain is one of the breaker, or leaves the breaker alone.
LEMMA ChainStepsBreaker == [ChainNext]_allVars => [Next]_vars
<1>. SUFFICES ASSUME [ChainNext]_allVars PROVE [Next]_vars
    OBVIOUS
<1>1. ASSUME NEW c \in Callers, Request(c) \/ ChainRun(c) PROVE [Next]_vars
    <2>1. CASE Request(c) \/ Limiter(c) \/ Bulkhead(c) \/ Release(c)
        BY <2>1 DEF Request, Limiter, Bulkhead, Release
    <2>2. CASE BreakerAdmits(c) \/ PrimarySucceeds(c) \/ BreakerRecords(c)
        BY <2>2 DEF BreakerAdmits, PrimarySucceeds, BreakerRecords, Next, Run
    <2>3. CASE PrimaryFails(c) \/ FallbackRuns(c)
        BY <2>3 DEF PrimaryFails, FallbackRuns, Next, Run
    <2>. QED
        BY <1>1, <2>1, <2>2, <2>3 DEF ChainRun
<1>2. CASE CooldownPasses \/ ServiceRecovers
    BY <1>2 DEF Next
<1>3. CASE UNCHANGED allVars
    BY <1>3 DEF allVars
<1>. QED
    BY <1>1, <1>2, <1>3 DEF ChainNext

\* The breaker inside the chain behaves as the breaker alone (NewResilienceChain
\* adds nothing to it and takes nothing from it).
THEOREM ChainUsesBreaker == ChainSpec => Spec
<1>1. ChainInit => Init
    BY DEF ChainInit
<1>. QED
    BY <1>1, ChainStepsBreaker, PTL DEF ChainSpec, Spec

\* Every step keeps a request's stage and the breaker's step for it together.
LEMMA StagesKept == ChainInv /\ [ChainNext]_allVars => ChainTypeOK' /\ Stages'
<1>. SUFFICES ASSUME ChainInv, [ChainNext]_allVars PROVE ChainTypeOK' /\ Stages'
    OBVIOUS
<1>t. TypeOK'
    BY ChainStepsBreaker, TypesKept DEF ChainInv, ChainTypeOK
<1>u. ChainTypeOK /\ Stages
    BY DEF ChainInv
<1>1. ASSUME NEW c \in Callers, Request(c) \/ ChainRun(c), UNCHANGED fallback
      PROVE  ChainTypeOK' /\ Stages'
    <2>. USE DEF Moves, Answers, Fits, Goto
    <2>. DEFINE Names == {"out", "limiter", "bulkhead", "breaker", "inner", "fallback", "release"}
                Results == {"none", "value", "degraded", "limited", "full", "cancelled", "open", "error"}
                Kept == /\ stage' \in [Callers -> Names] /\ answer' \in [Callers -> Results]
                        /\ slots' \subseteq Callers
                        /\ \A d \in Callers : d # c => stage'[d] = stage[d] /\ pc'[d] = pc[d]
                        /\ Fits(stage'[c], pc'[c])
    <2>0. /\ stage \in [Callers -> Names] /\ answer \in [Callers -> Results]
          /\ slots \subseteq Callers /\ Fits(stage[c], pc[c])
          /\ DOMAIN pc = Callers
        BY <1>u DEF ChainTypeOK, TypeOK, Stages
    <2>1. ASSUME Request(c) \/ Limiter(c) \/ Bulkhead(c) \/ Release(c) PROVE Kept
        BY <2>0, <2>1 DEF Request, Limiter, Bulkhead, Release, vars
    <2>2. ASSUME BreakerAdmits(c) PROVE Kept
        <3>1. pc'[c] \in {"idle", "cooldown", "swap", "reload", "call"}
            BY <2>0, <2>2 DEF BreakerAdmits, LoadState, CheckCooldown, Swap, Reload
        <3>2. \A d \in Callers : d # c => pc'[d] = pc[d]
            BY <2>0, <2>2 DEF BreakerAdmits, LoadState, CheckCooldown, Swap, Reload
        <3>. QED
            BY <2>0, <2>2, <3>1, <3>2 DEF BreakerAdmits, Deciding
    <2>3. ASSUME PrimarySucceeds(c) \/ PrimaryFails(c) \/ FallbackRuns(c) PROVE Kept
        BY <2>0, <2>3 DEF PrimarySucceeds, PrimaryFails, FallbackRuns, InnerSucceeds, InnerFails, vars, Deciding
    <2>4. ASSUME BreakerRecords(c) PROVE Kept
        <3>1. /\ pc'[c] \in Deciding \cup {"idle"}
              /\ \A d \in Callers : d # c => pc'[d] = pc[d]
            BY <2>0, <2>4 DEF BreakerRecords, CountFailure, StampFailure, LoadFailures, Judge,
                OpenCircuit, ResetFailures, Recover, CloseCircuit, Deciding
        <3>. QED
            BY <2>0, <2>4, <3>1 DEF BreakerRecords
    <2>5. Kept
        BY <1>1, <2>1, <2>2, <2>3, <2>4 DEF ChainRun
    <2>6. Stages'
        BY <1>u, <2>5 DEF Stages
    <2>7. \A d \in Callers : stage'[d] \in {"out", "limiter", "bulkhead"} => pc'[d] = "idle"
        BY <2>6 DEF Stages
    <2>. HIDE DEF Fits
    <2>. QED
        BY <1>t, <1>u, <1>1, <2>5, <2>6, <2>7 DEF ChainTypeOK
<1>2. CASE (CooldownPasses \/ ServiceRecovers) /\ UNCHANGED chainVars
    BY <1>t, <1>u, <1>2 DEF CooldownPasses, ServiceRecovers, chainVars, ChainTypeOK, Stages
<1>3. CASE UNCHANGED allVars
    BY <1>t, <1>u, <1>3 DEF allVars, vars, chainVars, ChainTypeOK, Stages
<1>. QED
    BY <1>1, <1>2, <1>3 DEF ChainNext

\* Every step keeps the places: only Bulkhead takes one, and only Release, which every
\* way out passes, gives it back.
LEMMA PlacesKept == ChainInv /\ [ChainNext]_allVars => Places'
<1>. SUFFICES ASSUME ChainInv, [ChainNext]_allVars PROVE Places'
    OBVIOUS
<1>u. ChainTypeOK /\ Places /\ Stages
    BY DEF ChainInv
<1>. USE DEF Places, Inside, ChainTypeOK, Moves
<1>1. ASSUME NEW c \in Callers, Request(c) \/ ChainRun(c) PROVE Places'
    <2>1. CASE Request(c) \/ Limiter(c)
        BY <1>u, <2>1 DEF Request, Limiter
    <2>2. CASE Bulkhead(c)
        <3>1. CASE /\ Cardinality(slots) < BulkheadMax
                   /\ Moves(c, "bulkhead", "breaker") /\ slots' = slots \cup {c}
            <4>1. slots' = slots \cup {c} /\ c \notin slots
                BY <1>u, <3>1
            <4>2. IsFiniteSet(slots') /\ Cardinality(slots') = Cardinality(slots) + 1
                BY <1>u, <4>1, FS_AddElement
            <4>3. slots' = {d \in Callers : stage'[d] \in Inside}
                BY <1>u, <3>1, <4>1
            <4>4. Cardinality(slots) \in Nat
                BY <1>u, FS_CardinalityType
            <4>. QED
                BY <3>1, <4>2, <4>3, <4>4, CircuitAssumption
        <3>2. CASE UNCHANGED slots /\ Moves(c, "bulkhead", "out")
            BY <1>u, <3>2
        <3>. QED
            BY <2>2, <3>1, <3>2 DEF Bulkhead
    <2>3. CASE Release(c)
        <3>1. slots' = slots \ {c} /\ c \in slots
            BY <1>u, <2>3 DEF Release
        <3>2. IsFiniteSet(slots') /\ Cardinality(slots') = Cardinality(slots) - 1
            BY <1>u, <3>1, FS_RemoveElement
        <3>3. slots' = {d \in Callers : stage'[d] \in Inside}
            BY <1>u, <2>3, <3>1 DEF Release
        <3>4. Cardinality(slots) \in Nat
            BY <1>u, FS_CardinalityType
        <3>5. Cardinality(slots') <= BulkheadMax
            <4>1. Cardinality(slots) <= BulkheadMax /\ BulkheadMax \in Nat
                BY <1>u, CircuitAssumption
            <4>. HIDE DEF Places
            <4>. QED
                BY <3>2, <3>4, <4>1
        <3>. QED
            BY <3>2, <3>3, <3>5
    <2>4. CASE BreakerAdmits(c) \/ PrimarySucceeds(c) \/ PrimaryFails(c) \/ FallbackRuns(c)
               \/ BreakerRecords(c)
        <3>1. slots' = slots
            BY <2>4 DEF BreakerAdmits, PrimarySucceeds, PrimaryFails, FallbackRuns, BreakerRecords
        <3>2. stage[c] \in Inside /\ \E g \in Inside : stage' = [stage EXCEPT ![c] = g]
            BY <1>u, <2>4 DEF BreakerAdmits, PrimarySucceeds, PrimaryFails, FallbackRuns, BreakerRecords
        <3>. QED
            BY <1>u, <3>1, <3>2
    <2>. QED
        BY <1>1, <2>1, <2>2, <2>3, <2>4 DEF ChainRun
<1>2. CASE UNCHANGED chainVars
    BY <1>u, <1>2 DEF chainVars
<1>. QED
    BY <1>1, <1>2 DEF ChainNext, allVars

\* Every step keeps the breaker's count of a request and the request's answer together.
LEMMA CountKept == ChainInv /\ [ChainNext]_allVars => Counted'
<1>. SUFFICES ASSUME ChainInv, [ChainNext]_allVars PROVE Counted'
    OBVIOUS
<1>u. ChainTypeOK /\ Stages /\ Counted /\ TypeOK
    BY DEF ChainInv, ChainTypeOK
<1>. USE DEF Counted, CountedAsAnswered
<1>1. ASSUME NEW c \in Callers, Request(c) \/ ChainRun(c) PROVE Counted'
    <2>. DEFINE Fitting(g, p, a) ==
            /\ g \in {"limiter", "bulkhead", "breaker"} \/ p = "call" => a = "none"
            /\ p \in {"failed", "stamp", "weigh", "judge", "open"} => a = "error"
            /\ p \in {"succeeded", "recover", "close"} => a \in {"value", "degraded"}
            /\ a \in {"limited", "full", "cancelled", "open"} => p = "idle"
    <2>0. /\ Fits(stage[c], pc[c]) /\ Fitting(stage[c], pc[c], answer[c])
          /\ DOMAIN pc = Callers /\ DOMAIN answer = Callers /\ DOMAIN stage = Callers
        BY <1>u DEF Stages, TypeOK, ChainTypeOK
    <2>. USE DEF Moves, Answers, Fits, Goto, Deciding
    <2>1. CASE Request(c) \/ Limiter(c) \/ Bulkhead(c) \/ Release(c)
        <3>1. /\ Fitting(stage'[c], pc'[c], answer'[c])
              /\ \A d \in Callers : d # c =>
                    stage'[d] = stage[d] /\ pc'[d] = pc[d] /\ answer'[d] = answer[d]
            BY <2>0, <2>1 DEF Request, Limiter, Bulkhead, Release, vars
        <3>. QED
            BY <1>u, <3>1
    <2>2. CASE BreakerAdmits(c)
        <3>1. /\ Fitting(stage'[c], pc'[c], answer'[c])
              /\ \A d \in Callers : d # c =>
                    stage'[d] = stage[d] /\ pc'[d] = pc[d] /\ answer'[d] = answer[d]
            BY <2>0, <2>2 DEF BreakerAdmits, LoadState, CheckCooldown, Swap, Reload
        <3>. QED
            BY <1>u, <3>1
    <2>3. CASE PrimarySucceeds(c) \/ PrimaryFails(c) \/ FallbackRuns(c)
        <3>1. /\ Fitting(stage'[c], pc'[c], answer'[c])
              /\ \A d \in Callers : d # c =>
                    stage'[d] = stage[d] /\ pc'[d] = pc[d] /\ answer'[d] = answer[d]
            BY <2>0, <2>3 DEF PrimarySucceeds, PrimaryFails, FallbackRuns, InnerSucceeds,
                InnerFails, vars
        <3>. QED
            BY <1>u, <3>1
    <2>4. CASE BreakerRecords(c)
        <3>1. /\ Fitting(stage'[c], pc'[c], answer'[c])
              /\ \A d \in Callers : d # c =>
                    stage'[d] = stage[d] /\ pc'[d] = pc[d] /\ answer'[d] = answer[d]
            BY <2>0, <2>4 DEF BreakerRecords, CountFailure, StampFailure, LoadFailures, Judge,
                OpenCircuit, ResetFailures, Recover, CloseCircuit
        <3>. QED
            BY <1>u, <3>1
    <2>. QED
        BY <1>1, <2>1, <2>2, <2>3, <2>4 DEF ChainRun
<1>2. CASE (CooldownPasses \/ ServiceRecovers) /\ UNCHANGED chainVars
    BY <1>u, <1>2 DEF CooldownPasses, ServiceRecovers, chainVars
<1>3. CASE UNCHANGED allVars
    BY <1>u, <1>3 DEF allVars, vars, chainVars
<1>. QED
    BY <1>1, <1>2, <1>3 DEF ChainNext

\* The chain's invariant holds of every state.
LEMMA ChainInvariant == ChainSpec => []ChainInv
<1>1. ChainInv /\ [ChainNext]_allVars => ChainInv'
    BY StagesKept, PlacesKept, CountKept DEF ChainInv
<1>. QED
    BY <1>1, InitChain, PTL DEF ChainSpec

\* Never more than BulkheadMax requests are inside, a place is given back on every way
\* out, and what the breaker counts of a request is what its caller is told, whichever
\* layer refuses, fails or degrades it (Bulkhead.Run, Fallback.Run, ResilienceChain).
THEOREM ChainKeepsLayersApart == ChainSpec => []ChainHolds
<1>1. ChainInv => ChainHolds
    BY DEF ChainInv, ChainTypeOK, Places, Inside, Counted, ChainHolds, BulkheadHolds
<1>. QED
    BY <1>1, ChainInvariant, PTL

\* Also inside the chain a half-open circuit is left again, behind every fallback.
THEOREM ChainProbesDecide == ChainSpec => []ProbeDecides
BY ChainUsesBreaker, HalfOpenIsTransient, PTL

-----------------------------------------------------------------------------
(* GlobalCircuitBreaker.                                                   *)

Told == announced = "open" <=> circuit # "closed"

\* Where the one instance is in IsOpen, in a report or in a broadcast says what the
\* circuit is, and whether its subscribers have been told of it.
OneInstance(i) ==
    /\ at \in [Instances -> {"idle", "cooldown", "half", "calling", "stamp", "rate", "trip",
                            "announce open", "recover", "close", "clear failures",
                            "clear successes", "announce closed"}]
    /\ at[i] \in {"idle", "cooldown", "half", "calling", "stamp", "rate", "trip", "recover",
                  "close"} => Told
    /\ at[i] \in {"cooldown", "half", "announce open"} => circuit = "open"
    /\ at[i] = "close" => circuit = "half_open"
    /\ at[i] \in {"clear failures", "clear successes", "announce closed"} => circuit = "closed"

\* While one instance uses a global breaker and nobody resets it, the subscribers know
\* between its calls whether the circuit is open: every change is broadcast, and the
\* one that is not, to half open, is no news (patterns_circuit_global.go).
THEOREM OneInstanceInforms ==
    ASSUME NEW i, Instances = {i}, ~Resets
    PROVE  Shared!Spec => []Shared!SubscribersInformed
<1>1. Shared!Init => OneInstance(i)
    BY DEF Shared!Init, OneInstance, Told
<1>2. OneInstance(i) /\ [Shared!Next]_(Shared!vars) => OneInstance(i)'
    <2> SUFFICES ASSUME OneInstance(i), [Shared!Next]_(Shared!vars) PROVE OneInstance(i)'
        OBVIOUS
    <2> USE DEF OneInstance, Told, Shared!Goto
    <2>1. CASE Shared!IsOpen(i) \/ Shared!CheckCooldown(i) \/ Shared!HalfOpen(i)
        BY <2>1 DEF Shared!IsOpen, Shared!CheckCooldown, Shared!HalfOpen
    <2>2. CASE Shared!ReportFailure(i) \/ Shared!StampFailure(i) \/ Shared!Rate(i)
        BY <2>2 DEF Shared!ReportFailure, Shared!StampFailure, Shared!Rate
    <2>3. CASE Shared!Trip(i)
        BY <2>3 DEF Shared!Trip
    <2>4. CASE Shared!ReportSuccess(i) \/ Shared!Recover(i) \/ Shared!Close(i)
        BY <2>4 DEF Shared!ReportSuccess, Shared!Recover, Shared!Close
    <2>5. CASE Shared!ClearFailures(i) \/ Shared!ClearSuccesses(i)
        BY <2>5 DEF Shared!ClearFailures, Shared!ClearSuccesses
    <2>6. CASE Shared!Broadcast(i)
        BY <2>6 DEF Shared!Broadcast
    <2>7. CASE Shared!CooldownPasses \/ Shared!ServiceRecovers \/ UNCHANGED Shared!vars
        BY <2>7 DEF Shared!CooldownPasses, Shared!ServiceRecovers, Shared!vars
    <2>8. ~Shared!Reset(i)
        BY DEF Shared!Reset
    <2> QED
        BY <2>1, <2>2, <2>3, <2>4, <2>5, <2>6, <2>7, <2>8
        DEF Shared!Next, Shared!Answer, Shared!Report
<1>3. OneInstance(i) => Shared!SubscribersInformed
    BY DEF OneInstance, Told, Shared!SubscribersInformed, Shared!Quiet
<1> QED
    BY <1>1, <1>2, <1>3, PTL DEF Shared!Spec

-----------------------------------------------------------------------------
(* Security: requests between authentication and authorisation.            *)

\* Credentials belong to users and are none themselves.
Owned ==
    /\ IsFiniteSet(Tokens \cup Keys)
    /\ UserOf \in [Tokens \cup Keys -> Users]
    /\ Users \cap (Tokens \cup Keys) = {} /\ Tokens \cap Keys = {}

Spent == expired \cup revoked

\* The variables of the requests.
RequestTypes ==
    /\ point \in [Requests -> {"new", "token", "key", "check", "touch", "authorise",
                               "served", "refused"}]
    /\ with \in [Requests -> SUBSET issued]
    /\ DOMAIN candidates = Requests /\ DOMAIN user = Requests
    /\ DOMAIN tooLate = Requests /\ DOMAIN fine = Requests
    /\ issued \subseteq Tokens \cup Keys
    /\ (issued \cap Keys) \ expired \subseteq known /\ known \subseteq Keys
    /\ aged \subseteq Tokens
    /\ aged \ Outliving \subseteq expired /\ forgotten \ Outliving \subseteq expired

\* What was too late when a request arrived is spent now, and the key that was found
\* for it, or the user it goes on as, is one of its own that was not.
Admits(r) ==
    /\ tooLate[r] \subseteq Spent
    /\ point[r] \in {"check", "touch"} => candidates[r] # {} /\ candidates[r] \subseteq with[r] \cap Keys
    /\ point[r] = "touch" => candidates[r] \cap tooLate[r] = {}
    /\ point[r] \in {"authorise", "served"} => \E c \in with[r] \ tooLate[r] : UserOf[c] = user[r]

\* What is fine about a request: a credential of it that is not spent, a user of it
\* who is permitted; and when the key is looked at, no token of it is fine.
Claims(r) ==
    /\ \A k, l \in with[r] \cap Keys : k = l
    /\ with[r] \cap fine[r] \cap Spent = {}
    /\ \A c \in with[r] : UserOf[c] \in fine[r] => Guard!Permitted(UserOf[c])
    /\ point[r] \in {"key", "check", "touch"} => with[r] \cap fine[r] \subseteq Keys

GuardInv ==
    /\ RequestTypes
    /\ \A r \in Requests : Admits(r) /\ Claims(r)
    /\ Guard!GoodRequestsServed

\* A set of one element at most has one element at most.
LEMMA AtMostOne ==
    ASSUME NEW S, IsFiniteSet(S), Cardinality(S) =< 1, NEW x \in S, NEW y \in S
    PROVE  x = y
<1> SUFFICES ASSUME x # y PROVE FALSE
  OBVIOUS
<1>1. Cardinality({x, y}) = 2
  <2>1. IsFiniteSet({x}) /\ Cardinality({x}) = 1
    BY FS_Singleton
  <2>2. {x, y} = {x} \cup {y}
    OBVIOUS
  <2> QED BY <2>1, <2>2, FS_AddElement
<1>2. Cardinality({x, y}) =< Cardinality(S) /\ Cardinality(S) \in Nat
  BY FS_Subset, FS_CardinalityType
<1> QED BY <1>1, <1>2

\* There are no credentials and no requests at first.
LEMMA InitGuard == Owned /\ Guard!Init => GuardInv
BY DEF Guard!Init, GuardInv, RequestTypes, Admits, Claims, Spent, Guard!GoodRequestsServed

\* A step that moves no request and makes nothing that was spent good again keeps
\* what was admitted.
LEMMA StillAdmits ==
    ASSUME GuardInv, Spent \subseteq Spent', UNCHANGED <<point, with, candidates, user, tooLate>>
    PROVE  \A r \in Requests : Admits(r)'
BY DEF GuardInv, Admits

\* Whatever a request loses, it is refused only for what it lost.
LEMMA StillServed ==
    ASSUME GuardInv, UNCHANGED <<point, with>>, \A r \in Requests : fine'[r] \subseteq fine[r]
    PROVE  Guard!GoodRequestsServed'
BY DEF GuardInv, Guard!GoodRequestsServed

\* Credentials are issued, expire, grow old in the blacklist and are revoked.
LEMMA CredentialsKeepGuard ==
    ASSUME Owned, GuardInv,
           \/ Guard!CleanupExpired
           \/ \E t \in Tokens : Guard!IssueToken(t) \/ Guard!RevokeToken(t) \/ Guard!Age(t)
           \/ \E k \in Keys : Guard!GenerateKey(k) \/ Guard!RevokeKey(k)
           \/ \E c \in Tokens \cup Keys : Guard!Expire(c)
    PROVE  GuardInv'
<1>. USE DEF Guard!CleanupExpired, Guard!IssueToken, Guard!RevokeToken, Guard!Age, Guard!GenerateKey,
             Guard!RevokeKey, Guard!Expire, Guard!blacklistVars
<1>1. /\ Spent \subseteq Spent' /\ UNCHANGED <<point, with, candidates, user, tooLate, roles, assigned>>
      /\ DOMAIN fine' = Requests /\ \A r \in Requests : fine'[r] \subseteq fine[r]
  BY DEF Guard!Keep, Spent, Guard!engineVars, Guard!requestVars, GuardInv, RequestTypes
<1>2. RequestTypes'
  <2>1. /\ issued \subseteq issued' /\ issued' \subseteq Tokens \cup Keys
        /\ (issued' \cap Keys) \ expired' \subseteq known' /\ known' \subseteq Keys
    BY DEF GuardInv, RequestTypes, Owned
  <2>2. /\ aged' \subseteq Tokens
        /\ aged' \ Outliving \subseteq expired' /\ forgotten' \ Outliving \subseteq expired'
    BY DEF GuardInv, RequestTypes
  <2> QED BY <1>1, <2>1, <2>2 DEF GuardInv, RequestTypes
<1>3. ASSUME NEW r \in Requests PROVE Claims(r)'
  <2>1. with[r] \cap fine'[r] \cap Spent' = {}
    <3>1. with[r] \cap fine[r] \cap Spent = {}
      BY DEF GuardInv, Claims
    <3>2. CASE UNCHANGED <<expired, revoked, fine>>
      BY <3>1, <3>2 DEF Spent
    <3>3. ASSUME NEW c, Spent' = Spent \cup {c}, Guard!Keep({c})
          PROVE  with[r] \cap fine'[r] \cap Spent' = {}
      BY <3>1, <3>3 DEF Guard!Keep
    <3> QED
      BY <3>2, <3>3 DEF Spent
  <2>2. \A u : Guard!Permitted(u)' <=> Guard!Permitted(u)
    BY <1>1 DEF Guard!Permitted
  <2>3. Claims(r) /\ fine'[r] \subseteq fine[r]
    BY <1>1 DEF GuardInv
  <2> QED BY <1>1, <2>1, <2>2, <2>3 DEF Claims
<1> QED
  BY <1>1, <1>2, <1>3, StillAdmits, StillServed DEF GuardInv

\* The blacklist is cleaned up: a token that leaves it is spent all the same unless it is
\* one of the Outliving, which it is then too late for no longer.
LEMMA BlacklistKeepsGuard ==
    ASSUME Owned, GuardInv, Guard!CleanupBlacklist
    PROVE  GuardInv'
<1>1. /\ UNCHANGED <<point, with, candidates, user, fine, issued, expired, known, roles, assigned>>
      /\ revoked' = revoked \ aged /\ aged' = {} /\ forgotten' = forgotten \cup aged
      /\ tooLate' = [r \in Requests |-> tooLate[r] \ ((aged \cap Outliving) \ expired)]
  BY DEF Guard!CleanupBlacklist, Guard!Lifted, Guard!engineVars, Guard!requestVars
<1>2. RequestTypes'
  BY <1>1 DEF GuardInv, RequestTypes
<1>3. ASSUME NEW r \in Requests PROVE Admits(r)' /\ Claims(r)'
  <2>1. Admits(r) /\ Claims(r) /\ aged \ Outliving \subseteq expired
    BY DEF GuardInv, RequestTypes
  <2>2. tooLate'[r] = tooLate[r] \ ((aged \cap Outliving) \ expired)
    BY <1>1
  <2>3. tooLate'[r] \subseteq Spent' /\ tooLate'[r] \subseteq tooLate[r] /\ Spent' \subseteq Spent
    BY <1>1, <2>1, <2>2 DEF Admits, Spent
  <2>4. \A u : Guard!Permitted(u)' <=> Guard!Permitted(u)
    BY <1>1 DEF Guard!Permitted
  <2>5. Admits(r)'
    BY <1>1, <2>1, <2>3 DEF Admits
  <2>6. Claims(r)'
    BY <1>1, <2>1, <2>3, <2>4 DEF Claims
  <2> QED BY <2>5, <2>6
<1>4. Guard!GoodRequestsServed'
  BY <1>1 DEF GuardInv, Guard!GoodRequestsServed
<1> QED BY <1>2, <1>3, <1>4 DEF GuardInv

\* Roles come and go: a user who is no longer permitted is no longer fine.
LEMMA RolesKeepGuard ==
    ASSUME Owned, GuardInv, NEW newRoles, NEW newAssigned,
           Guard!EngineChanges(newRoles, newAssigned)
    PROVE  GuardInv'
<1>1. /\ UNCHANGED <<point, with, candidates, user, tooLate, issued, expired, revoked, known>>
      /\ UNCHANGED <<aged, forgotten>>
      /\ roles' = newRoles /\ assigned' = newAssigned
      /\ fine' = [r \in Requests |->
            fine[r] \ {UserOf[c] : c \in {c \in with[r] :
                          ~Guard!HasPermission(newAssigned[UserOf[c]], newRoles)}}]
  BY DEF Guard!EngineChanges, Guard!keyVars, Guard!blacklistVars, Guard!requestVars
<1>2. RequestTypes'
  BY <1>1 DEF GuardInv, RequestTypes
<1>3. \A r \in Requests : fine'[r] \subseteq fine[r]
  BY <1>1
<1>4. ASSUME NEW r \in Requests PROVE Claims(r)'
  <2>1. \A c \in with[r] : UserOf[c] \in fine'[r] => Guard!Permitted(UserOf[c])'
    BY <1>1 DEF Guard!Permitted
  <2>2. Claims(r)
    BY DEF GuardInv
  <2> QED BY <1>1, <1>3, <2>1, <2>2 DEF Claims, Spent
<1> QED
  BY <1>1, <1>2, <1>3, <1>4, StillAdmits, StillServed DEF GuardInv, Spent

\* A request arrives: it claims what is good now.
LEMMA ArrivalKeepsGuard ==
    ASSUME Owned, GuardInv, NEW r \in Requests, NEW creds \in SUBSET (Tokens \cup Keys),
           Guard!Arrive(r, creds)
    PROVE  GuardInv'
<1>1. /\ point[r] = "new" /\ creds \subseteq issued
      /\ Guard!Cardinality(creds \cap Keys) =< 1
      /\ with' = [with EXCEPT ![r] = creds] /\ point' = [point EXCEPT ![r] = "token"]
      /\ tooLate' = [tooLate EXCEPT ![r] = creds \cap (revoked \cup expired \cup (forgotten \ Outliving))]
      /\ fine' = [fine EXCEPT ![r] =
            (creds \ (revoked \cup expired))
            \cup {UserOf[c] : c \in {c \in creds : Guard!Permitted(UserOf[c])}}]
      /\ UNCHANGED <<candidates, user, issued, expired, revoked, aged, forgotten, known, roles, assigned>>
  BY DEF Guard!Arrive, Guard!Goto, Guard!keyVars, Guard!blacklistVars, Guard!engineVars
<1>2. RequestTypes'
  BY <1>1 DEF GuardInv, RequestTypes
<1>3. /\ point'[r] = "token" /\ with'[r] = creds
      /\ tooLate'[r] = creds \cap (revoked \cup expired \cup (forgotten \ Outliving))
      /\ fine'[r] = (creds \ (revoked \cup expired))
                   \cup {UserOf[c] : c \in {c \in creds : Guard!Permitted(UserOf[c])}}
  BY <1>1 DEF GuardInv, RequestTypes
<1>4. \A q \in Requests \ {r} :
          /\ point'[q] = point[q] /\ with'[q] = with[q]
          /\ tooLate'[q] = tooLate[q] /\ fine'[q] = fine[q]
  BY <1>1 DEF GuardInv, RequestTypes
<1>5. \A u : Guard!Permitted(u)' <=> Guard!Permitted(u)
  BY <1>1 DEF Guard!Permitted
<1>6. ASSUME NEW q \in Requests, q # r PROVE Admits(q)' /\ Claims(q)'
  <2>1. Admits(q) /\ Claims(q)
    BY DEF GuardInv
  <2> QED BY <1>1, <1>4, <1>5, <1>6, <2>1 DEF Admits, Claims, Spent
<1>7. Admits(r)'
  <2>1. forgotten \ Outliving \subseteq expired
    BY DEF GuardInv, RequestTypes
  <2> QED BY <1>1, <1>3, <2>1 DEF Admits, Spent
<1>8. Claims(r)'
  <2>1. \A k, l \in creds \cap Keys : k = l
    <3>1. IsFiniteSet(creds \cap Keys)
      BY FS_Subset DEF Owned
    <3>2. Cardinality(creds \cap Keys) =< 1
      BY <1>1 DEF Guard!Cardinality, Cardinality
    <3> QED BY <3>1, <3>2, AtMostOne
  <2>2. with'[r] \cap fine'[r] \cap Spent' = {}
    BY <1>1, <1>3 DEF Owned, Spent
  <2>3. ASSUME NEW c \in creds, UserOf[c] \in fine'[r] PROVE Guard!Permitted(UserOf[c])
    BY <1>3, <2>3 DEF Owned
  <2> QED BY <1>3, <1>5, <2>1, <2>2, <2>3 DEF Claims
<1>9. Guard!GoodRequestsServed'
  BY <1>3, <1>4 DEF GuardInv, Guard!GoodRequestsServed
<1> QED BY <1>2, <1>6, <1>7, <1>8, <1>9 DEF GuardInv

\* A request goes on to its next step.
LEMMA RequestKeepsGuard ==
    ASSUME Owned, GuardInv, NEW r \in Requests,
           \/ Guard!VerifyToken(r) \/ Guard!FindKey(r) \/ Guard!CheckKey(r)
           \/ Guard!TouchKey(r) \/ Guard!Authorise(r)
    PROVE  GuardInv'
<1>1. /\ UNCHANGED <<with, tooLate, fine, issued, expired, revoked, aged, forgotten, known, roles, assigned>>
      /\ DOMAIN candidates' = Requests /\ DOMAIN user' = Requests
      /\ \A q \in Requests \ {r} :
            point'[q] = point[q] /\ candidates'[q] = candidates[q] /\ user'[q] = user[q]
  BY DEF Guard!VerifyToken, Guard!FindKey, Guard!CheckKey, Guard!TouchKey, Guard!Authorise,
         Guard!Goto, Guard!keyVars, Guard!blacklistVars, Guard!engineVars, GuardInv, RequestTypes
<1>2. RequestTypes'
  <2>1. point' \in [Requests -> {"new", "token", "key", "check", "touch", "authorise",
                                 "served", "refused"}]
    BY DEF Guard!VerifyToken, Guard!FindKey, Guard!CheckKey, Guard!TouchKey, Guard!Authorise,
           Guard!Goto, GuardInv, RequestTypes
  <2> QED BY <1>1, <2>1 DEF GuardInv, RequestTypes
<1>3. \A u : Guard!Permitted(u)' <=> Guard!Permitted(u)
  BY <1>1 DEF Guard!Permitted
<1>4. ASSUME NEW q \in Requests, q # r PROVE Admits(q)' /\ Claims(q)'
  <2>1. Admits(q) /\ Claims(q)
    BY DEF GuardInv
  <2> QED BY <1>1, <1>3, <1>4, <2>1 DEF Admits, Claims, Spent
<1>5. /\ Admits(r) /\ Claims(r) /\ with[r] \subseteq issued
      /\ r \in DOMAIN point /\ r \in DOMAIN candidates /\ r \in DOMAIN user
  BY DEF GuardInv, RequestTypes
<1>6. /\ Admits(r)' /\ Claims(r)'
      /\ point'[r] = "refused" =>
            \/ with[r] \cap fine[r] = {}
            \/ \E c \in with[r] : UserOf[c] \notin fine[r]
  <2>1. CASE Guard!VerifyToken(r)
    <3> DEFINE good == (with[r] \cap Tokens) \ (expired \cup revoked)
    <3>1. point[r] = "token" /\ UNCHANGED candidates
      BY <2>1 DEF Guard!VerifyToken
    <3>2. CASE good # {} /\ user'[r] = UserOf[CHOOSE t \in good : TRUE] /\ point'[r] = "authorise"
      <4>1. PICK t \in good : user'[r] = UserOf[t]
        BY <3>2
      <4>2. t \in with[r] \ tooLate[r]
        BY <1>5, <4>1 DEF Admits, Spent
      <4> QED BY <1>1, <1>3, <1>5, <3>1, <3>2, <4>1, <4>2 DEF Admits, Claims, Spent
    <3>3. CASE good = {} /\ point'[r] = "key"
      <4>1. with[r] \cap fine[r] \subseteq Keys
        BY <1>5, <3>3 DEF Claims, Spent, GuardInv, RequestTypes
      <4> QED BY <1>1, <1>3, <1>5, <3>1, <3>3, <4>1 DEF Admits, Claims, Spent
    <3>4. \/ /\ good # {} /\ user' = [user EXCEPT ![r] = UserOf[CHOOSE t \in good : TRUE]]
             /\ point' = [point EXCEPT ![r] = "authorise"]
          \/ good = {} /\ point' = [point EXCEPT ![r] = "key"]
      BY <2>1 DEF Guard!VerifyToken, Guard!Goto
    <3> HIDE DEF good
    <3> QED BY <1>5, <3>2, <3>3, <3>4
  <2>2. CASE Guard!FindKey(r)
    <3>1. /\ point[r] = "key" /\ candidates'[r] = with[r] \cap known
          /\ point'[r] = IF with[r] \cap known = {} THEN "refused" ELSE "check"
      BY <1>5, <2>2 DEF Guard!FindKey, Guard!Goto
    <3>2. with[r] \cap known \subseteq Keys
      BY DEF GuardInv, RequestTypes
    <3>3. with[r] \cap known = {} => with[r] \cap fine[r] = {}
      BY <1>5, <3>1 DEF Claims, Spent, GuardInv, RequestTypes
    <3> QED BY <1>1, <1>3, <1>5, <3>1, <3>2, <3>3 DEF Admits, Claims, Spent
  <2>3. CASE Guard!CheckKey(r)
    <3>1. /\ point[r] = "check" /\ candidates' = candidates
          /\ point'[r] = IF candidates[r] \cap (revoked \cup expired) = {} THEN "touch" ELSE "refused"
      BY <1>5, <2>3 DEF Guard!CheckKey, Guard!Goto
    <3>2. candidates[r] \cap (revoked \cup expired) # {} => with[r] \cap fine[r] = {}
      BY <1>5, <3>1 DEF Admits, Claims, Spent
    <3>3. candidates[r] \cap (revoked \cup expired) = {} => candidates[r] \cap tooLate[r] = {}
      BY <1>5 DEF Admits, Spent
    <3> QED BY <1>1, <1>3, <1>5, <3>1, <3>2, <3>3 DEF Admits, Claims, Spent
  <2>4. CASE Guard!TouchKey(r)
    <3>1. /\ point[r] = "touch" /\ candidates' = candidates /\ point'[r] = "authorise"
          /\ user'[r] = UserOf[CHOOSE k \in candidates[r] : TRUE]
      BY <1>5, <2>4 DEF Guard!TouchKey, Guard!Goto
    <3>2. PICK k \in candidates[r] : user'[r] = UserOf[k]
      BY <1>5, <3>1 DEF Admits
    <3>3. k \in with[r] \ tooLate[r]
      BY <1>5, <3>1, <3>2 DEF Admits
    <3> QED BY <1>1, <1>3, <1>5, <3>1, <3>2, <3>3 DEF Admits, Claims, Spent
  <2>5. CASE Guard!Authorise(r)
    <3>1. /\ point[r] = "authorise" /\ UNCHANGED <<candidates, user>>
          /\ point'[r] = IF Guard!Permitted(user[r]) THEN "served" ELSE "refused"
      BY <1>5, <2>5 DEF Guard!Authorise, Guard!Goto
    <3>2. PICK c \in with[r] \ tooLate[r] : UserOf[c] = user[r]
      BY <1>5, <3>1 DEF Admits
    <3>3. ~Guard!Permitted(user[r]) => UserOf[c] \notin fine[r]
      BY <1>5, <3>2 DEF Claims
    <3> QED BY <1>1, <1>3, <1>5, <3>1, <3>2, <3>3 DEF Admits, Claims, Spent
  <2> QED BY <2>1, <2>2, <2>3, <2>4, <2>5
<1>7. Guard!GoodRequestsServed'
  BY <1>1, <1>6 DEF GuardInv, Guard!GoodRequestsServed
<1> QED BY <1>2, <1>4, <1>6, <1>7 DEF GuardInv

\* Every step of the middleware and around it keeps GuardInv.
LEMMA NextGuard == Owned /\ GuardInv /\ [Guard!Next]_(Guard!vars) => GuardInv'
<1> SUFFICES ASSUME Owned, GuardInv, [Guard!Next]_(Guard!vars) PROVE GuardInv'
  OBVIOUS
<1>1. CASE UNCHANGED Guard!vars
  <2>1. UNCHANGED <<point, with, candidates, user, tooLate, fine, issued, expired, revoked, aged,
                    forgotten, known, roles, assigned>>
    BY <1>1 DEF Guard!vars, Guard!keyVars, Guard!blacklistVars, Guard!engineVars, Guard!requestVars
  <2> QED
    BY <2>1 DEF GuardInv, RequestTypes, Admits, Claims, Spent, Guard!GoodRequestsServed,
                Guard!Permitted
<1>2. ASSUME NEW role, Guard!AddRole(role) \/ Guard!RemoveRole(role) PROVE GuardInv'
  BY <1>2, RolesKeepGuard DEF Guard!AddRole, Guard!RemoveRole
<1>3. ASSUME NEW u, NEW role, Guard!AssignRole(u, role) \/ Guard!RevokeRole(u, role)
      PROVE  GuardInv'
  BY <1>3, RolesKeepGuard DEF Guard!AssignRole, Guard!RevokeRole
<1> QED
  BY <1>1, <1>2, <1>3, CredentialsKeepGuard, BlacklistKeepsGuard, ArrivalKeepsGuard, RequestKeepsGuard
  DEF Guard!Next, Guard!Credentials, Guard!RefreshToken

\* "支持即时撤销" (security_apikey.go:11): whatever is revoked, expires or is cleaned up
\* meanwhile, a request gets past the authentication only as a user one of whose
\* credentials had neither expired nor ever been revoked when it arrived, or is a token
\* that outlives its place in the blacklist and that CleanupBlacklist has forgotten.
THEOREM RevokedAreRefused ==
    ASSUME Owned
    PROVE  Guard!Spec => []Guard!RevocationIsImmediate
<1>1. GuardInv => Guard!RevocationIsImmediate
  BY DEF GuardInv, Admits, Guard!RevocationIsImmediate
<1> QED
  BY <1>1, InitGuard, NextGuard, PTL DEF Guard!Spec

\* A request with a credential that stays good, for users who stay permitted, is not
\* refused, whatever becomes of other credentials and roles (security_http.go).
THEOREM GoodRequestsPass ==
    ASSUME Owned
    PROVE  Guard!Spec => []Guard!GoodRequestsServed
<1>1. GuardInv => Guard!GoodRequestsServed
  BY DEF GuardInv
<1> QED
  BY <1>1, InitGuard, NextGuard, PTL DEF Guard!Spec

-----------------------------------------------------------------------------
(* Security: the audit chain.                                              *)

Sealed(e) == e.hash = Guard!EntryHash(e.what, e.prev)

\* An entry that nobody has damaged fits its hash, and the one behind it has that; one
\* that was damaged does not fit its own or the next entry's.
ChainedWell ==
    /\ \A i \in DOMAIN entries : DOMAIN entries[i] = {"what", "prev", "hash"}
    /\ \A i \in DOMAIN entries \ damaged : Sealed(entries[i])
    /\ \A i \in DOMAIN entries :
          i - 1 \notin damaged => entries[i].prev = (IF i = 1 THEN NoHash ELSE entries[i - 1].hash)
    /\ \A i \in damaged :
          i + 1 \in DOMAIN entries => ~Sealed(entries[i]) \/ entries[i + 1].prev # entries[i].hash

AuditInv ==
    /\ \E S : entries \in Seq(S)
    /\ damaged \subseteq DOMAIN entries /\ \A i, j \in damaged : i = j
    /\ damaged = {} => root = Guard!RootOf(Guard!Hashes(entries))
    /\ ChainedWell

\* Append hashes the entry with the hash of the one before it.
LEMMA AppendKeepsAudit ==
    ASSUME AuditInv, NEW what, Guard!AppendEntry(what)
    PROVE  AuditInv'
<1> DEFINE prev == IF entries = <<>> THEN NoHash ELSE entries[Len(entries)].hash
           entry == [what |-> what, prev |-> prev, hash |-> Guard!EntryHash(what, prev)]
<1>1. /\ damaged = {} /\ damaged' = {} /\ entries' = Append(entries, entry)
      /\ root' = Guard!RootOf(Guard!Hashes(Append(entries, entry)))
  BY DEF Guard!AppendEntry
<1>2. PICK S : entries \in Seq(S)
  BY DEF AuditInv
<1>3. entry.what = what /\ entry.prev = prev /\ Sealed(entry)
      /\ DOMAIN entry = {"what", "prev", "hash"}
  BY DEF Sealed
<1>4. entries = <<>> <=> Len(entries) = 0
  BY <1>2
<1>5. Len(entries) # 0 => prev = entries[Len(entries)].hash
  BY <1>4
<1>6. Len(entries) = 0 => prev = NoHash
  BY <1>4
<1> HIDE DEF prev, entry
<1>7. entries' \in Seq(S \cup {entry})
  BY <1>1, <1>2
<1>8. /\ DOMAIN entries' = 1..(Len(entries) + 1) /\ DOMAIN entries = 1..Len(entries)
      /\ Len(entries) \in Nat
      /\ entries'[Len(entries) + 1] = entry
      /\ \A i \in DOMAIN entries : entries'[i] = entries[i]
  BY <1>1, <1>2
<1>9. ASSUME NEW i \in DOMAIN entries'
      PROVE  /\ DOMAIN entries'[i] = {"what", "prev", "hash"}
             /\ Sealed(entries'[i])
             /\ entries'[i].prev = IF i = 1 THEN NoHash ELSE entries'[i - 1].hash
  <2>1. CASE i \in DOMAIN entries
    <3>1. /\ entries'[i] = entries[i]
          /\ DOMAIN entries[i] = {"what", "prev", "hash"}
          /\ Sealed(entries[i])
          /\ entries[i].prev = IF i = 1 THEN NoHash ELSE entries[i - 1].hash
      BY <1>1, <1>8, <2>1 DEF AuditInv, ChainedWell
    <3>2. i # 1 => entries'[i - 1] = entries[i - 1]
      BY <1>8, <2>1
    <3> QED BY <3>1, <3>2
  <2>2. CASE i = Len(entries) + 1
    <3>1. entries'[i] = entry
      BY <1>8, <2>2
    <3>2. i # 1 => prev = entries'[i - 1].hash
      BY <1>5, <1>8, <2>2
    <3>3. i = 1 => prev = NoHash
      BY <1>6, <1>8, <2>2
    <3> QED BY <1>3, <3>1, <3>2, <3>3
  <2> QED BY <1>8, <2>1, <2>2
<1> QED
  BY <1>1, <1>7, <1>9 DEF AuditInv, ChainedWell

\* What is overwritten no longer fits its hash, or the hash that the next one has.
LEMMA DamageKeepsAudit ==
    ASSUME AuditInv, NEW i, NEW what, NEW refit \in BOOLEAN, Guard!Damage(i, what, refit)
    PROVE  AuditInv'
<1> DEFINE e == entries[i]
           hash == IF refit THEN Guard!EntryHash(what, e.prev) ELSE e.hash
           new == [e EXCEPT !.what = what, !.hash = hash]
<1>1. /\ i \in DOMAIN entries /\ damaged = {} /\ damaged' = {i} /\ what # e.what
      /\ entries' = [entries EXCEPT ![i].what = what,
                        ![i].hash = IF refit THEN Guard!EntryHash(what, entries[i].prev) ELSE @]
  BY DEF Guard!Damage
<1>2. PICK S : entries \in Seq(S)
  BY DEF AuditInv
<1>3. DOMAIN e = {"what", "prev", "hash"} /\ Sealed(e)
  BY <1>1 DEF AuditInv, ChainedWell
<1>4. entries' = [entries EXCEPT ![i] = new]
  BY <1>1, <1>2
<1>5. /\ DOMAIN new = {"what", "prev", "hash"}
      /\ new.what = what /\ new.prev = e.prev /\ new.hash = hash
  BY <1>3
<1>6. ~Sealed(new) \/ hash # e.hash
  BY <1>1, <1>3, <1>5 DEF Sealed, Guard!EntryHash
<1> HIDE DEF new, hash
<1>7. /\ entries' \in Seq(S \cup {new}) /\ DOMAIN entries' = DOMAIN entries
      /\ entries'[i] = new /\ \A j \in DOMAIN entries \ {i} : entries'[j] = entries[j]
      /\ DOMAIN entries = 1..Len(entries) /\ Len(entries) \in Nat
  <2>1. entries \in [1..Len(entries) -> S] /\ Len(entries) \in Nat
    BY <1>2
  <2>2. entries' \in [1..Len(entries) -> S \cup {new}]
    BY <1>4, <2>1
  <2>3. entries' \in Seq(S \cup {new})
    BY <2>1, <2>2
  <2> QED BY <1>1, <1>4, <2>1, <2>3
<1>8. \A j \in DOMAIN entries :
          /\ DOMAIN entries[j] = {"what", "prev", "hash"}
          /\ Sealed(entries[j])
          /\ entries[j].prev = IF j = 1 THEN NoHash ELSE entries[j - 1].hash
  BY <1>1 DEF AuditInv, ChainedWell
<1>9. \A j \in DOMAIN entries' : DOMAIN entries'[j] = {"what", "prev", "hash"}
  BY <1>5, <1>7, <1>8
<1>10. \A j \in DOMAIN entries' \ {i} : Sealed(entries'[j])
  BY <1>7, <1>8
<1>11. ASSUME NEW j \in DOMAIN entries', j - 1 # i
       PROVE  entries'[j].prev = IF j = 1 THEN NoHash ELSE entries'[j - 1].hash
  <2>1. entries'[j].prev = entries[j].prev
    BY <1>5, <1>7
  <2>2. j # 1 => entries'[j - 1] = entries[j - 1]
    BY <1>7, <1>11
  <2> QED BY <1>7, <1>8, <2>1, <2>2
<1>12. i + 1 \in DOMAIN entries' => ~Sealed(entries'[i]) \/ entries'[i + 1].prev # entries'[i].hash
  <2>1. i + 1 \in DOMAIN entries => entries'[i + 1].prev = e.hash
    BY <1>1, <1>7, <1>8
  <2> QED BY <1>6, <1>5, <1>7, <2>1
<1> QED
  BY <1>1, <1>7, <1>9, <1>10, <1>11, <1>12 DEF AuditInv, ChainedWell

\* The audit accuses no entry that is as it was appended, and what is overwritten
\* before the last entry is found by the hashes alone, however it was made to fit
\* (security_merkle.go).
THEOREM TamperingIsFound == Guard!AuditSpec => []Guard!TamperingShows
<1>1. Guard!AuditInit => AuditInv
  <2>1. ASSUME Guard!AuditInit PROVE AuditInv
    <3>1. entries = <<>> /\ damaged = {} /\ root = NoHash
      BY <2>1 DEF Guard!AuditInit
    <3>2. Guard!Hashes(entries) = <<>>
      BY <3>1 DEF Guard!Hashes
    <3>3. entries \in Seq({})
      BY <3>1
    <3> QED BY <3>1, <3>2, <3>3 DEF AuditInv, ChainedWell, Guard!RootOf
  <2> QED BY <2>1
<1>2. AuditInv /\ [Guard!AuditNext]_(Guard!auditVars) => AuditInv'
  <2>1. ASSUME AuditInv, UNCHANGED <<entries, root, damaged>> PROVE AuditInv'
    BY <2>1 DEF AuditInv, ChainedWell, Sealed
  <2>2. ASSUME NEW h, NEW i, Guard!GenerateProof(h, i) PROVE UNCHANGED <<entries, root, damaged>>
    BY <2>2 DEF Guard!GenerateProof
  <2> QED
    BY <2>1, <2>2, AppendKeepsAudit, DamageKeepsAudit DEF Guard!AuditNext, Guard!auditVars
<1>3. AuditInv => Guard!TamperingShows
  <2> SUFFICES ASSUME AuditInv PROVE Guard!TamperingShows
    OBVIOUS
  <2>1. ASSUME NEW j \in Guard!DetectTampering PROVE j \in damaged \/ j - 1 \in damaged
    BY <2>1 DEF AuditInv, ChainedWell, Sealed, Guard!DetectTampering, Guard!DetectBreak
  <2>2. DOMAIN entries = 1..Len(entries) /\ Len(entries) \in Nat
    <3>1. PICK S : entries \in Seq(S)
      BY DEF AuditInv
    <3> QED BY <3>1
  <2>3. Guard!DetectTampering \subseteq Int /\ damaged \subseteq Int
    BY <2>2 DEF AuditInv, Guard!DetectTampering, Guard!DetectBreak
  <2>4. ASSUME NEW i \in damaged, i < Len(entries) PROVE Guard!DetectTampering # {}
    <3>1. i + 1 \in DOMAIN entries /\ i + 1 # 1 /\ i \in DOMAIN entries /\ (i + 1) - 1 = i
      BY <2>2, <2>3, <2>4 DEF AuditInv
    <3>2. ~Sealed(entries[i]) \/ entries[i + 1].prev # entries[i].hash
      BY <2>4, <3>1 DEF AuditInv, ChainedWell
    <3>3. i \in Guard!DetectTampering \/ i + 1 \in Guard!DetectTampering
      BY <3>1, <3>2 DEF Sealed, Guard!DetectTampering, Guard!DetectBreak
    <3> QED BY <3>3
  <2>5. ASSUME NEW i \in damaged PROVE Guard!DetectTampering \subseteq {i, i + 1}
    <3>1. ASSUME NEW j \in Guard!DetectTampering PROVE j \in {i, i + 1}
      <4>1. CASE j \in damaged
        BY <4>1 DEF AuditInv
      <4>2. CASE j - 1 \in damaged
        <5>1. j - 1 = i /\ i \in Int /\ j \in Int
          BY <2>3, <4>2 DEF AuditInv
        <5> QED BY <5>1
      <4> QED BY <2>1, <4>1, <4>2
    <3> QED BY <3>1
  <2>6. damaged = {} => Guard!DetectTampering = {} /\ root = Guard!RootOf(Guard!Hashes(entries))
    BY <2>1 DEF AuditInv
  <2> HIDE DEF Guard!DetectTampering
  <2> QED BY <2>4, <2>5, <2>6 DEF Guard!TamperingShows
<1> QED
  BY <1>1, <1>2, <1>3, PTL DEF Guard!AuditSpec

-----------------------------------------------------------------------------
(* The composers. *)

\* The numbers of branches, of steps and of attempts, and what calls keep between them.
Sized == /\ Branches \in Nat \ {0} /\ StepCount \in Nat \ {0} /\ MaxAttempts \in Nat \ {0}
         /\ Interval \in Nat

\* The marks of a trace, what a run may end with, and a run.
Marks == [step : Nat, how : {"ok", "failed", "fatal", "cancelled"}]
RunErrors == {Comp!None, "failed", "fatal", "context", "timeout"}
PipeRuns == [state : {"ready", "checked", "stepped", "ended", "sent"},
             at : Nat \ {0}, trace : Seq(Marks), error : RunErrors]

\* The types of the runs.
RunTypes ==
    /\ kind \in Comp!Kinds /\ ctx \in {"live", "done"}
    /\ timer \in {"idle", "running", "expired", "waiting"}
    /\ attempt \in Nat
    /\ pipe \in [Comp!Index -> PipeRuns]
    /\ did \in [Comp!Index -> Seq(Marks)]

\* What a step of one pipeline leaves alone.
Apart(b) ==
    /\ kind' = kind /\ ctx' = ctx
    /\ UNCHANGED <<Comp!groupVars, outcome, Comp!retryVars, Comp!clockVars>>
    /\ \A c \in Comp!Index \ {b} : pipe'[c] = pipe[c] /\ did'[c] = did[c]

\* It notices that its context has ended.
Notices(b) ==
    /\ pipe[b].state \in {"ready", "stepped"} /\ Comp!Done
    /\ pipe'[b].state = "ended" /\ pipe'[b].error = "context" /\ did'[b] = did[b]
    /\ \E i \in Nat : pipe'[b].trace = Append(pipe[b].trace, Comp!Mark(i, "cancelled"))

\* The context is live and a step is next.
GoesOn(b) ==
    /\ \/ pipe[b].state = "ready" /\ pipe'[b].state = "checked"
       \/ pipe[b].state = "stepped" /\ pipe'[b].state = "ready" /\ pipe[b].at <= StepCount
    /\ pipe'[b].error = pipe[b].error /\ pipe'[b].at = pipe[b].at
    /\ pipe'[b].trace = pipe[b].trace /\ did'[b] = did[b]

\* The steps are done.
Finishes(b) ==
    /\ pipe[b].state = "stepped" /\ pipe[b].at > StepCount
    /\ pipe'[b].state = "ended" /\ pipe'[b].error = Comp!None
    /\ pipe'[b].trace = pipe[b].trace /\ did'[b] = did[b]

\* It executes a step.
Does(b, m) ==
    /\ pipe[b].state = "checked" /\ m.step = pipe[b].at
    /\ did'[b] = Append(did[b], m) /\ pipe'[b].trace = Append(pipe[b].trace, m)
    /\ \/ /\ m.how = "ok" /\ pipe'[b].state = "stepped" /\ pipe'[b].at = pipe[b].at + 1
          /\ pipe'[b].error = pipe[b].error
       \/ m.how \in {"failed", "fatal"} /\ pipe'[b].state = "ended" /\ pipe'[b].error = m.how

\* A run that ends is of its type, and the others are as they were.
LEMMA EndedRun ==
    ASSUME RunTypes, NEW b \in Comp!Index, NEW mark \in Seq(Marks), NEW error \in RunErrors
    PROVE  /\ Comp!Ended(b, mark, error) \in [Comp!Index -> PipeRuns]
           /\ \A c \in Comp!Index \ {b} : Comp!Ended(b, mark, error)[c] = pipe[c]
           /\ Comp!Ended(b, mark, error)[b].state = "ended"
           /\ Comp!Ended(b, mark, error)[b].error = error
           /\ Comp!Ended(b, mark, error)[b].trace = pipe[b].trace \o mark
<1>1. pipe[b] \in PipeRuns
  BY DEF RunTypes
<1>2. pipe[b].trace \o mark \in Seq(Marks)
  BY <1>1 DEF PipeRuns
<1> DEFINE new == [[[pipe[b] EXCEPT !.state = "ended"] EXCEPT !.error = error]
                      EXCEPT !.trace = pipe[b].trace \o mark]
<1>3. new \in PipeRuns /\ new.state = "ended" /\ new.error = error
      /\ new.trace = pipe[b].trace \o mark
  BY <1>1, <1>2 DEF PipeRuns
<1>4. Comp!Ended(b, mark, error) = [pipe EXCEPT ![b] = new]
  BY DEF Comp!Ended, RunTypes
<1> HIDE DEF new
<1> QED BY <1>3, <1>4 DEF RunTypes

\* A mark is put at the end of a trace.
LEMMA AddMark ==
    ASSUME NEW q \in Seq(Marks), NEW m \in Marks
    PROVE  <<m>> \in Seq(Marks) /\ q \o <<m>> = Append(q, m)
OBVIOUS

\* Nothing is put at the end of a trace.
LEMMA AddNothing ==
    ASSUME NEW q \in Seq(Marks)
    PROVE  <<>> \in Seq(Marks) /\ q \o <<>> = q
OBVIOUS

\* A step of a pipeline is one of four: its context has ended, it goes on, it finishes, or
\* it executes a step (Pipeline.Run).
LEMMA PipelineSteps ==
    ASSUME Sized, RunTypes, NEW b \in Comp!Index, Comp!Pipeline(b)
    PROVE  /\ RunTypes' /\ Comp!Running(b) /\ Apart(b)
           /\ \/ Notices(b) \/ GoesOn(b) \/ Finishes(b) \/ \E m \in Marks : Does(b, m)
<1>1. pipe[b] \in PipeRuns /\ did[b] \in Seq(Marks)
  BY DEF RunTypes
<1>t. /\ pipe[b].state \in {"ready", "checked", "stepped", "ended", "sent"}
      /\ pipe[b].at \in Nat \ {0} /\ pipe[b].trace \in Seq(Marks) /\ pipe[b].error \in RunErrors
  BY <1>1 DEF PipeRuns
<1>2. Comp!OnlyPipe /\ Comp!Running(b)
  BY DEF Comp!Pipeline, Comp!BeforeStep, Comp!ExecuteStep, Comp!AfterStep
<1>3. ASSUME pipe' \in [Comp!Index -> PipeRuns], did' \in [Comp!Index -> Seq(Marks)]
      PROVE  RunTypes'
  BY <1>2, <1>3 DEF RunTypes, Comp!OnlyPipe, Comp!retryVars
<1>4. ASSUME \A c \in Comp!Index \ {b} : pipe'[c] = pipe[c] /\ did'[c] = did[c]
      PROVE  Apart(b)
  BY <1>2, <1>4 DEF Apart, Comp!OnlyPipe
<1>5. ASSUME NEW i \in Nat, Comp!Done, pipe[b].state \in {"ready", "stepped"}, did' = did,
             pipe' = Comp!Ended(b, <<Comp!Mark(i, "cancelled")>>, "context")
      PROVE  RunTypes' /\ Apart(b) /\ Notices(b)
  <2>1. Comp!Mark(i, "cancelled") \in Marks
    BY DEF Comp!Mark, Marks
  <2>2. /\ <<Comp!Mark(i, "cancelled")>> \in Seq(Marks)
        /\ pipe[b].trace \o <<Comp!Mark(i, "cancelled")>>
              = Append(pipe[b].trace, Comp!Mark(i, "cancelled"))
    BY <1>t, <2>1, AddMark
  <2>3. "context" \in RunErrors
    BY DEF RunErrors
  <2>4. pipe' \in [Comp!Index -> PipeRuns] /\ did' \in [Comp!Index -> Seq(Marks)]
    BY <1>5, <2>2, <2>3, EndedRun DEF RunTypes
  <2>5. /\ \A c \in Comp!Index \ {b} : pipe'[c] = pipe[c] /\ did'[c] = did[c]
        /\ pipe'[b].state = "ended" /\ pipe'[b].error = "context"
        /\ pipe'[b].trace = pipe[b].trace \o <<Comp!Mark(i, "cancelled")>>
    <3> DEFINE mark == <<Comp!Mark(i, "cancelled")>>
    <3>1. mark \in Seq(Marks) /\ pipe' = Comp!Ended(b, mark, "context")
      BY <1>5, <2>2
    <3> HIDE DEF mark
    <3>2. /\ \A c \in Comp!Index \ {b} : Comp!Ended(b, mark, "context")[c] = pipe[c]
          /\ Comp!Ended(b, mark, "context")[b].state = "ended"
          /\ Comp!Ended(b, mark, "context")[b].error = "context"
          /\ Comp!Ended(b, mark, "context")[b].trace = pipe[b].trace \o mark
      BY <2>3, <3>1, EndedRun
    <3>3. /\ \A c \in Comp!Index \ {b} : pipe'[c] = pipe[c]
          /\ pipe'[b].state = "ended" /\ pipe'[b].error = "context"
          /\ pipe'[b].trace = pipe[b].trace \o mark
      BY <3>1, <3>2
    <3> QED BY <1>5, <3>3 DEF mark
  <2> QED BY <1>3, <1>4, <1>5, <2>2, <2>4, <2>5 DEF Notices
<1>6. CASE Comp!BeforeStep(b)
  <2>1. CASE Comp!Done
    BY <1>2, <1>5, <1>6, <1>t, <2>1 DEF Comp!BeforeStep
  <2>2. CASE ~Comp!Done
    <3>1. pipe' = [pipe EXCEPT ![b] = [pipe[b] EXCEPT !.state = "checked"]] /\ did' = did
      BY <1>6, <2>2 DEF Comp!BeforeStep, RunTypes
    <3>2. [pipe[b] EXCEPT !.state = "checked"] \in PipeRuns
      BY <1>1 DEF PipeRuns
    <3>3. pipe' \in [Comp!Index -> PipeRuns] /\ did' \in [Comp!Index -> Seq(Marks)]
      BY <3>1, <3>2 DEF RunTypes
    <3>4. \A c \in Comp!Index \ {b} : pipe'[c] = pipe[c] /\ did'[c] = did[c]
      BY <3>1 DEF RunTypes
    <3>5. pipe'[b] = [pipe[b] EXCEPT !.state = "checked"]
      BY <3>1 DEF RunTypes
    <3>6. GoesOn(b)
      BY <1>1, <1>6, <3>1, <3>5 DEF GoesOn, PipeRuns, Comp!BeforeStep
    <3> QED BY <1>2, <1>3, <1>4, <3>3, <3>4, <3>6
  <2> QED BY <2>1, <2>2
<1>7. CASE Comp!ExecuteStep(b)
  <2>1. PICK how \in {"ok", "failed", "fatal"} :
          /\ did' = [did EXCEPT ![b] = @ \o <<Comp!Mark(pipe[b].at, how)>>]
          /\ pipe' = IF how = "ok"
                     THEN [pipe EXCEPT ![b].state = "stepped", ![b].at = @ + 1,
                                       ![b].trace = @ \o <<Comp!Mark(pipe[b].at, how)>>]
                     ELSE Comp!Ended(b, <<Comp!Mark(pipe[b].at, how)>>, how)
    BY <1>7 DEF Comp!ExecuteStep
  <2>2. PICK m \in Marks : m = Comp!Mark(pipe[b].at, how)
    BY <1>t DEF Comp!Mark, Marks
  <2>3. m.how = how /\ m.step = pipe[b].at
    BY <2>2 DEF Comp!Mark
  <2>4. /\ <<m>> \in Seq(Marks) /\ pipe[b].trace \o <<m>> = Append(pipe[b].trace, m)
        /\ did[b] \o <<m>> = Append(did[b], m) /\ Append(did[b], m) \in Seq(Marks)
        /\ Append(pipe[b].trace, m) \in Seq(Marks)
    BY <1>1, <1>t, AddMark
  <2>5. /\ did' \in [Comp!Index -> Seq(Marks)] /\ did'[b] = Append(did[b], m)
        /\ \A c \in Comp!Index \ {b} : did'[c] = did[c]
    BY <2>1, <2>2, <2>4 DEF RunTypes
  <2>6. CASE how = "ok"
    <3>0. PICK n \in Nat \ {0} : n = pipe[b].at + 1
      BY <1>t
    <3> DEFINE new == [[[pipe[b] EXCEPT !.state = "stepped"] EXCEPT !.at = n]
                          EXCEPT !.trace = Append(pipe[b].trace, m)]
    <3>1. new \in PipeRuns
      BY <1>1, <1>t, <2>4 DEF PipeRuns
    <3>2. /\ new.state = "stepped" /\ new.at = n /\ new.error = pipe[b].error
          /\ new.trace = Append(pipe[b].trace, m)
      BY <1>1 DEF PipeRuns
    <3>3. pipe' = [pipe EXCEPT ![b] = new]
      BY <2>1, <2>2, <2>4, <2>6, <3>0 DEF RunTypes
    <3> HIDE DEF new
    <3>4. /\ pipe' \in [Comp!Index -> PipeRuns] /\ pipe'[b] = new
          /\ \A c \in Comp!Index \ {b} : pipe'[c] = pipe[c]
      BY <3>1, <3>3 DEF RunTypes
    <3>5. Does(b, m)
      BY <1>7, <2>3, <2>5, <2>6, <3>0, <3>2, <3>4 DEF Does, Comp!ExecuteStep
    <3> QED BY <1>2, <1>3, <1>4, <2>5, <3>4, <3>5
  <2>7. CASE how # "ok"
    <3>1. pipe' = Comp!Ended(b, <<m>>, how) /\ how \in RunErrors
      BY <2>1, <2>2, <2>7 DEF RunErrors
    <3>2. /\ pipe' \in [Comp!Index -> PipeRuns] /\ \A c \in Comp!Index \ {b} : pipe'[c] = pipe[c]
          /\ pipe'[b].state = "ended" /\ pipe'[b].error = how
          /\ pipe'[b].trace = pipe[b].trace \o <<m>>
      <4>1. /\ Comp!Ended(b, <<m>>, how) \in [Comp!Index -> PipeRuns]
            /\ \A c \in Comp!Index \ {b} : Comp!Ended(b, <<m>>, how)[c] = pipe[c]
            /\ Comp!Ended(b, <<m>>, how)[b].state = "ended"
            /\ Comp!Ended(b, <<m>>, how)[b].error = how
            /\ Comp!Ended(b, <<m>>, how)[b].trace = pipe[b].trace \o <<m>>
        BY <2>4, <3>1, EndedRun
      <4> QED BY <3>1, <4>1
    <3>3. Does(b, m)
      BY <1>7, <2>1, <2>3, <2>4, <2>5, <2>7, <3>2 DEF Does, Comp!ExecuteStep
    <3> QED BY <1>2, <1>3, <1>4, <2>5, <3>2, <3>3
  <2> QED BY <2>6, <2>7
<1>8. CASE Comp!AfterStep(b)
  <2>1. CASE Comp!Done
    <3>1. pipe[b].at - 1 \in Nat
      BY <1>t
    <3> QED BY <1>2, <1>5, <1>8, <1>t, <2>1, <3>1 DEF Comp!AfterStep
  <2>2. CASE ~Comp!Done /\ pipe[b].at > StepCount
    <3>1. pipe' = Comp!Ended(b, <<>>, Comp!None) /\ Comp!None \in RunErrors /\ did' = did
      BY <1>8, <2>2 DEF Comp!AfterStep, RunErrors
    <3>2. <<>> \in Seq(Marks) /\ pipe[b].trace \o <<>> = pipe[b].trace
      BY <1>t, AddNothing
    <3>3. /\ pipe' \in [Comp!Index -> PipeRuns] /\ \A c \in Comp!Index \ {b} : pipe'[c] = pipe[c]
          /\ pipe'[b].state = "ended" /\ pipe'[b].error = Comp!None
          /\ pipe'[b].trace = pipe[b].trace
      <4>1. /\ Comp!Ended(b, <<>>, Comp!None) \in [Comp!Index -> PipeRuns]
            /\ \A c \in Comp!Index \ {b} : Comp!Ended(b, <<>>, Comp!None)[c] = pipe[c]
            /\ Comp!Ended(b, <<>>, Comp!None)[b].state = "ended"
            /\ Comp!Ended(b, <<>>, Comp!None)[b].error = Comp!None
            /\ Comp!Ended(b, <<>>, Comp!None)[b].trace = pipe[b].trace \o <<>>
        BY <3>1, <3>2, EndedRun
      <4> QED BY <3>1, <3>2, <4>1
    <3>4. Finishes(b)
      BY <1>8, <2>2, <3>1, <3>3 DEF Finishes, Comp!AfterStep
    <3> QED BY <1>2, <1>3, <1>4, <3>1, <3>3, <3>4 DEF RunTypes
  <2>3. CASE ~Comp!Done /\ ~(pipe[b].at > StepCount)
    <3>0. pipe' = [pipe EXCEPT ![b].state = "ready"] /\ did' = did /\ pipe[b].state = "stepped"
      BY <1>8, <2>3 DEF Comp!AfterStep
    <3>1. pipe' = [pipe EXCEPT ![b] = [pipe[b] EXCEPT !.state = "ready"]]
      BY <3>0 DEF RunTypes
    <3>2. [pipe[b] EXCEPT !.state = "ready"] \in PipeRuns
      BY <1>1 DEF PipeRuns
    <3>3. pipe' \in [Comp!Index -> PipeRuns] /\ did' \in [Comp!Index -> Seq(Marks)]
      BY <3>0, <3>1, <3>2 DEF RunTypes
    <3>4. \A c \in Comp!Index \ {b} : pipe'[c] = pipe[c] /\ did'[c] = did[c]
      BY <3>0, <3>1 DEF RunTypes
    <3>5. pipe'[b] = [pipe[b] EXCEPT !.state = "ready"]
      BY <3>1 DEF RunTypes
    <3>6. GoesOn(b)
      <4>1. /\ pipe'[b].state = "ready" /\ pipe'[b].error = pipe[b].error
            /\ pipe'[b].at = pipe[b].at /\ pipe'[b].trace = pipe[b].trace
        BY <1>1, <3>5 DEF PipeRuns
      <4> QED BY <1>t, <2>3, <3>0, <4>1 DEF GoesOn, Sized
    <3> QED BY <1>2, <1>3, <1>4, <3>3, <3>4, <3>6
  <2> QED BY <2>1, <2>2, <2>3
<1> QED BY <1>6, <1>7, <1>8 DEF Comp!Pipeline

-----------------------------------------------------------------------------

\* A branch has gone through its steps in their order; its trace is what it did, with a
\* last mark if it noticed that its context had ended.
BranchInOrder(b) ==
    LET n == Len(did[b]) IN
    /\ \A i \in 1 .. n - 1 : did[b][i].how = "ok" /\ did[b][i].step = i
    /\ ~Comp!Ends(b) =>
          /\ pipe[b].trace = did[b] /\ pipe[b].error = Comp!None
          /\ pipe[b].at = n + 1
          /\ n > 0 => did[b][n].how = "ok" /\ did[b][n].step = n
          /\ pipe[b].at =< (IF pipe[b].state = "stepped" THEN StepCount + 1 ELSE StepCount)
    /\ Comp!Ends(b) =>
          \/ pipe[b].error # "context" /\ pipe[b].trace = did[b]
          \/ /\ pipe[b].error = "context" /\ ctx = "done"
             /\ \E i \in Nat : pipe[b].trace = Append(did[b], Comp!Mark(i, "cancelled"))
    /\ Comp!Ends(b) /\ pipe[b].error = Comp!None => n = StepCount

\* A branch stays in order (Pipeline.Run).
LEMMA BranchStep ==
    ASSUME Sized, RunTypes, timer = "idle", NEW b \in Comp!Index, BranchInOrder(b), Comp!Pipeline(b)
    PROVE  BranchInOrder(b)'
<1>1. /\ pipe[b] \in PipeRuns /\ did[b] \in Seq(Marks)
      /\ pipe'[b] \in PipeRuns /\ did'[b] \in Seq(Marks)
  BY PipelineSteps DEF RunTypes
<1>2. /\ pipe[b].at \in Nat \ {0} /\ pipe[b].trace \in Seq(Marks)
      /\ pipe'[b].at \in Nat \ {0} /\ pipe'[b].trace \in Seq(Marks)
      /\ pipe[b].state \in {"ready", "checked", "stepped", "ended", "sent"}
  BY <1>1 DEF PipeRuns
<1>3. ctx' = ctx
  BY PipelineSteps DEF Apart
<1>4. CASE Notices(b)
  <2>1. /\ ~Comp!Ends(b) /\ Comp!Ends(b)' /\ did'[b] = did[b]
        /\ pipe'[b].error = "context" /\ ctx = "done"
    BY <1>4 DEF Notices, Comp!Ends, Comp!Done
  <2>2. \E i \in Nat : pipe'[b].trace = Append(did[b], Comp!Mark(i, "cancelled"))
    BY <1>4, <2>1 DEF Notices, BranchInOrder
  <2>3. pipe'[b].error # Comp!None /\ pipe'[b].state # "stepped"
    BY <1>4, <2>1 DEF Comp!None, Notices
  <2> QED BY <1>3, <2>1, <2>2, <2>3 DEF BranchInOrder, Comp!Mark
<1>5. CASE GoesOn(b)
  BY <1>1, <1>2, <1>3, <1>5 DEF GoesOn, BranchInOrder, Comp!Ends, Sized
<1>6. CASE Finishes(b)
  BY <1>1, <1>2, <1>3, <1>6 DEF Finishes, BranchInOrder, Comp!Ends, Sized, Comp!None
<1>7. ASSUME NEW m \in Marks, Does(b, m)
      PROVE  BranchInOrder(b)'
  <2>1. Len(did'[b]) = Len(did[b]) + 1 /\ did'[b][Len(did[b]) + 1] = m
        /\ \A i \in 1 .. Len(did[b]) : did'[b][i] = did[b][i]
    BY <1>1, <1>7 DEF Does
  <2>2. /\ pipe[b].trace = did[b] /\ pipe[b].error = Comp!None /\ pipe[b].at = Len(did[b]) + 1
        /\ pipe[b].at =< StepCount
        /\ \A i \in 1 .. Len(did[b]) : did[b][i].how = "ok" /\ did[b][i].step = i
    BY <1>1, <1>2, <1>7 DEF Does, BranchInOrder, Comp!Ends
  <2>3. /\ Len(did[b]) \in Nat /\ Len(did'[b]) \in Nat
        /\ \A i \in 1 .. Len(did'[b]) - 1 : did'[b][i].how = "ok" /\ did'[b][i].step = i
    BY <1>1, <2>1, <2>2
  <2>4. pipe'[b].trace = did'[b]
    BY <1>7, <2>2 DEF Does
  <2>5. CASE m.how = "ok"
    BY <1>2, <1>7, <2>1, <2>2, <2>3, <2>4, <2>5 DEF BranchInOrder, Comp!Ends, Sized, Does
  <2>6. CASE m.how # "ok"
    BY <1>2, <1>7, <2>1, <2>2, <2>3, <2>4, <2>6 DEF BranchInOrder, Comp!Ends, Sized, Does,
       Comp!None
  <2> QED BY <2>5, <2>6
<1> QED BY <1>4, <1>5, <1>6, <1>7, PipelineSteps

\* What the branches and their caller know of one another (RunParallel).
ChannelInOrder ==
    kind = "parallel" =>
       /\ channel \in Seq(Comp!Index)
       /\ \A i \in DOMAIN channel : pipe[channel[i]].state = "sent"
       /\ \A b \in Comp!Index : pipe[b].state = "sent" =>
             \/ \E i \in DOMAIN channel : channel[i] = b
             \/ results[b] = [error |-> pipe[b].error, steps |-> pipe[b].trace]
       /\ closed => \A b \in Comp!Index : pipe[b].state = "sent"
       /\ DOMAIN results = Comp!Index /\ results = [b \in Comp!Index |-> results[b]]

\* The caller has an answer, and has not left with its context.
Answered == outcome # Comp!NoAnswer /\ outcome.error # "context"

\* The invariant of pipelines that run in parallel: no branch moves once it was answered for.
ParallelInv ==
    /\ Comp!Parallel => timer = "idle" /\ \A b \in Comp!Index : BranchInOrder(b)
    /\ ChannelInOrder
    /\ Comp!Parallel /\ Answered =>
          \A b \in Comp!Index : pipe[b].state = (IF kind = "fanout" THEN "ended" ELSE "sent")
    /\ kind = "fanout" => \A b \in Comp!Index : pipe[b].state # "sent"
    /\ Comp!ParallelIsComplete

\* The first of the branches that failing.
LEMMA FirstOfFailed ==
    ASSUME Sized, NEW failing \in SUBSET Comp!Index, failing # {}
    PROVE  /\ \E b \in failing : \A c \in failing : b <= c
           /\ \A b, c \in failing :
                 (\A d \in failing : b <= d) /\ (\A d \in failing : c <= d) => b = c
<1>1. failing \subseteq Nat
  BY DEF Comp!Index, Sized
<1>2. PICK b \in failing : \A c \in failing : <<c, b>> \notin OpToRel(<, Nat)
  BY <1>1, NatLessThanWellFounded, WFMin
<1>3. \A x, y \in Nat : x < y => <<x, y>> \in OpToRel(<, Nat)
  <2>1. \A x, y \in Nat : x < y => <<x, y>> \in {ss \in Nat \X Nat : ss[1] < ss[2]}
    OBVIOUS
  <2> QED BY <2>1, Zenon DEF OpToRel
<1>4. \A c \in failing : ~(c < b)
  BY <1>1, <1>2, <1>3, Zenon
<1>5. \A c \in failing : b <= c
  BY <1>1, <1>4
<1> QED BY <1>1, <1>5

\* A composer does not become another one.
LEMMA KindStays ==
    ASSUME Comp!Next
    PROVE  kind' = kind
BY DEF Comp!Next, Comp!ContextEnds, Comp!TimeoutExpires, Comp!Tick, Comp!Pipeline,
   Comp!BeforeStep, Comp!ExecuteStep, Comp!AfterStep, Comp!OnlyPipe, Comp!Send, Comp!Group,
   Comp!CloseResults, Comp!Collect, Comp!ReturnResults, Comp!ReturnEarly, Comp!FanOut,
   Comp!Retry, Comp!WithRetry, Comp!BeginAttempt, Comp!EndAttempt, Comp!Delayed,
   Comp!CallFunction, Comp!Backoff, Comp!Spacing, Comp!Debounce, Comp!ThrottleWaits,
   Comp!ThrottleCalls, Comp!ThrottleCancelled, Comp!OnlyCalls

\* The pipelines change only in their own steps, when one is sent and around an attempt.
LEMMA RunTypesStep ==
    ASSUME Sized, RunTypes, [Comp!Next]_(Comp!vars)
    PROVE  RunTypes'
<1>0. 1 \in Comp!Index
  BY DEF Comp!Index, Sized
<1>1. CASE \E b \in Comp!Index : Comp!Pipeline(b)
  BY <1>1, PipelineSteps
<1>2. ASSUME NEW b \in Comp!Index, Comp!Send(b)
      PROVE  RunTypes'
  <2>1. [pipe[b] EXCEPT !.state = "sent"] \in PipeRuns
    BY DEF RunTypes, PipeRuns
  <2>2. pipe' = [pipe EXCEPT ![b] = [pipe[b] EXCEPT !.state = "sent"]]
    BY <1>2 DEF Comp!Send, RunTypes
  <2> QED BY <1>2, <2>1, <2>2 DEF Comp!Send, RunTypes, Comp!retryVars
<1>3. CASE Comp!BeginAttempt
  <2>1. Comp!Fresh \in PipeRuns
    <3>1. <<>> \in Seq(Marks)
      OBVIOUS
    <3> QED BY <3>1 DEF Comp!Fresh, PipeRuns, RunErrors
  <2>2. pipe' \in [Comp!Index -> PipeRuns]
    BY <1>0, <1>3, <2>1 DEF Comp!BeginAttempt, RunTypes
  <2>3. attempt' \in Nat
    BY <1>3 DEF Comp!BeginAttempt, RunTypes
  <2> QED BY <1>3, <2>2, <2>3 DEF Comp!BeginAttempt, RunTypes
<1>4. CASE Comp!EndAttempt
  <2>1. Comp!Judged \in RunErrors
    BY <1>0 DEF Comp!Judged, RunErrors, RunTypes, PipeRuns
  <2>2. [pipe[1] EXCEPT !.error = Comp!Judged] \in PipeRuns
    BY <1>0, <2>1 DEF RunTypes, PipeRuns
  <2>3. pipe' = [pipe EXCEPT ![1] = [pipe[1] EXCEPT !.error = Comp!Judged]]
    BY <1>0, <1>4 DEF Comp!EndAttempt, RunTypes
  <2>4. pipe' \in [Comp!Index -> PipeRuns]
    BY <1>0, <2>2, <2>3 DEF RunTypes
  <2>5. timer' \in {"idle", "waiting"}
    BY <1>4 DEF Comp!EndAttempt
  <2> QED BY <1>4, <2>4, <2>5 DEF Comp!EndAttempt, RunTypes
<1>5. CASE Comp!CallFunction
  BY <1>5 DEF Comp!CallFunction, RunTypes, Comp!runVars
<1>6. CASE \/ Comp!ContextEnds \/ Comp!TimeoutExpires \/ Comp!Tick
           \/ Comp!Group \/ Comp!Delayed \/ Comp!Backoff
           \/ \E c \in Clients : Comp!Spacing(c)
  <2>1. /\ UNCHANGED <<kind, pipe, did, attempt>> /\ ctx' \in {ctx, "done"}
        /\ timer' \in {timer, "expired", "idle"}
    BY <1>6 DEF Comp!ContextEnds, Comp!TimeoutExpires, Comp!Tick, Comp!Group, Comp!CloseResults,
       Comp!Collect, Comp!ReturnResults, Comp!ReturnEarly, Comp!FanOut, Comp!Delayed,
       Comp!Backoff, Comp!Spacing, Comp!Debounce, Comp!ThrottleWaits, Comp!ThrottleCalls,
       Comp!ThrottleCancelled, Comp!OnlyCalls, Comp!runVars, Comp!retryVars
  <2> QED BY <2>1 DEF RunTypes
<1>7. CASE UNCHANGED Comp!vars
  BY <1>7 DEF Comp!vars, Comp!runVars, Comp!retryVars, RunTypes
<1> QED
  BY <1>1, <1>2, <1>3, <1>4, <1>5, <1>6, <1>7 DEF Comp!Next, Comp!Retry, Comp!WithRetry

\* Nothing else moves the branches of a parallel run.
LEMMA SameRuns ==
    ASSUME ParallelInv, UNCHANGED <<kind, pipe, did, timer>>, ctx' \in {ctx, "done"}, Comp!Parallel
    PROVE  /\ (Comp!Parallel => timer = "idle" /\ \A b \in Comp!Index : BranchInOrder(b))'
           /\ (kind = "fanout" => \A b \in Comp!Index : pipe[b].state # "sent")'
BY DEF ParallelInv, BranchInOrder, Comp!Ends, Comp!Parallel, Comp!Index

\* An answer stays right while no branch moves.
LEMMA SameAnswer ==
    ASSUME ParallelInv, UNCHANGED <<kind, pipe, did, outcome>>
    PROVE  /\ Comp!ParallelIsComplete'
           /\ (Comp!Parallel /\ Answered =>
                \A b \in Comp!Index :
                   pipe[b].state = (IF kind = "fanout" THEN "ended" ELSE "sent"))'
BY DEF ParallelInv, Comp!ParallelIsComplete, Answered, Comp!Ends, Comp!Parallel, Comp!Index

\* As long as nobody was answered nothing is asked of the answer.
LEMMA NotAnswered ==
    ASSUME kind' = kind, ~Answered'
    PROVE  /\ Comp!ParallelIsComplete'
           /\ (Comp!Parallel /\ Answered =>
                \A b \in Comp!Index :
                   pipe[b].state = (IF kind = "fanout" THEN "ended" ELSE "sent"))'
BY DEF Comp!ParallelIsComplete, Answered

\* A branch that does not move stays in order.
LEMMA SameBranch ==
    ASSUME NEW c \in Comp!Index, pipe'[c] = pipe[c], did'[c] = did[c], ctx' = ctx, BranchInOrder(c)
    PROVE  BranchInOrder(c)'
BY Zenon DEF BranchInOrder, Comp!Ends

\* A branch whose result is sent stays in order.
LEMMA SentBranch ==
    ASSUME NEW c \in Comp!Index, pipe'[c].error = pipe[c].error, pipe'[c].trace = pipe[c].trace,
           did'[c] = did[c], ctx' = ctx, BranchInOrder(c),
           pipe[c].state = "ended", pipe'[c].state = "sent"
    PROVE  BranchInOrder(c)'
<1>1. Comp!Ends(c) /\ Comp!Ends(c)' /\ pipe'[c].state # "stepped"
  BY DEF Comp!Ends
<1> QED BY <1>1, Zenon DEF BranchInOrder

\* What is appended is there.
LEMMA Appended ==
    ASSUME NEW S, NEW q \in Seq(S), NEW e \in S
    PROVE  \E i \in DOMAIN Append(q, e) : Append(q, e)[i] = e
<1>1. Len(q) + 1 \in DOMAIN Append(q, e) /\ Append(q, e)[Len(q) + 1] = e
  OBVIOUS
<1> QED BY <1>1, Zenon

\* The branches of a parallel run and the channel that they send on (RunParallel).
LEMMA BranchesStep ==
    ASSUME Sized, RunTypes, ParallelInv, Comp!Parallel, NEW b \in Comp!Index,
           Comp!Pipeline(b) \/ Comp!Send(b)
    PROVE  ParallelInv'
<1>1. pipe[b].state \in {"ready", "checked", "stepped", "ended"}
      /\ (pipe[b].state = "ended" => kind = "parallel")
  BY DEF Comp!Pipeline, Comp!BeforeStep, Comp!ExecuteStep, Comp!AfterStep, Comp!Send
<1>2. ~Answered
  BY <1>1 DEF ParallelInv
<1>3. CASE Comp!Pipeline(b)
  <2>1. /\ Apart(b) /\ pipe'[b].state # "sent" /\ pipe[b].state # "sent"
        /\ pipe \in [Comp!Index -> PipeRuns] /\ pipe' \in [Comp!Index -> PipeRuns]
        /\ Notices(b) \/ GoesOn(b) \/ Finishes(b) \/ \E m \in Marks : Does(b, m)
    BY <1>3, PipelineSteps DEF Notices, GoesOn, Finishes, Does, RunTypes
  <2>2. /\ UNCHANGED <<kind, ctx, timer, outcome, channel, closed, results>>
        /\ \A c \in Comp!Index \ {b} : pipe'[c] = pipe[c] /\ did'[c] = did[c]
    BY <2>1 DEF Apart, Comp!groupVars, Comp!retryVars
  <2>3. BranchInOrder(b)'
    BY <1>3, BranchStep DEF ParallelInv
  <2>4. \A c \in Comp!Index \ {b} : BranchInOrder(c)'
    BY <2>2, SameBranch DEF ParallelInv
  <2>5. ChannelInOrder'
    <3>1. CASE kind = "parallel"
      <4>1. /\ channel \in Seq(Comp!Index)
            /\ \A i \in DOMAIN channel : pipe[channel[i]].state = "sent"
        BY <3>1 DEF ParallelInv, ChannelInOrder
      <4>2. \A i \in DOMAIN channel : channel[i] \in Comp!Index
        BY <4>1
      <4>3. \A i \in DOMAIN channel : channel[i] # b
        BY <2>1, <4>1
      <4>4. \A i \in DOMAIN channel : pipe'[channel[i]].state = "sent"
        BY <2>2, <4>1, <4>2, <4>3
      <4>5. \A c \in Comp!Index : pipe'[c].state = "sent" =>
               c # b /\ pipe'[c] = pipe[c] /\ pipe[c].state = "sent"
        BY <2>1, <2>2
      <4>6. \A c \in Comp!Index : pipe'[c].state = "sent" =>
             \/ \E i \in DOMAIN channel : channel[i] = c
             \/ results[c] = [error |-> pipe'[c].error, steps |-> pipe'[c].trace]
        BY <3>1, <4>5 DEF ParallelInv, ChannelInOrder
      <4>7. ~closed
        BY <2>1, <3>1 DEF ParallelInv, ChannelInOrder
      <4>8. DOMAIN results = Comp!Index /\ results = [c \in Comp!Index |-> results[c]]
        BY <3>1 DEF ParallelInv, ChannelInOrder
      <4> QED BY <2>2, <4>1, <4>4, <4>6, <4>7, <4>8 DEF ChannelInOrder, Comp!Index
    <3> QED BY <2>2, <3>1 DEF ChannelInOrder
  <2>6. ~Answered'
    BY <1>2, <2>2 DEF Answered
  <2> QED BY <2>1, <2>2, <2>3, <2>4, <2>5, <2>6, NotAnswered DEF ParallelInv, Comp!Parallel,
     Comp!Index
<1>4. CASE Comp!Send(b)
  <2>1. /\ UNCHANGED <<kind, ctx, timer, outcome, did, closed, results>> /\ kind = "parallel"
        /\ channel' = Append(channel, b) /\ pipe[b].state = "ended"
        /\ pipe'[b].state = "sent" /\ pipe'[b].error = pipe[b].error
        /\ pipe'[b].trace = pipe[b].trace /\ pipe'[b].at = pipe[b].at
        /\ \A c \in Comp!Index \ {b} : pipe'[c] = pipe[c]
    BY <1>4 DEF Comp!Send, RunTypes, PipeRuns, Comp!retryVars
  <2>2. \A c \in Comp!Index : BranchInOrder(c)'
    BY <2>1, SameBranch, SentBranch DEF ParallelInv
  <2>3. ChannelInOrder'
    <3>1. /\ channel \in Seq(Comp!Index) /\ channel' \in Seq(Comp!Index)
          /\ Len(channel') = Len(channel) + 1
          /\ DOMAIN channel = 1 .. Len(channel) /\ DOMAIN channel' = 1 .. Len(channel) + 1
          /\ \A i \in DOMAIN channel : channel'[i] = channel[i] /\ i \in DOMAIN channel'
          /\ channel'[Len(channel) + 1] = b /\ Len(channel) + 1 \in DOMAIN channel'
      BY <2>1 DEF ParallelInv, ChannelInOrder
    <3>2. \A i \in DOMAIN channel' : pipe'[channel'[i]].state = "sent"
      <4>1. \A i \in DOMAIN channel' : i \in DOMAIN channel \/ i = Len(channel) + 1
        BY <3>1
      <4>2. \A i \in DOMAIN channel : channel[i] \in Comp!Index /\ pipe[channel[i]].state = "sent"
        BY <2>1, <3>1 DEF ParallelInv, ChannelInOrder
      <4> QED BY <2>1, <3>1, <4>1, <4>2
    <3>3. \A c \in Comp!Index : pipe'[c].state = "sent" =>
             \/ \E i \in DOMAIN channel' : channel'[i] = c
             \/ results'[c] = [error |-> pipe'[c].error, steps |-> pipe'[c].trace]
      <4>1. \A c \in Comp!Index \ {b} : pipe'[c].state = "sent" =>
             \/ \E i \in DOMAIN channel' : channel'[i] = c
             \/ results'[c] = [error |-> pipe'[c].error, steps |-> pipe'[c].trace]
        BY <2>1, <3>1 DEF ParallelInv, ChannelInOrder
      <4>2. \E i \in DOMAIN channel' : channel'[i] = b
        BY <2>1, <3>1, Appended
      <4> QED BY <4>1, <4>2, Zenon
    <3> QED BY <2>1, <3>1, <3>2, <3>3 DEF ParallelInv, ChannelInOrder, Comp!Index
  <2>4. ~Answered'
    BY <1>2, <2>1 DEF Answered
  <2> QED BY <2>1, <2>2, <2>3, <2>4, NotAnswered DEF ParallelInv, Comp!Index
<1> QED BY <1>3, <1>4

\* The goroutine that closes the channel and the caller that collects from it
\* (RunParallel, FanOut.Run).
LEMMA GroupStep ==
    ASSUME Sized, RunTypes, ParallelInv, Comp!Parallel, Comp!Group
    PROVE  ParallelInv'
<1>1. /\ UNCHANGED <<kind, ctx, timer, pipe, did>>
  BY DEF Comp!Group, Comp!CloseResults, Comp!Collect, Comp!ReturnResults, Comp!ReturnEarly,
     Comp!FanOut, Comp!runVars, Comp!retryVars
<1>s. /\ (Comp!Parallel => timer = "idle" /\ \A b \in Comp!Index : BranchInOrder(b))'
      /\ (kind = "fanout" => \A b \in Comp!Index : pipe[b].state # "sent")'
  BY <1>1, SameRuns
<1>2. CASE Comp!CloseResults
  <2>1. UNCHANGED <<channel, results, outcome>> /\ \A b \in Comp!Index : pipe[b].state = "sent"
    BY <1>2 DEF Comp!CloseResults
  <2>2. ChannelInOrder'
    BY <1>1, <2>1 DEF ParallelInv, ChannelInOrder, Comp!Index
  <2> QED BY <1>1, <1>s, <2>1, <2>2, SameAnswer DEF ParallelInv
<1>3. CASE Comp!Collect
  <2>1. /\ kind = "parallel" /\ outcome = Comp!NoAnswer /\ outcome' = outcome /\ closed' = closed
        /\ channel # <<>> /\ channel' = Tail(channel)
        /\ results' = [results EXCEPT ![Head(channel)] =
              [error |-> pipe[Head(channel)].error, steps |-> pipe[Head(channel)].trace]]
    BY <1>3 DEF Comp!Collect
  <2>2. ChannelInOrder'
    <3>1. /\ channel \in Seq(Comp!Index) /\ DOMAIN results = Comp!Index
          /\ \A i \in DOMAIN channel : pipe[channel[i]].state = "sent"
          /\ results = [b \in Comp!Index |-> results[b]]
      BY <2>1 DEF ParallelInv, ChannelInOrder
    <3>2. /\ channel' \in Seq(Comp!Index) /\ Head(channel) \in Comp!Index
          /\ \A i \in DOMAIN channel' : i + 1 \in DOMAIN channel /\ channel'[i] = channel[i + 1]
          /\ \A i \in DOMAIN channel :
               \/ channel[i] = Head(channel)
               \/ i - 1 \in DOMAIN channel' /\ channel'[i - 1] = channel[i]
      <4>1. /\ channel' \in Seq(Comp!Index) /\ Head(channel) = channel[1] /\ 1 \in DOMAIN channel
            /\ DOMAIN channel = 1 .. Len(channel) /\ Len(channel) \in Nat
            /\ DOMAIN channel' = 1 .. Len(channel) - 1
            /\ \A i \in 1 .. Len(channel) - 1 : channel'[i] = channel[i + 1]
        BY <2>1, <3>1
      <4>2. Head(channel) \in Comp!Index
        BY <3>1, <4>1
      <4>3. \A i \in 1 .. Len(channel) : i = 1 \/ i - 1 \in 1 .. Len(channel) - 1
        BY <4>1
      <4>4. \A i \in 1 .. Len(channel) : i # 1 => channel'[i - 1] = channel[i]
        BY <4>1
      <4>5. \A i \in 1 .. Len(channel) - 1 : i + 1 \in 1 .. Len(channel)
        BY <4>1
      <4>6. ASSUME NEW i \in DOMAIN channel, i # 1
            PROVE  i - 1 \in DOMAIN channel' /\ channel'[i - 1] = channel[i]
        BY <4>1, <4>3, <4>4, <4>6
      <4>7. \A i \in DOMAIN channel' : i + 1 \in DOMAIN channel /\ channel'[i] = channel[i + 1]
        BY <4>1, <4>5
      <4>8. \A i \in DOMAIN channel :
               \/ channel[i] = Head(channel)
               \/ i - 1 \in DOMAIN channel' /\ channel'[i - 1] = channel[i]
        BY <4>1, <4>6
      <4> QED BY <4>1, <4>2, <4>7, <4>8
    <3>3. /\ \A c \in Comp!Index : results'[c] = IF c = Head(channel)
             THEN [error |-> pipe[c].error, steps |-> pipe[c].trace] ELSE results[c]
          /\ DOMAIN results' = Comp!Index /\ results' = [b \in Comp!Index |-> results'[b]]
      <4> PICK h \in Comp!Index : h = Head(channel)
        BY <3>2
      <4> DEFINE r == [error |-> pipe[h].error, steps |-> pipe[h].trace]
      <4>1. results' = [results EXCEPT ![h] = r]
        BY <2>1
      <4>2. \A c \in Comp!Index : results'[c] = IF c = h THEN r ELSE results[c]
        <5> HIDE DEF r
        <5> QED BY <3>1, <4>1
      <4>3. DOMAIN results' = Comp!Index /\ results' = [b \in Comp!Index |-> results'[b]]
        <5> HIDE DEF r
        <5> QED BY <3>1, <4>1
      <4> QED BY <4>2, <4>3
    <3>4. \A i \in DOMAIN channel' : pipe[channel'[i]].state = "sent"
      BY <3>1, <3>2
    <3>5. \A c \in Comp!Index : pipe[c].state = "sent" =>
             \/ \E i \in DOMAIN channel' : channel'[i] = c
             \/ results'[c] = [error |-> pipe[c].error, steps |-> pipe[c].trace]
      <4> SUFFICES ASSUME NEW c \in Comp!Index, pipe[c].state = "sent", c # Head(channel)
                   PROVE  \/ \E i \in DOMAIN channel' : channel'[i] = c
                          \/ results'[c] = [error |-> pipe[c].error, steps |-> pipe[c].trace]
        BY <3>3
      <4>1. \/ \E i \in DOMAIN channel : channel[i] = c
            \/ results[c] = [error |-> pipe[c].error, steps |-> pipe[c].trace]
        BY <2>1 DEF ParallelInv, ChannelInOrder
      <4> QED BY <3>2, <3>3, <4>1
    <3> QED BY <1>1, <2>1, <3>2, <3>3, <3>4, <3>5 DEF ParallelInv, ChannelInOrder, Comp!Index
  <2>3. ~Answered'
    BY <2>1 DEF Answered
  <2> QED BY <1>1, <1>s, <2>2, <2>3, NotAnswered DEF ParallelInv
<1>4. CASE Comp!ReturnResults
  <2>1. /\ kind = "parallel" /\ UNCHANGED <<channel, closed, results>> /\ channel = <<>> /\ closed
        /\ outcome' =
              [error |-> IF \E b \in Comp!Index : results[b].error # Comp!None
                        THEN "failed" ELSE Comp!None,
               steps |-> Comp!Flat([b \in Comp!Index |-> results[b].steps])]
    BY <1>4 DEF Comp!ReturnResults, Comp!groupVars
  <2>2. \A b \in Comp!Index :
           /\ pipe[b].state = "sent"
           /\ results[b] = [error |-> pipe[b].error, steps |-> pipe[b].trace]
    BY <2>1 DEF ParallelInv, ChannelInOrder
  <2>3. ChannelInOrder'
    BY <1>1, <2>1 DEF ParallelInv, ChannelInOrder, Comp!Index
  <2>4. ASSUME NEW b \in Comp!Index
        PROVE  results[b].error = pipe[b].error /\ results[b].steps = pipe[b].trace
    <3>1. results[b] = [error |-> pipe[b].error, steps |-> pipe[b].trace]
      BY <2>2
    <3> QED BY <3>1
  <2>5. [b \in Comp!Index |-> results[b].steps] = [b \in 1 .. Branches |-> pipe[b].trace]
    BY <2>4 DEF Comp!Index
  <2>6. /\ outcome'.error =
              (IF \E b \in Comp!Index : pipe[b].error # Comp!None THEN "failed" ELSE Comp!None)
        /\ outcome'.steps = Comp!Flat([b \in 1 .. Branches |-> pipe[b].trace])
    BY <2>1, <2>4, <2>5
  <2>7. \A b \in Comp!Index : Comp!Ends(b) /\ (pipe[b].error = Comp!None => Len(did[b]) = StepCount)
    BY <2>1, <2>2 DEF Comp!Ends, ParallelInv, BranchInOrder, Comp!Parallel
  <2>8. Comp!ParallelIsComplete'
    <3> SUFFICES ASSUME Answered'
                 PROVE  LET failing == {b \in Comp!Index : pipe[b].error # Comp!None} IN
                        /\ \A b \in Comp!Index : Comp!Ends(b)
                        /\ outcome'.error = Comp!None <=> failing = {}
                        /\ outcome'.error = Comp!None =>
                              \A b \in Comp!Index : Len(did[b]) = StepCount
                        /\ outcome'.steps = Comp!Flat([b \in 1 .. Branches |-> pipe[b].trace])
      BY <1>1, <2>1 DEF Comp!ParallelIsComplete, Answered, Comp!Index, Comp!Ends
    <3> QED BY <2>6, <2>7 DEF Comp!None
  <2> QED BY <1>1, <1>s, <2>1, <2>2, <2>3, <2>8 DEF ParallelInv, Comp!Index
<1>5. CASE Comp!ReturnEarly
  <2>1. UNCHANGED <<channel, closed, results>> /\ outcome'.error = "context"
    BY <1>5 DEF Comp!ReturnEarly, Comp!groupVars
  <2>2. ChannelInOrder'
    BY <1>1, <2>1 DEF ParallelInv, ChannelInOrder, Comp!Index
  <2>3. ~Answered'
    BY <2>1 DEF Answered
  <2> QED BY <1>1, <1>s, <2>2, <2>3, NotAnswered DEF ParallelInv
<1>6. CASE Comp!FanOut
  <2>1. /\ kind = "fanout" /\ UNCHANGED <<channel, closed, results>>
        /\ \A b \in Comp!Index : pipe[b].state = "ended" /\ Comp!Ends(b)
    BY <1>6 DEF Comp!FanOut, Comp!groupVars, Comp!AllEnded, Comp!Ends
  <2>2. ChannelInOrder'
    BY <1>1, <2>1 DEF ChannelInOrder
  <2> DEFINE failing == {b \in Comp!Index : pipe[b].error # Comp!None}
  <2>3. failing \in SUBSET Comp!Index
    OBVIOUS
  <2>4. Comp!FirstFailure = {b \in failing : \A c \in failing : b <= c}
    BY DEF Comp!FirstFailure, Comp!Index, Sized
  <2>5. CASE failing = {}
    <3>1. Comp!FirstFailure = {}
      BY <2>4, <2>5
    <3>2. outcome' =
             [error |-> Comp!None, steps |-> Comp!Flat([b \in Comp!Index |-> pipe[b].trace])]
      BY <1>6, <3>1 DEF Comp!FanOut
    <3>3. \A b \in Comp!Index : Len(did[b]) = StepCount
      BY <2>1, <2>5 DEF ParallelInv, BranchInOrder, Comp!Parallel
    <3>4. Comp!ParallelIsComplete'
      <4> SUFFICES /\ \A b \in Comp!Index : Comp!Ends(b)
                   /\ outcome'.error = Comp!None
                   /\ \A b \in Comp!Index : Len(did[b]) = StepCount
                   /\ outcome'.steps = Comp!Flat([b \in 1 .. Branches |-> pipe[b].trace])
        BY <1>1, <2>5 DEF Comp!ParallelIsComplete, Comp!Index, Comp!Ends
      <4> QED BY <2>1, <3>2, <3>3 DEF Comp!Index
    <3> QED BY <1>1, <1>s, <2>1, <2>2, <3>4 DEF ParallelInv, Comp!Index
  <2>6. CASE failing # {}
    <3> DEFINE first == CHOOSE b \in failing : \A c \in failing : b <= c
    <3>1. first \in failing /\ (\A c \in failing : first <= c) /\ Comp!FirstFailure = {first}
      <4> HIDE DEF failing
      <4>1. first \in failing /\ \A c \in failing : first <= c
        BY <2>3, <2>6, FirstOfFailed
      <4> HIDE DEF first
      <4>2. \A b \in failing : (\A c \in failing : b <= c) => b = first
        BY <2>3, <2>6, <4>1, FirstOfFailed
      <4> QED BY <2>4, <4>1, <4>2
    <3>2. (CHOOSE x \in Comp!FirstFailure : TRUE) = first
      <4> HIDE DEF first, failing
      <4> QED BY <3>1
    <3>3. outcome' = [error |-> IF ctx = "done" THEN "context" ELSE pipe[first].error,
                     steps |-> Comp!Flat([c \in 1 .. first |-> pipe[c].trace])]
      <4>1. Comp!FirstFailure # {}
        <5> HIDE DEF first
        <5> QED BY <3>1
      <4> HIDE DEF first, failing
      <4> QED BY <1>6, <3>2, <4>1 DEF Comp!FanOut
    <3>4. outcome'.error # Comp!None
      <4>1. pipe[first].error # Comp!None
        <5> HIDE DEF first
        <5> QED BY <3>1
      <4> HIDE DEF first, failing
      <4> QED BY <3>3, <4>1 DEF Comp!None
    <3>5. outcome'.steps = Comp!Flat([b \in 1 .. first |-> pipe[b].trace])
      <4> HIDE DEF first, failing
      <4> QED BY <3>3
    <3>6. Comp!ParallelIsComplete'
      <4> SUFFICES /\ \A b \in Comp!Index : Comp!Ends(b)
                   /\ outcome'.error # Comp!None
                   /\ outcome'.steps = Comp!Flat([b \in 1 .. first |-> pipe[b].trace])
        BY <1>1, <2>1, <2>6 DEF Comp!ParallelIsComplete, Comp!Index, Comp!Ends
      <4> QED BY <2>1, <3>4, <3>5
    <3> QED BY <1>1, <1>s, <2>1, <2>2, <3>6 DEF ParallelInv, Comp!Index
  <2> QED BY <2>5, <2>6
<1> QED BY <1>2, <1>3, <1>4, <1>5, <1>6 DEF Comp!Group

\* Every step keeps the invariant of pipelines that run in parallel.
LEMMA ParallelStep ==
    ASSUME Sized, RunTypes, ParallelInv, [Comp!Next]_(Comp!vars)
    PROVE  ParallelInv'
<1>1. CASE UNCHANGED Comp!vars
  <2>1. UNCHANGED <<kind, ctx, timer, pipe, did, outcome, channel, closed, results>>
    BY <1>1 DEF Comp!vars, Comp!runVars, Comp!retryVars, Comp!groupVars
  <2>2. ChannelInOrder'
    BY <2>1 DEF ParallelInv, ChannelInOrder, Comp!Index
  <2>3. CASE Comp!Parallel
    BY <2>1, <2>2, <2>3, SameRuns, SameAnswer DEF ParallelInv
  <2>4. CASE ~Comp!Parallel
    BY <2>1, <2>2, <2>4, SameAnswer DEF ParallelInv, Comp!Parallel
  <2> QED BY <2>3, <2>4
<1>2. CASE Comp!Next /\ ~Comp!Parallel
  BY <1>2, KindStays DEF ParallelInv, ChannelInOrder, Comp!ParallelIsComplete, Comp!Parallel
<1>3. CASE Comp!Next /\ Comp!Parallel
  <2>1. CASE Comp!ContextEnds
    <3>1. UNCHANGED <<kind, timer, pipe, did, outcome, channel, closed, results>> /\ ctx' = "done"
      BY <2>1 DEF Comp!ContextEnds, Comp!runVars, Comp!retryVars, Comp!groupVars
    <3>2. ChannelInOrder'
      BY <3>1 DEF ParallelInv, ChannelInOrder, Comp!Index
    <3> QED BY <1>3, <3>1, <3>2, SameRuns, SameAnswer DEF ParallelInv
  <2>2. CASE \E b \in Comp!Index : Comp!Pipeline(b) \/ Comp!Send(b)
    BY <1>3, <2>2, BranchesStep
  <2>3. CASE Comp!Group
    BY <1>3, <2>3, GroupStep
  <2>4. ~Comp!TimeoutExpires /\ ~Comp!Tick /\ ~Comp!Retry /\ ~ \E c \in Clients : Comp!Spacing(c)
    BY <1>3 DEF Comp!Parallel, Comp!TimeoutExpires, Comp!Tick, Comp!Retry, Comp!WithRetry,
       Comp!BeginAttempt, Comp!EndAttempt, Comp!Delayed, Comp!CallFunction, Comp!Backoff,
       Comp!Spacing, Comp!Debounce, Comp!ThrottleWaits, Comp!ThrottleCalls,
       Comp!ThrottleCancelled
  <2> QED BY <1>3, <2>1, <2>2, <2>3, <2>4 DEF Comp!Next
<1> QED BY <1>1, <1>2, <1>3

\* The types at first.
LEMMA InitTypes ==
    ASSUME Sized, Comp!Init
    PROVE  RunTypes
<1>1. Comp!Fresh \in PipeRuns
  <2>1. <<>> \in Seq(Marks)
    OBVIOUS
  <2> QED BY <2>1 DEF Comp!Fresh, PipeRuns, RunErrors
<1> QED BY <1>1 DEF Comp!Init, RunTypes, Comp!Kinds

\* Who runs any number of pipelines in parallel, each of any number of steps, hears of every
\* failure, of success only when every branch went through its steps, and gets their traces
\* in the order of the branches (RunParallel, FanOut.Run).
THEOREM ParallelComplete ==
    ASSUME Sized
    PROVE  Comp!Spec => []Comp!ParallelIsComplete
<1>1. Comp!Init => RunTypes /\ ParallelInv
  <2> SUFFICES ASSUME Comp!Init PROVE RunTypes /\ ParallelInv
    OBVIOUS
  <2>2. RunTypes
    BY InitTypes
  <2>3. \A b \in Comp!Index : pipe[b].state = "ready" /\ pipe[b].at = 1 /\ pipe[b].trace = <<>>
                         /\ pipe[b].error = Comp!None /\ did[b] = <<>>
    BY DEF Comp!Init, Comp!Fresh
  <2>4. \A b \in Comp!Index : BranchInOrder(b)
    BY <2>3 DEF BranchInOrder, Comp!Ends, Sized
  <2>5. ChannelInOrder
    BY <2>3 DEF Comp!Init, ChannelInOrder
  <2>6. ~Answered
    BY DEF Comp!Init, Answered
  <2> QED BY <2>2, <2>3, <2>4, <2>5, <2>6 DEF ParallelInv, Comp!ParallelIsComplete, Answered,
     Comp!Init
<1>2. RunTypes /\ ParallelInv /\ [Comp!Next]_(Comp!vars) => RunTypes' /\ ParallelInv'
  BY RunTypesStep, ParallelStep
<1>3. ParallelInv => Comp!ParallelIsComplete
  BY DEF ParallelInv
<1> QED BY <1>1, <1>2, <1>3, PTL DEF Comp!Spec

-----------------------------------------------------------------------------

\* The steps end with one that went so.
LastIs(steps, how) == steps # <<>> /\ Comp!Last(steps).how = how

\* Where a retry stands, of the steps of its one pipeline and of its attempts: an attempt
\* that has ended without an error has gone through its steps, and what is waited for, or
\* tried again, is the failure of an earlier attempt.
RetryInv ==
    /\ attempt <= MaxAttempts
    /\ kind = "retry" =>
          /\ timer \in {"running", "expired"} =>
                /\ outcome = Comp!NoAnswer /\ attempt > 0
                /\ pipe[1].state # "sent"
                /\ pipe[1].state # "ended" => pipe[1].error = Comp!None
                /\ pipe[1].state = "stepped" => LastIs(did[1], "ok")
                /\ pipe[1].state = "ended" =>
                      /\ pipe[1].error = Comp!None => LastIs(did[1], "ok")
                      /\ pipe[1].error = "fatal" => LastIs(did[1], "fatal")
                      /\ pipe[1].error = "context" => Comp!Done
                      /\ pipe[1].error # "timeout"
                /\ pipe[1].state \in {"ready", "checked"} => pipe[1].at <= StepCount
          /\ timer \in {"idle", "waiting"} /\ outcome = Comp!NoAnswer /\ attempt > 0 =>
                pipe[1].error \in {"failed", "timeout"}
          /\ timer = "waiting" /\ outcome = Comp!NoAnswer => attempt < MaxAttempts
    /\ kind = "backoff" =>
          /\ timer \in {"idle", "waiting"}
          /\ outcome = Comp!NoAnswer => attempt < MaxAttempts
          /\ tried \in Seq(Marks)
    /\ Comp!RetriesAreJustified

\* The last mark of a trace is the one that was appended.
LEMMA LastOfAppend ==
    ASSUME NEW q \in Seq(Marks), NEW m \in Marks
    PROVE  LastIs(Append(q, m), m.how)
<1>1. Append(q, m) # <<>> /\ Append(q, m)[Len(Append(q, m))] = m
  OBVIOUS
<1> QED BY <1>1, Zenon DEF LastIs, Comp!Last

\* The pipeline of an attempt (retryComposer.Run, Pipeline.Run).
LEMMA AttemptStep ==
    ASSUME Sized, RunTypes, RetryInv, kind = "retry", NEW b \in Comp!Index, Comp!Pipeline(b)
    PROVE  RetryInv'
<1>1. /\ Comp!Running(b) /\ Apart(b) /\ b = 1 /\ timer \in {"running", "expired"}
      /\ Notices(b) \/ GoesOn(b) \/ Finishes(b) \/ \E m \in Marks : Does(b, m)
  BY PipelineSteps DEF Comp!Running, Comp!Parallel
<1>2. UNCHANGED <<kind, ctx, outcome, attempt, timer, tried>>
  BY <1>1 DEF Apart, Comp!retryVars
<1>3. outcome = Comp!NoAnswer
  BY <1>1 DEF RetryInv
<1>4. Comp!RetriesAreJustified'
  BY <1>2, <1>3 DEF Comp!RetriesAreJustified
<1>5. pipe[1].at \in Nat /\ did[1] \in Seq(Marks)
  BY <1>1 DEF RunTypes, PipeRuns
<1> DEFINE Attempt == /\ pipe[1].state # "sent"
                      /\ pipe[1].state # "ended" => pipe[1].error = Comp!None
                      /\ pipe[1].state = "stepped" => LastIs(did[1], "ok")
                      /\ pipe[1].state = "ended" =>
                            /\ pipe[1].error = Comp!None => LastIs(did[1], "ok")
                            /\ pipe[1].error = "fatal" => LastIs(did[1], "fatal")
                            /\ pipe[1].error = "context" => Comp!Done
                            /\ pipe[1].error # "timeout"
                      /\ pipe[1].state \in {"ready", "checked"} => pipe[1].at <= StepCount
<1>6. Attempt
  BY <1>1 DEF RetryInv
<1>7. Attempt'
  <2>1. CASE Notices(b)
    BY <1>1, <1>2, <1>6, <2>1 DEF Notices, Comp!Done, Comp!None
  <2>2. CASE GoesOn(b)
    BY <1>1, <1>2, <1>6, <2>2 DEF GoesOn, Sized
  <2>3. CASE Finishes(b)
    BY <1>1, <1>2, <1>6, <2>3 DEF Finishes, Comp!None
  <2>4. ASSUME NEW m \in Marks, Does(b, m)
        PROVE  Attempt'
    <3>1. LastIs(did'[1], m.how)
      BY <1>1, <1>5, <2>4, LastOfAppend DEF Does
    <3> QED BY <1>1, <1>6, <2>4, <3>1 DEF Does, Comp!None
  <2> QED BY <1>1, <2>1, <2>2, <2>3, <2>4
<1>8. attempt > 0 /\ attempt <= MaxAttempts
  BY <1>1 DEF RetryInv
<1> HIDE DEF Attempt
<1> QED BY <1>1, <1>2, <1>3, <1>4, <1>7, <1>8 DEF RetryInv, Attempt

\* An attempt begins, ends or is waited for (retryComposer.Run, timeoutComposer.Run).
LEMMA RetryStep ==
    ASSUME Sized, RunTypes, RetryInv, kind = "retry",
           Comp!WithRetry \/ Comp!TimeoutExpires \/ Comp!ContextEnds
    PROVE  RetryInv'
<1> DEFINE steps == did[1]
<1>0. 1 \in Comp!Index /\ pipe[1] \in PipeRuns /\ did[1] \in Seq(Marks)
      /\ attempt \in Nat /\ MaxAttempts \in Nat \ {0} /\ StepCount \in Nat \ {0}
  BY DEF RunTypes, Comp!Index, Sized
<1>1. kind' = kind /\ did' = did
  BY DEF Comp!WithRetry, Comp!BeginAttempt, Comp!EndAttempt, Comp!Delayed, Comp!TimeoutExpires,
     Comp!ContextEnds, Comp!runVars
<1>2. CASE Comp!BeginAttempt
  <2>1. outcome = Comp!NoAnswer /\ timer = "idle" /\ ctx' = ctx
    BY <1>2 DEF Comp!BeginAttempt
  <2>2. CASE attempt = MaxAttempts
    <3>1. outcome'.error = pipe[1].error /\ UNCHANGED <<pipe, attempt, timer>>
      BY <1>2, <2>2 DEF Comp!BeginAttempt, Comp!Answer
    <3>2. pipe[1].error \in {"failed", "timeout"}
      BY <1>0, <2>1, <2>2 DEF RetryInv
    <3>3. outcome' # Comp!NoAnswer /\ Comp!RetriesAreJustified'
      BY <1>1, <2>2, <3>1, <3>2 DEF Comp!RetriesAreJustified, Comp!NoAnswer, Comp!None
    <3> QED BY <1>1, <2>1, <3>1, <3>3 DEF RetryInv
  <2>3. CASE attempt # MaxAttempts /\ ctx = "done"
    <3>1. outcome'.error = "context" /\ UNCHANGED <<pipe, attempt, timer>>
      BY <1>2, <2>3 DEF Comp!BeginAttempt, Comp!Answer
    <3>2. outcome' # Comp!NoAnswer /\ Comp!RetriesAreJustified'
      BY <1>1, <2>1, <2>3, <3>1 DEF Comp!RetriesAreJustified, Comp!NoAnswer, Comp!None
    <3> QED BY <1>1, <2>1, <3>1, <3>2 DEF RetryInv
  <2>4. CASE attempt # MaxAttempts /\ ctx # "done"
    <3>1. attempt' = attempt + 1 /\ timer' = "running" /\ outcome' = outcome
          /\ pipe' = [pipe EXCEPT ![1] = Comp!Fresh]
      BY <1>2, <2>4 DEF Comp!BeginAttempt
    <3>2. pipe'[1].state = "ready" /\ pipe'[1].error = Comp!None /\ pipe'[1].at = 1
      BY <1>0, <3>1 DEF RunTypes, Comp!Fresh
    <3>3. attempt' > 0 /\ attempt' <= MaxAttempts
      BY <1>0, <2>4, <3>1 DEF RetryInv
    <3>4. Comp!RetriesAreJustified'
      BY <2>1, <3>1 DEF Comp!RetriesAreJustified
    <3>5. 1 <= StepCount
      BY <1>0
    <3> QED BY <1>1, <2>1, <3>1, <3>2, <3>3, <3>4, <3>5 DEF RetryInv
  <2> QED BY <2>2, <2>3, <2>4
<1>3. CASE Comp!EndAttempt
  <2>1. /\ timer \in {"running", "expired"} /\ pipe[1].state = "ended" /\ ctx' = ctx
        /\ attempt' = attempt /\ pipe' = [pipe EXCEPT ![1].error = Comp!Judged]
    BY <1>3 DEF Comp!EndAttempt
  <2>2. /\ outcome = Comp!NoAnswer /\ attempt > 0 /\ attempt <= MaxAttempts
        /\ pipe[1].error = Comp!None => LastIs(did[1], "ok")
        /\ pipe[1].error = "fatal" => LastIs(did[1], "fatal")
        /\ pipe[1].error = "context" => Comp!Done
        /\ pipe[1].error # "timeout"
        /\ pipe[1].error \in RunErrors
    BY <1>0, <2>1 DEF RetryInv, PipeRuns
  <2>3. pipe'[1].error = Comp!Judged
    BY <1>0, <2>1 DEF RunTypes, PipeRuns
  <2>4. CASE Comp!Stops(Comp!Judged)
    <3>1. outcome'.error = Comp!Judged /\ timer' = "idle"
      BY <1>3, <2>4 DEF Comp!EndAttempt, Comp!Answer
    <3>2. /\ Comp!Judged = Comp!None => LastIs(did[1], "ok")
          /\ Comp!Judged = "fatal" => LastIs(did[1], "fatal")
          /\ Comp!Judged \in {Comp!None, "fatal"}
      BY <2>2, <2>4 DEF Comp!Stops, Comp!Judged, Comp!None
    <3>3. outcome' # Comp!NoAnswer /\ Comp!RetriesAreJustified'
      BY <1>1, <3>1, <3>2 DEF Comp!RetriesAreJustified, Comp!NoAnswer, Comp!None, LastIs
    <3> QED BY <1>1, <2>1, <2>2, <3>1, <3>3 DEF RetryInv
  <2>5. CASE ~Comp!Stops(Comp!Judged)
    <3>1. outcome' = outcome /\ timer' = IF attempt < MaxAttempts THEN "waiting" ELSE "idle"
      BY <1>3, <2>5 DEF Comp!EndAttempt
    <3>2. Comp!Judged \in {"failed", "timeout"}
      BY <2>2, <2>5 DEF Comp!Stops, Comp!Judged, RunErrors
    <3>3. Comp!RetriesAreJustified'
      BY <2>2, <3>1 DEF Comp!RetriesAreJustified
    <3> QED BY <1>1, <2>1, <2>2, <2>3, <3>1, <3>2, <3>3 DEF RetryInv
  <2> QED BY <2>4, <2>5
<1>4. CASE Comp!Delayed
  <2>1. UNCHANGED <<ctx, pipe, attempt>> /\ outcome = Comp!NoAnswer /\ timer = "waiting"
    BY <1>4 DEF Comp!Delayed, Comp!runVars
  <2>2. CASE timer' = "idle" /\ outcome' = outcome
    <3>1. Comp!RetriesAreJustified'
      BY <2>1, <2>2 DEF Comp!RetriesAreJustified
    <3> QED BY <1>1, <2>1, <2>2, <3>1 DEF RetryInv
  <2>3. CASE ctx = "done" /\ timer' = timer /\ outcome'.error = "context"
    <3>1. outcome' # Comp!NoAnswer /\ Comp!RetriesAreJustified'
      BY <1>1, <2>1, <2>3 DEF Comp!RetriesAreJustified, Comp!NoAnswer, Comp!None
    <3> QED BY <1>1, <2>1, <2>3, <3>1 DEF RetryInv
  <2> QED BY <1>4, <2>2, <2>3 DEF Comp!Delayed, Comp!Answer
<1>5. CASE Comp!TimeoutExpires
  <2>1. UNCHANGED <<ctx, pipe, outcome, attempt, tried>> /\ timer = "running" /\ timer' = "expired"
        /\ pipe[1].state # "ended"
    BY <1>5 DEF Comp!TimeoutExpires, Comp!runVars
  <2>2. Comp!RetriesAreJustified'
    BY <1>1, <2>1 DEF Comp!RetriesAreJustified, RetryInv
  <2> QED BY <1>1, <2>1, <2>2 DEF RetryInv, LastIs
<1>6. CASE Comp!ContextEnds
  <2>1. UNCHANGED <<pipe, outcome, attempt, timer, tried>> /\ ctx' = "done" /\ ctx = "live"
    BY <1>6 DEF Comp!ContextEnds, Comp!runVars, Comp!retryVars
  <2>2. Comp!RetriesAreJustified'
    BY <1>1, <2>1 DEF Comp!RetriesAreJustified, RetryInv
  <2>3. Comp!Done => Comp!Done'
    BY <2>1 DEF Comp!Done
  <2> QED BY <1>1, <2>1, <2>2, <2>3 DEF RetryInv, LastIs
<1> QED BY <1>2, <1>3, <1>4, <1>5, <1>6 DEF Comp!WithRetry

\* A call of the function, or the delay after it (RetryWithBackoff).
LEMMA BackoffStep ==
    ASSUME Sized, RunTypes, RetryInv, kind = "backoff",
           Comp!CallFunction \/ Comp!Backoff \/ Comp!ContextEnds
    PROVE  RetryInv'
<1>0. attempt \in Nat /\ MaxAttempts \in Nat \ {0} /\ tried \in Seq(Marks)
      /\ timer \in {"idle", "waiting"}
  BY DEF RunTypes, RetryInv, Sized
<1>1. kind' = kind /\ kind = "backoff"
  BY DEF Comp!CallFunction, Comp!Backoff, Comp!ContextEnds
<1>2. CASE Comp!CallFunction
  <2>1. outcome = Comp!NoAnswer /\ timer = "idle" /\ attempt' = attempt + 1 /\ attempt < MaxAttempts
    BY <1>1, <1>2 DEF Comp!CallFunction, RetryInv
  <2>2. PICK how \in {"ok", "failed", "fatal"} :
          /\ tried' = Append(tried, Comp!Mark(attempt, how))
          /\ IF how = "ok" THEN Comp!Answer(Comp!None) /\ UNCHANGED timer
             ELSE IF how = "fatal" \/ attempt' = MaxAttempts
                  THEN Comp!Answer(how) /\ UNCHANGED timer
             ELSE timer' = "waiting" /\ UNCHANGED outcome
    BY <1>2 DEF Comp!CallFunction
  <2>3. PICK m \in Marks : m = Comp!Mark(attempt, how)
    BY <1>0 DEF Comp!Mark, Marks
  <2>4. tried' \in Seq(Marks) /\ LastIs(tried', how)
    <3>1. m.how = how
      BY <2>3 DEF Comp!Mark
    <3> QED BY <1>0, <2>2, <2>3, <3>1, LastOfAppend
  <2>5. attempt' <= MaxAttempts
    BY <1>0, <2>1
  <2>6. CASE how = "ok" \/ how = "fatal" \/ attempt' = MaxAttempts
    <3>1. timer' = timer /\ outcome'.error = (IF how = "ok" THEN Comp!None ELSE how)
      BY <2>2, <2>6 DEF Comp!Answer
    <3>2. outcome' # Comp!NoAnswer /\ Comp!RetriesAreJustified'
      BY <1>1, <2>4, <2>6, <3>1 DEF Comp!RetriesAreJustified, Comp!NoAnswer, Comp!None, LastIs
    <3> QED BY <1>1, <2>1, <2>4, <2>5, <3>1, <3>2 DEF RetryInv
  <2>7. CASE ~(how = "ok" \/ how = "fatal" \/ attempt' = MaxAttempts)
    <3>1. timer' = "waiting" /\ outcome' = outcome
      BY <2>2, <2>7
    <3>2. Comp!RetriesAreJustified'
      BY <2>1, <3>1 DEF Comp!RetriesAreJustified
    <3>3. attempt' < MaxAttempts
      BY <1>0, <2>1, <2>5, <2>7
    <3> QED BY <1>1, <2>1, <2>4, <2>5, <3>1, <3>2, <3>3 DEF RetryInv
  <2> QED BY <2>6, <2>7
<1>3. CASE Comp!Backoff
  <2>1. UNCHANGED <<ctx, attempt, tried>> /\ outcome = Comp!NoAnswer /\ timer = "waiting"
    BY <1>3 DEF Comp!Backoff
  <2>2. CASE timer' = "idle" /\ outcome' = outcome
    <3>1. Comp!RetriesAreJustified'
      BY <2>1, <2>2 DEF Comp!RetriesAreJustified
    <3> QED BY <1>1, <2>1, <2>2, <3>1 DEF RetryInv
  <2>3. CASE ctx = "done" /\ timer' = timer /\ outcome'.error = "context"
    <3>1. outcome' # Comp!NoAnswer /\ Comp!RetriesAreJustified'
      BY <1>1, <2>1, <2>3 DEF Comp!RetriesAreJustified, Comp!NoAnswer, Comp!None
    <3> QED BY <1>1, <2>1, <2>3, <3>1 DEF RetryInv
  <2> QED BY <1>3, <2>2, <2>3 DEF Comp!Backoff, Comp!Answer
<1>4. CASE Comp!ContextEnds
  <2>1. UNCHANGED <<did, pipe, outcome, attempt, timer, tried>> /\ ctx' = "done" /\ ctx = "live"
    BY <1>4 DEF Comp!ContextEnds, Comp!runVars, Comp!retryVars
  <2>2. Comp!RetriesAreJustified'
    BY <1>1, <2>1 DEF Comp!RetriesAreJustified, RetryInv
  <2> QED BY <1>1, <2>1, <2>2 DEF RetryInv
<1> QED BY <1>2, <1>3, <1>4

\* Every step keeps the invariant of a retry.
LEMMA RetryInvStep ==
    ASSUME Sized, RunTypes, RetryInv, [Comp!Next]_(Comp!vars)
    PROVE  RetryInv'
<1>1. CASE UNCHANGED <<kind, ctx, pipe, did, outcome, attempt, timer, tried>>
  <2>1. Comp!RetriesAreJustified'
    BY <1>1 DEF Comp!RetriesAreJustified, RetryInv
  <2>2. Comp!Done' = Comp!Done /\ LastIs(did[1], "ok")' = LastIs(did[1], "ok")
        /\ LastIs(did[1], "fatal")' = LastIs(did[1], "fatal")
    BY <1>1 DEF Comp!Done, LastIs
  <2> QED BY <1>1, <2>1, <2>2 DEF RetryInv
<1>2. CASE Comp!Next /\ kind = "retry"
  <2>1. CASE \E b \in Comp!Index : Comp!Pipeline(b)
    BY <1>2, <2>1, AttemptStep
  <2>2. CASE Comp!WithRetry \/ Comp!TimeoutExpires \/ Comp!ContextEnds
    BY <1>2, <2>2, RetryStep
  <2>3. /\ ~Comp!Tick /\ ~Comp!Group /\ ~Comp!CallFunction /\ ~Comp!Backoff
        /\ \A b \in Comp!Index : ~Comp!Send(b)
        /\ \A c \in Clients : ~Comp!Spacing(c)
    BY <1>2 DEF Comp!Tick, Comp!Group, Comp!CallFunction, Comp!Backoff, Comp!Send,
       Comp!CloseResults, Comp!Collect, Comp!ReturnResults, Comp!ReturnEarly, Comp!FanOut,
       Comp!Spacing, Comp!Debounce, Comp!ThrottleWaits, Comp!ThrottleCalls,
       Comp!ThrottleCancelled
  <2> QED BY <1>2, <2>1, <2>2, <2>3 DEF Comp!Next, Comp!Retry
<1>3. CASE Comp!Next /\ kind = "backoff"
  <2>1. CASE Comp!CallFunction \/ Comp!Backoff \/ Comp!ContextEnds
    BY <1>3, <2>1, BackoffStep
  <2>2. /\ ~Comp!Tick /\ ~Comp!Group /\ ~Comp!WithRetry /\ ~Comp!TimeoutExpires
        /\ \A b \in Comp!Index : ~Comp!Send(b) /\ ~Comp!Pipeline(b)
        /\ \A c \in Clients : ~Comp!Spacing(c)
    BY <1>3 DEF Comp!Tick, Comp!Group, Comp!WithRetry, Comp!BeginAttempt, Comp!EndAttempt,
       Comp!Delayed, Comp!TimeoutExpires, Comp!Send, Comp!CloseResults, Comp!Collect,
       Comp!ReturnResults, Comp!ReturnEarly, Comp!FanOut, Comp!Spacing, Comp!Debounce,
       Comp!ThrottleWaits, Comp!ThrottleCalls, Comp!ThrottleCancelled, Comp!Pipeline,
       Comp!BeforeStep, Comp!ExecuteStep, Comp!AfterStep, Comp!Running, Comp!Parallel
  <2> QED BY <1>3, <2>1, <2>2 DEF Comp!Next, Comp!Retry
<1>4. CASE Comp!Next /\ kind \notin {"retry", "backoff"}
  <2>1. kind' = kind
    BY <1>4, KindStays
  <2>2. attempt' = attempt
    BY <1>4 DEF Comp!Next, Comp!ContextEnds, Comp!TimeoutExpires, Comp!Tick, Comp!Pipeline,
       Comp!BeforeStep, Comp!ExecuteStep, Comp!AfterStep, Comp!OnlyPipe, Comp!Send, Comp!Group,
       Comp!CloseResults, Comp!Collect, Comp!ReturnResults, Comp!ReturnEarly, Comp!FanOut,
       Comp!Retry, Comp!WithRetry, Comp!BeginAttempt, Comp!EndAttempt, Comp!Delayed,
       Comp!CallFunction, Comp!Backoff, Comp!Spacing, Comp!Debounce, Comp!ThrottleWaits,
       Comp!ThrottleCalls, Comp!ThrottleCancelled, Comp!OnlyCalls, Comp!retryVars
  <2> QED BY <1>4, <2>1, <2>2 DEF RetryInv, Comp!RetriesAreJustified
<1>5. UNCHANGED Comp!vars => UNCHANGED <<kind, ctx, pipe, did, outcome, attempt, timer, tried>>
  BY DEF Comp!vars, Comp!runVars, Comp!retryVars
<1> QED BY <1>1, <1>2, <1>3, <1>4, <1>5

\* For any number of attempts and steps, an operation is tried again only after a failure that
\* may pass, success is that of the last attempt, and the last failure is returned only when
\* no attempt is left (retryComposer.Run, RetryWithBackoff).
THEOREM RetriesJustified ==
    ASSUME Sized
    PROVE  Comp!Spec => []Comp!RetriesAreJustified
<1>1. Comp!Init => RunTypes /\ RetryInv
  <2> SUFFICES ASSUME Comp!Init PROVE RunTypes /\ RetryInv
    OBVIOUS
  <2>1. RunTypes
    BY InitTypes
  <2>2. <<>> \in Seq(Marks) /\ 0 <= MaxAttempts /\ 0 < MaxAttempts
    BY DEF Sized
  <2> QED BY <2>1, <2>2 DEF Comp!Init, RetryInv, Comp!RetriesAreJustified
<1>2. RunTypes /\ RetryInv /\ [Comp!Next]_(Comp!vars) => RunTypes' /\ RetryInv'
  BY RunTypesStep, RetryInvStep
<1>3. RetryInv => Comp!RetriesAreJustified
  BY DEF RetryInv
<1> QED BY <1>1, <1>2, <1>3, PTL DEF Comp!Spec

-----------------------------------------------------------------------------

\* The times of a caller's calls are not later than the last one of all, and who waits
\* does so until an interval after its own last call.
SpacingInv ==
    /\ clock \in Int /\ last \in Int /\ last <= clock
    /\ calls \in [Clients -> Seq(Int)] /\ deadline \in [Clients -> Int]
    /\ \A c \in Clients : \A i \in DOMAIN calls[c] :
          /\ calls[c][i] <= last
          /\ kind = "throttle" /\ deadline[c] # Comp!Idle => calls[c][i] + Interval <= deadline[c]
    /\ Comp!CallsAreSpaced

\* A call that comes an interval after those that matter to it keeps the invariant.
LEMMA CallStep ==
    ASSUME Sized, SpacingInv, NEW c \in Clients, Comp!Calls(c), kind' = kind, clock' = clock,
           deadline' \in [Clients -> Int], kind \in {"debounce", "throttle"},
           \A d \in Clients \ {c} : deadline'[d] = deadline[d],
           kind = "throttle" => deadline'[c] = Comp!Idle,
           \A i \in DOMAIN calls[c] : calls[c][i] + Interval <= clock,
           kind = "debounce" => last + Interval <= clock
    PROVE  SpacingInv'
<1>1. /\ clock \in Int /\ last \in Int /\ last <= clock /\ Interval \in Nat
      /\ calls \in [Clients -> Seq(Int)]
      /\ last' = clock /\ calls' = [calls EXCEPT ![c] = Append(calls[c], clock)]
  BY DEF SpacingInv, Comp!Calls, Sized
<1>2. /\ calls' \in [Clients -> Seq(Int)]
      /\ \A d \in Clients \ {c} : calls'[d] = calls[d]
      /\ calls'[c] = Append(calls[c], clock)
  BY <1>1
<1> DEFINE new == Len(calls[c]) + 1
<1>3. /\ DOMAIN calls'[c] = 1 .. new /\ DOMAIN calls[c] = 1 .. new - 1 /\ new \in Nat
      /\ calls'[c][new] = clock /\ \A i \in DOMAIN calls[c] : calls'[c][i] = calls[c][i]
  BY <1>1, <1>2
<1> HIDE DEF new
<1>4. \A i \in DOMAIN calls'[c] : i \in DOMAIN calls[c] \/ i = new
  BY <1>3
<1>5. \A d \in Clients : \A i \in DOMAIN calls[d] : calls[d][i] \in Int /\ calls[d][i] <= last
  BY <1>1 DEF SpacingInv
<1>6. ASSUME NEW d \in Clients, NEW i \in DOMAIN calls'[d]
      PROVE  \/ i \in DOMAIN calls[d] /\ calls'[d][i] = calls[d][i]
             \/ d = c /\ i = new /\ calls'[d][i] = clock
  <2>1. CASE d = c
    BY <1>3, <1>4, <1>6, <2>1
  <2>2. CASE d # c
    BY <1>2, <1>6, <2>2
  <2> QED BY <2>1, <2>2
<1>7. ASSUME NEW d \in Clients, NEW i \in DOMAIN calls'[d]
      PROVE  /\ calls'[d][i] <= clock
             /\ kind = "throttle" /\ deadline'[d] # Comp!Idle =>
                   calls'[d][i] + Interval <= deadline'[d]
  <2>1. CASE i \in DOMAIN calls[d] /\ calls'[d][i] = calls[d][i]
    <3>1. calls'[d][i] <= clock
      BY <1>1, <1>5, <2>1
    <3>2. CASE d = c
      BY <3>1, <3>2
    <3>3. CASE d # c
      <4>1. deadline'[d] = deadline[d]
        BY <3>3
      <4>2. kind = "throttle" /\ deadline[d] # Comp!Idle => calls[d][i] + Interval <= deadline[d]
        BY <2>1 DEF SpacingInv
      <4> QED BY <2>1, <3>1, <4>1, <4>2
    <3> QED BY <3>2, <3>3
  <2>2. CASE d = c /\ calls'[d][i] = clock
    BY <1>1, <2>2
  <2> QED BY <1>6, <1>7, <2>1, <2>2
<1>8. Comp!CallsAreSpaced'
  <2> SUFFICES ASSUME NEW d \in Clients, NEW e \in Clients, NEW i \in DOMAIN calls'[d],
                      NEW j \in DOMAIN calls'[e], kind = "debounce" \/ d = e, <<d, i>> # <<e, j>>
               PROVE  calls'[d][i] - calls'[e][j] \notin -Interval + 1 .. Interval - 1
    BY Zenon DEF Comp!CallsAreSpaced
  <2>1. CASE /\ i \in DOMAIN calls[d] /\ calls'[d][i] = calls[d][i]
             /\ j \in DOMAIN calls[e] /\ calls'[e][j] = calls[e][j]
    <3>1. calls[d][i] - calls[e][j] \notin -Interval + 1 .. Interval - 1
      BY <2>1 DEF SpacingInv, Comp!CallsAreSpaced
    <3> QED BY <2>1, <3>1
  <2>2. CASE /\ i \in DOMAIN calls[d] /\ calls'[d][i] = calls[d][i]
             /\ e = c /\ j = new /\ calls'[e][j] = clock
    <3>1. calls[d][i] \in Int /\ calls[d][i] <= last
      BY <1>5, <2>2
    <3>2. calls[d][i] + Interval <= clock
      <4>1. CASE kind = "debounce"
        BY <1>1, <3>1, <4>1
      <4>2. CASE d = e
        BY <2>2, <4>2
      <4> QED BY <4>1, <4>2
    <3>3. calls[d][i] - clock \notin -Interval + 1 .. Interval - 1
      BY <1>1, <3>1, <3>2
    <3> QED BY <2>2, <3>3
  <2>3. CASE /\ j \in DOMAIN calls[e] /\ calls'[e][j] = calls[e][j]
             /\ d = c /\ i = new /\ calls'[d][i] = clock
    <3>1. calls[e][j] \in Int /\ calls[e][j] <= last
      BY <1>5, <2>3
    <3>2. calls[e][j] + Interval <= clock
      <4>1. CASE kind = "debounce"
        BY <1>1, <3>1, <4>1
      <4>2. CASE d = e
        BY <2>3, <4>2
      <4> QED BY <4>1, <4>2
    <3>3. clock - calls[e][j] \notin -Interval + 1 .. Interval - 1
      BY <1>1, <3>1, <3>2
    <3> QED BY <2>3, <3>3
  <2>4. ~(d = c /\ i = new /\ e = c /\ j = new)
    OBVIOUS
  <2> QED BY <1>6, <2>1, <2>2, <2>3, <2>4
<1>9. last' <= clock' /\ last' \in Int /\ clock' \in Int
  BY <1>1
<1> QED BY <1>1, <1>2, <1>7, <1>8, <1>9, Zenon DEF SpacingInv

\* Every step keeps the invariant of the calls.
LEMMA SpacingInvStep ==
    ASSUME Sized, SpacingInv, [Comp!Next]_(Comp!vars)
    PROVE  SpacingInv'
<1>0. /\ clock \in Int /\ last \in Int /\ last <= clock /\ Interval \in Nat
      /\ calls \in [Clients -> Seq(Int)] /\ deadline \in [Clients -> Int]
  BY DEF SpacingInv, Sized
<1>1. ASSUME UNCHANGED <<kind, last, deadline, calls>>, clock' \in Int, clock <= clock'
      PROVE  SpacingInv'
  <2>1. Comp!CallsAreSpaced'
    BY <1>1, Zenon DEF SpacingInv, Comp!CallsAreSpaced
  <2>2. last' <= clock'
    BY <1>0, <1>1
  <2> QED BY <1>0, <1>1, <2>1, <2>2 DEF SpacingInv
<1>2. ASSUME NEW c \in Clients, Comp!Debounce(c)
      PROVE  SpacingInv'
  <2>1. /\ kind = "debounce" /\ last + Interval <= clock /\ Comp!Calls(c)
        /\ UNCHANGED <<kind, clock, deadline>>
    BY <1>0, <1>2 DEF Comp!Debounce, Comp!Since, Comp!OnlyCalls
  <2>2. \A i \in DOMAIN calls[c] : calls[c][i] + Interval <= clock
    BY <1>0, <2>1 DEF SpacingInv
  <2> QED BY <1>0, <2>1, <2>2, CallStep
<1>3. ASSUME NEW c \in Clients, Comp!ThrottleWaits(c)
      PROVE  SpacingInv'
  <2>1. /\ kind = "throttle" /\ UNCHANGED <<kind, clock, last, calls>>
        /\ deadline' =
              [deadline EXCEPT ![c] = IF Comp!Since < Interval THEN last + Interval ELSE clock]
    BY <1>3 DEF Comp!ThrottleWaits, Comp!OnlyCalls
  <2>2. PICK t \in Int : /\ t = IF Comp!Since < Interval THEN last + Interval ELSE clock
                        /\ last + Interval <= t
    BY <1>0 DEF Comp!Since
  <2>3. /\ deadline' \in [Clients -> Int] /\ deadline'[c] = t
        /\ \A d \in Clients \ {c} : deadline'[d] = deadline[d]
    BY <1>0, <2>1, <2>2
  <2>4. ASSUME NEW d \in Clients, NEW i \in DOMAIN calls[d]
        PROVE  /\ calls[d][i] <= last
               /\ deadline'[d] # Comp!Idle => calls[d][i] + Interval <= deadline'[d]
    <3>1. calls[d][i] <= last /\ calls[d][i] \in Int
      BY <1>0, <2>4 DEF SpacingInv
    <3>2. CASE d = c
      BY <1>0, <2>2, <2>3, <3>1, <3>2
    <3>3. CASE d # c
      BY <2>1, <2>3, <3>1, <3>3 DEF SpacingInv
    <3> QED BY <3>2, <3>3
  <2>5. Comp!CallsAreSpaced'
    BY <2>1, Zenon DEF SpacingInv, Comp!CallsAreSpaced
  <2> QED BY <1>0, <2>1, <2>3, <2>4, <2>5 DEF SpacingInv
<1>4. ASSUME NEW c \in Clients, Comp!ThrottleCalls(c)
      PROVE  SpacingInv'
  <2>1. /\ kind = "throttle" /\ UNCHANGED <<kind, clock>> /\ Comp!Calls(c)
        /\ deadline[c] # Comp!Idle /\ deadline[c] <= clock
        /\ deadline' = [deadline EXCEPT ![c] = Comp!Idle]
    BY <1>4 DEF Comp!ThrottleCalls, Comp!OnlyCalls
  <2>2. \A i \in DOMAIN calls[c] : calls[c][i] + Interval <= clock
    <3> TAKE i \in DOMAIN calls[c]
    <3>1. calls[c][i] + Interval <= deadline[c] /\ calls[c][i] \in Int /\ deadline[c] \in Int
      BY <1>0, <2>1 DEF SpacingInv
    <3> QED BY <1>0, <2>1, <3>1
  <2>3. Comp!Idle \in Int
    BY DEF Comp!Idle
  <2>4. /\ deadline' \in [Clients -> Int] /\ deadline'[c] = Comp!Idle
        /\ \A d \in Clients \ {c} : deadline'[d] = deadline[d]
    BY <1>0, <2>1, <2>3
  <2> QED BY <2>1, <2>2, <2>4, CallStep
<1>5. ASSUME NEW c \in Clients, Comp!ThrottleCancelled(c)
      PROVE  SpacingInv'
  <2>1. /\ UNCHANGED <<kind, clock, last, calls>>
        /\ deadline' = [deadline EXCEPT ![c] = Comp!Idle]
    BY <1>5 DEF Comp!ThrottleCancelled, Comp!OnlyCalls
  <2>2. Comp!Idle \in Int
    BY DEF Comp!Idle
  <2>3. /\ deadline' \in [Clients -> Int]
        /\ \A d \in Clients : deadline'[d] \in {deadline[d], Comp!Idle}
    BY <1>0, <2>1, <2>2
  <2>4. ASSUME NEW d \in Clients, NEW i \in DOMAIN calls[d]
        PROVE  /\ calls[d][i] <= last
               /\ kind = "throttle" /\ deadline'[d] # Comp!Idle =>
                     calls[d][i] + Interval <= deadline'[d]
    BY <2>3, <2>4 DEF SpacingInv
  <2>5. Comp!CallsAreSpaced'
    BY <2>1, Zenon DEF SpacingInv, Comp!CallsAreSpaced
  <2> QED BY <1>0, <2>1, <2>3, <2>4, <2>5 DEF SpacingInv
<1>6. CASE Comp!Tick
  <2>1. UNCHANGED <<kind, last, deadline, calls>> /\ clock' = clock + 1
    BY <1>6 DEF Comp!Tick
  <2> QED BY <1>0, <1>1, <2>1
<1>7. CASE \/ Comp!ContextEnds \/ Comp!TimeoutExpires \/ Comp!Group \/ Comp!Retry
           \/ \E b \in Comp!Index : Comp!Pipeline(b) \/ Comp!Send(b)
  <2>1. UNCHANGED <<kind, Comp!clockVars>>
    BY <1>7 DEF Comp!ContextEnds, Comp!TimeoutExpires, Comp!Group, Comp!Retry, Comp!Pipeline,
       Comp!Send, Comp!BeforeStep, Comp!ExecuteStep, Comp!AfterStep, Comp!OnlyPipe,
       Comp!CloseResults, Comp!Collect, Comp!ReturnResults, Comp!ReturnEarly, Comp!FanOut,
       Comp!WithRetry, Comp!BeginAttempt, Comp!EndAttempt, Comp!Delayed, Comp!CallFunction,
       Comp!Backoff
  <2>2. UNCHANGED <<kind, last, deadline, calls>> /\ clock' = clock
    BY <2>1 DEF Comp!clockVars
  <2> QED BY <1>0, <1>1, <2>2
<1>8. CASE UNCHANGED Comp!vars
  <2>1. UNCHANGED <<kind, last, deadline, calls>> /\ clock' = clock
    BY <1>8 DEF Comp!vars, Comp!clockVars
  <2> QED BY <1>0, <1>1, <2>1
<1> QED BY <1>2, <1>3, <1>4, <1>5, <1>6, <1>7, <1>8 DEF Comp!Next, Comp!Spacing

\* For any callers and interval, the calls that Debounce lets through are an interval apart,
\* and so are those of one caller through Throttle (composer_fanout.go).
THEOREM CallsSpaced ==
    ASSUME Sized
    PROVE  Comp!Spec => []Comp!CallsAreSpaced
<1>1. Comp!Init => SpacingInv
  <2> SUFFICES ASSUME Comp!Init PROVE SpacingInv
    OBVIOUS
  <2>1. /\ clock \in Int /\ last \in Int /\ last <= clock /\ Comp!Idle \in Int
    BY DEF Comp!Init, Sized, Comp!Idle
  <2>2. calls \in [Clients -> Seq(Int)] /\ \A c \in Clients : DOMAIN calls[c] = {}
    BY DEF Comp!Init
  <2>3. deadline \in [Clients -> Int]
    BY <2>1 DEF Comp!Init
  <2> QED BY <2>1, <2>2, <2>3 DEF SpacingInv, Comp!CallsAreSpaced
<1>2. SpacingInv /\ [Comp!Next]_(Comp!vars) => SpacingInv'
  BY SpacingInvStep
<1>3. SpacingInv => Comp!CallsAreSpaced
  BY DEF SpacingInv
<1> QED BY <1>1, <1>2, <1>3, PTL DEF Comp!Spec
=============================================================================
