------------------------ MODULE GlobalCircuitBreaker ------------------------
(***************************************************************************)
(* GlobalCircuitBreaker (go-core/patterns_circuit_global.go), the breaker  *)
(* of one downstream service, shared by the instances that call it.  An    *)
(* instance asks IsOpen, calls the service when the answer is no, and      *)
(* reports the outcome.  The fields are atomics: each access is a step.    *)
(* Changes are broadcast through the EventBus after they are made.         *)
(***************************************************************************)
EXTENDS Naturals, FiniteSets

CONSTANTS
    Instances,
    MinRequestCount,  \* requests before a rate counts
    MaxCount,         \* bound on each counter; the rate threshold is one half
    Resets            \* TRUE: Reset may be called

VARIABLES
    state, failures, successes,
    cooled,      \* now - lastFailure > CooldownPeriod
    pc,          \* pc[i]: i's next step
    announced,   \* the state in the last broadcast
    healthy      \* the service has recovered

vars == <<state, failures, successes, cooled, pc, announced, healthy>>

TypeOK ==
    /\ state \in {"closed", "open", "half_open"}
    /\ failures \in 0..MaxCount
    /\ successes \in 0..MaxCount
    /\ cooled \in BOOLEAN
    /\ pc \in [Instances -> {"idle", "cooldown", "half", "calling",
                             "failed", "stamp", "rate", "trip", "announce open",
                             "succeeded", "recover", "close", "clear failures",
                             "clear successes", "announce closed",
                             "reset failures", "reset successes"}]
    /\ announced \in {"closed", "open"}
    /\ healthy \in BOOLEAN

Init ==
    /\ state = "closed"
    /\ failures = 0 /\ successes = 0
    /\ cooled = TRUE
    /\ pc = [i \in Instances |-> "idle"]
    /\ announced = "closed"
    /\ healthy = FALSE

Goto(i, from, to) ==
    /\ pc[i] = from
    /\ pc' = [pc EXCEPT ![i] = to]

counters == <<failures, successes>>

-----------------------------------------------------------------------------
(* IsOpen.                                                                 *)

IsOpen(i) ==
    /\ Goto(i, "idle", IF state = "open" THEN "cooldown" ELSE "calling")
    /\ UNCHANGED <<state, counters, cooled, announced, healthy>>

CheckCooldown(i) ==
    /\ Goto(i, "cooldown", IF cooled THEN "half" ELSE "idle")
    /\ UNCHANGED <<state, counters, cooled, announced, healthy>>

\* Mutant: the cooldown ends and the circuit is left open.
AllowThrough(i) ==
    /\ Goto(i, "half", "calling")
    /\ UNCHANGED <<state, counters, cooled, announced, healthy>>

\* The caller may go on; a plain Store, whatever the state has become; not broadcast.
HalfOpen(i) ==
    /\ Goto(i, "half", "calling")
    /\ state' = "half_open"
    /\ UNCHANGED <<counters, cooled, announced, healthy>>

-----------------------------------------------------------------------------
(* ReportFailure and ReportSuccess.                                        *)

ReportFailure(i) ==
    /\ ~healthy
    /\ failures < MaxCount
    /\ Goto(i, "calling", "stamp")
    /\ failures' = failures + 1
    /\ UNCHANGED <<state, successes, cooled, announced, healthy>>

StampFailure(i) ==
    /\ Goto(i, "stamp", "rate")
    /\ cooled' = FALSE
    /\ UNCHANGED <<state, counters, announced, healthy>>

\* The loads of the two counters are one step.
Rate(i) ==
    /\ Goto(i, "rate",
            IF failures + successes >= MinRequestCount /\ 2 * failures >= failures + successes
            THEN "trip" ELSE "idle")
    /\ UNCHANGED <<state, counters, cooled, announced, healthy>>

\* CompareAndSwap(closed, open): a half-open circuit stays half open.
Trip(i) ==
    /\ Goto(i, "trip", IF state = "closed" THEN "announce open" ELSE "idle")
    /\ state' = IF state = "closed" THEN "open" ELSE state
    /\ UNCHANGED <<counters, cooled, announced, healthy>>

\* Counts above MaxCount are not told apart.
ReportSuccess(i) ==
    /\ Goto(i, "calling", "recover")
    /\ successes' = IF successes < MaxCount THEN successes + 1 ELSE successes
    /\ UNCHANGED <<state, failures, cooled, announced, healthy>>

Recover(i) ==
    /\ Goto(i, "recover", IF state = "half_open" THEN "close" ELSE "idle")
    /\ UNCHANGED <<state, counters, cooled, announced, healthy>>

Close(i) ==
    /\ Goto(i, "close", "clear failures")
    /\ state' = "closed"
    /\ UNCHANGED <<counters, cooled, announced, healthy>>

Reset(i) ==
    /\ Resets
    /\ Goto(i, "idle", "reset failures")
    /\ state' = "closed"
    /\ UNCHANGED <<counters, cooled, announced, healthy>>

ClearFailures(i) ==
    /\ \/ Goto(i, "clear failures", "clear successes")
       \/ Goto(i, "reset failures", "reset successes")
    /\ failures' = 0
    /\ UNCHANGED <<state, successes, cooled, announced, healthy>>

ClearSuccesses(i) ==
    /\ \/ Goto(i, "clear successes", "announce closed")
       \/ Goto(i, "reset successes", "idle")
    /\ successes' = 0
    /\ UNCHANGED <<state, failures, cooled, announced, healthy>>

\* Mutant: the recovery is not broadcast.
BroadcastOpenOnly(i) ==
    /\ \/ Goto(i, "announce open", "idle") /\ announced' = "open"
       \/ Goto(i, "announce closed", "idle") /\ UNCHANGED announced
    /\ UNCHANGED <<state, counters, cooled, healthy>>

\* broadcastStateChange runs the bus's subscribers before it returns.
Broadcast(i) ==
    /\ \/ Goto(i, "announce open", "idle") /\ announced' = "open"
       \/ Goto(i, "announce closed", "idle") /\ announced' = "closed"
    /\ UNCHANGED <<state, counters, cooled, healthy>>

-----------------------------------------------------------------------------

Answer(i) == IsOpen(i) \/ CheckCooldown(i) \/ HalfOpen(i)

Report(i) ==
    \/ ReportFailure(i) \/ StampFailure(i) \/ Rate(i) \/ Trip(i)
    \/ ReportSuccess(i) \/ Recover(i) \/ Close(i)
    \/ ClearFailures(i) \/ ClearSuccesses(i) \/ Broadcast(i)

CooldownPasses ==
    /\ ~cooled
    /\ cooled' = TRUE
    /\ UNCHANGED <<state, counters, pc, announced, healthy>>

ServiceRecovers ==
    /\ ~healthy
    /\ healthy' = TRUE
    /\ UNCHANGED <<state, counters, cooled, pc, announced>>

Next ==
    \/ CooldownPasses \/ ServiceRecovers
    \/ \E i \in Instances : Answer(i) \/ Report(i) \/ Reset(i)

Spec == Init /\ [][Next]_vars

\* Instances are scheduled and keep calling, and time passes.
FairSpec ==
    Spec /\ WF_vars(CooldownPasses) /\ \A i \in Instances : WF_vars(Answer(i) \/ Report(i))

-----------------------------------------------------------------------------

Quiet == \A i \in Instances : pc[i] = "idle"

\* No instance is locked out of a recovered service: although half-open failures
\* do not open the circuit again, and a late Trip, HalfOpen or Close may undo
\* another instance's change, the circuit ends closed.
EndsClosed == <>[](healthy => state = "closed")

\* The comment on the type says "state changes are broadcast to all subscribers
\* through the EventBus": when no call is under way
\* the subscribers know whether the circuit is open.
SubscribersInformed == Quiet => (announced = "open" <=> state # "closed")
=============================================================================
