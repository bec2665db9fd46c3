--------------------------- MODULE IdempotentPort ---------------------------
(***************************************************************************)
(* IdempotentPort.Validate over an InMemoryIdempotentStore                 *)
(* (go-core/idempotent.go).  Validate looks the key up under its mutex,    *)
(* runs the inner step without it, and looks the key up again before it    *)
(* stores the result.                                                      *)
(*                                                                         *)
(* The inner step's result is the number of its execution, so that two     *)
(* executions never agree by chance.  An expired entry stays in the map    *)
(* and Get answers as if it were not there: both are Absent here.          *)
(***************************************************************************)
EXTENDS Naturals, FiniteSets

CONSTANTS
    Callers, Keys,
    MaxRuns       \* bound on the executions of the inner step

VARIABLES
    store,    \* store[k]: the unexpired result, Absent without one
    runs,     \* executions of the inner step so far
    pc, key,  \* pc[c], key[c]: c's next step and its request's key
    result,   \* result[c]: what the inner step returned to c, then c's answer
    fresh,    \* fresh[k]: answers with FromCache = false since k was absent
    reply     \* the callers that have just been answered without an error

vars == <<store, runs, pc, key, result, fresh, reply>>

Absent == 0
Results == 0..MaxRuns

TypeOK ==
    /\ store \in [Keys -> Results]
    /\ runs \in 0..MaxRuns
    /\ pc \in [Callers -> {"idle", "run", "second"}]
    /\ key \in [Callers -> Keys]
    /\ result \in [Callers -> Results]
    /\ fresh \in [Keys -> 0..1]
    /\ reply \in SUBSET Callers /\ Cardinality(reply) <= 1

Init ==
    /\ store = [k \in Keys |-> Absent]
    /\ runs = 0
    /\ pc = [c \in Callers |-> "idle"]
    /\ key \in [Callers -> Keys]
    /\ result = [c \in Callers |-> Absent]
    /\ fresh = [k \in Keys |-> 0]
    /\ reply = {}

-----------------------------------------------------------------------------

\* The first check, and the cached answer when there is one.
FirstCheck(c, k) ==
    /\ pc[c] = "idle"
    /\ key' = [key EXCEPT ![c] = k]
    /\ IF store[k] # Absent
       THEN result' = [result EXCEPT ![c] = store[k]] /\ reply' = {c} /\ UNCHANGED pc
       ELSE pc' = [pc EXCEPT ![c] = "run"] /\ reply' = {} /\ UNCHANGED result
    /\ UNCHANGED <<store, runs, fresh>>

RunInner(c) ==
    /\ pc[c] = "run"
    /\ runs < MaxRuns
    /\ runs' = runs + 1
    /\ result' = [result EXCEPT ![c] = runs + 1]
    /\ pc' = [pc EXCEPT ![c] = "second"]
    /\ reply' = {}
    /\ UNCHANGED <<store, key, fresh>>

\* An error is returned and not stored.
InnerFails(c) ==
    /\ pc[c] = "run"
    /\ pc' = [pc EXCEPT ![c] = "idle"]
    /\ reply' = {}
    /\ UNCHANGED <<store, runs, key, result, fresh>>

\* Mutant: the result is stored without the second look.
StoreUnchecked(c) ==
    /\ pc[c] = "second"
    /\ store' = [store EXCEPT ![key[c]] = result[c]]
    /\ fresh' = [fresh EXCEPT ![key[c]] = @ + 1]
    /\ pc' = [pc EXCEPT ![c] = "idle"]
    /\ reply' = {c}
    /\ UNCHANGED <<runs, key, result>>

\* The second check: a result stored meanwhile wins over the caller's own.
SecondCheck(c) ==
    /\ pc[c] = "second"
    /\ IF store[key[c]] # Absent
       THEN /\ result' = [result EXCEPT ![c] = store[key[c]]]
            /\ UNCHANGED <<store, fresh>>
       ELSE /\ store' = [store EXCEPT ![key[c]] = result[c]]
            /\ fresh' = [fresh EXCEPT ![key[c]] = @ + 1]
            /\ UNCHANGED result
    /\ pc' = [pc EXCEPT ![c] = "idle"]
    /\ reply' = {c}
    /\ UNCHANGED <<runs, key>>

Validate(c) == RunInner(c) \/ InnerFails(c) \/ SecondCheck(c) \/ \E k \in Keys : FirstCheck(c, k)

\* The TTL passes, or the entry is deleted; Clear deletes them all.
Expire(k) ==
    /\ store[k] # Absent
    /\ store' = [store EXCEPT ![k] = Absent]
    /\ fresh' = [fresh EXCEPT ![k] = 0]
    /\ reply' = {}
    /\ UNCHANGED <<runs, pc, key, result>>

Clear ==
    /\ \E k \in Keys : store[k] # Absent
    /\ store' = [k \in Keys |-> Absent]
    /\ fresh' = [k \in Keys |-> 0]
    /\ reply' = {}
    /\ UNCHANGED <<runs, pc, key, result>>

Next == Clear \/ (\E c \in Callers : Validate(c)) \/ (\E k \in Keys : Expire(k))

Spec == Init /\ [][Next]_vars

-----------------------------------------------------------------------------

\* "Requests with the same key return the cached result": whoever is answered
\* gets the one result that the key has, even when several executed the step.
AnswersAgree == \A c \in reply : result[c] = store[key[c]]

\* Of the answers in one TTL window exactly the first is marked as executed, so a
\* caller that acts on FromCache = false acts once.
OneFreshAnswer == \A k \in Keys : fresh[k] = IF store[k] = Absent THEN 0 ELSE 1
=============================================================================
