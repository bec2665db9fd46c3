-------------------------------- MODULE Saga --------------------------------
(***************************************************************************)
(* SagaComposer.Run (go-core/transaction.go): N steps executed in order;   *)
(* when one fails, or the context is found cancelled before one, the steps *)
(* completed so far are compensated from the last to the first.            *)
(*                                                                         *)
(* A call of Run shares nothing with another, so one call is modelled.     *)
(* What runs beside it is the owner of the context, who may cancel it      *)
(* between any two of its steps.                                           *)
(***************************************************************************)
EXTENDS Naturals

CONSTANT N   \* len(steps)

ASSUME StepsAssumption == N \in Nat

VARIABLES
    pc,        \* where Run is: "check", "execute", "compensate", or how it ended
    at,        \* the step Run is at, or the next one to compensate
    effect,    \* effect[i]: what has become of step i
    cancelled  \* the context is done

vars == <<pc, at, effect, cancelled>>

Steps == 1 .. N

\* How a call of Run ends: with a result, with the error of a step, or with the
\* error of the context.
Ended == {"committed", "failed", "aborted"}

\* A step that fails may have had part of its effect.  A compensation that
\* fails leaves the effect of its step, which is then only logged.
Effects == {"none", "applied", "failed", "undone", "logged"}

TypeOK ==
    /\ pc \in {"check", "execute", "compensate", "giveUp"} \cup Ended
    /\ at \in 0 .. N + 1
    /\ effect \in [Steps -> Effects]
    /\ cancelled \in BOOLEAN

Init ==
    /\ pc = "check"
    /\ at = 1
    /\ effect = [i \in Steps |-> "none"]
    /\ cancelled = FALSE

Cancel ==
    /\ pc \notin Ended
    /\ cancelled' = TRUE
    /\ UNCHANGED <<pc, at, effect>>

\* The select before a step: a context cancelled by now ends the forward phase,
\* one cancelled later is not noticed before the next step.
ContextAlive ==
    /\ pc = "check"
    /\ at \in Steps
    /\ ~cancelled
    /\ pc' = "execute"
    /\ UNCHANGED <<at, effect, cancelled>>

ContextDone ==
    /\ pc = "check"
    /\ at \in Steps
    /\ cancelled
    /\ pc' = "giveUp"
    /\ at' = at - 1
    /\ UNCHANGED <<effect, cancelled>>

\* Cancelled or not, Run succeeds once the last step is done.
Commit ==
    /\ pc = "check"
    /\ at = N + 1
    /\ pc' = "committed"
    /\ UNCHANGED <<at, effect, cancelled>>

StepSucceeds ==
    /\ pc = "execute"
    /\ effect' = [effect EXCEPT ![at] = "applied"]
    /\ at' = at + 1
    /\ pc' = "check"
    /\ UNCHANGED cancelled

\* Mutant: the step that failed is compensated too.
StepFailsCounted ==
    /\ pc = "execute"
    /\ effect' = [effect EXCEPT ![at] = "failed"]
    /\ pc' = "compensate"
    /\ UNCHANGED <<at, cancelled>>

\* compensate(completed - 1): the step that failed is not compensated.
StepFails ==
    /\ pc = "execute"
    /\ effect' = [effect EXCEPT ![at] = "failed"]
    /\ at' = at - 1
    /\ pc' = "compensate"
    /\ UNCHANGED cancelled

\* compensate: a failure is logged and the next compensation runs all the same.
\* The context passed on is the one of Run, done or not.
Compensate ==
    /\ pc \in {"compensate", "giveUp"}
    /\ at > 0
    /\ \E result \in {"undone", "logged"} : effect' = [effect EXCEPT ![at] = result]
    /\ at' = at - 1
    /\ UNCHANGED <<pc, cancelled>>

Return ==
    /\ pc \in {"compensate", "giveUp"}
    /\ at = 0
    /\ pc' = IF pc = "compensate" THEN "failed" ELSE "aborted"
    /\ UNCHANGED <<at, effect, cancelled>>

Next ==
    \/ Cancel
    \/ ContextAlive
    \/ ContextDone
    \/ Commit
    \/ StepSucceeds
    \/ StepFails
    \/ Compensate
    \/ Return

Spec == Init /\ [][Next]_vars

-----------------------------------------------------------------------------

Compensated(i) == effect[i] \in {"undone", "logged"}

\* Steps take effect in order and are compensated in the reverse order, so that
\* what is in effect is always a first part of the saga.
InOrder ==
    \A i, j \in Steps : i < j /\ effect[j] = "applied" => effect[i] = "applied"

\* A saga that ended has every step in effect, or none: each step before the one
\* that failed or was not begun was compensated, the failed one was not, and no
\* later one was ever begun.
Settled ==
    /\ pc = "committed" => \A i \in Steps : effect[i] = "applied"
    /\ pc = "failed" =>
        \E k \in Steps :
            /\ effect[k] = "failed"
            /\ \A i \in Steps : /\ i < k => Compensated(i)
                                /\ i > k => effect[i] = "none"
    /\ pc = "aborted" =>
        /\ cancelled
        /\ \E k \in Steps : \A i \in Steps :
            IF i < k THEN Compensated(i) ELSE effect[i] = "none"

\* Run is all or nothing, in the order that its comment promises ("on failure,
\* previous steps are compensated in reverse").
AllOrNothing == InOrder /\ Settled
=============================================================================
