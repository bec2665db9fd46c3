------------------------------ MODULE Composers ------------------------------
(* The composers of go-core: a Pipeline of steps (composer.go), pipelines in  *)
(* parallel (RunParallel, composer_parallel.go; FanOut, composer_fanout.go),  *)
(* WithRetry around WithTimeout around a pipeline, RetryWithBackoff around a  *)
(* function (patterns_retry.go), and the calls that Debounce and Throttle let *)
(* through. A value is the number of steps that made it. kind says which one  *)
(* runs; a context that ends may do so between any two steps.                 *)
EXTENDS Integers, Sequences, SequencesExt

CONSTANTS
    Branches,     \* The number of pipelines that run in parallel.
    StepCount,    \* The steps of a pipeline.
    MaxAttempts,  \* RetryConfig.MaxAttempts and maxRetries + 1.
    Callers,      \* Callers of Debounce and Throttle.
    Interval,     \* What they keep between calls.
    MaxClock      \* Bound: the clock.

VARIABLES
    kind,     \* The composer.
    ctx,      \* The caller's context: live or done.
    pipe,     \* Each branch's Pipeline.Run.
    did,      \* What each branch executed.
    channel,  \* RunParallel's resultCh, the branches in the order of arrival.
    closed,   \* close(resultCh) has happened.
    results,  \* What the caller has collected of each branch.
    answer,   \* What the composer returned: its error and its steps.
    attempt,  \* Attempts begun by WithRetry and RetryWithBackoff.
    timer,    \* The attempt: idle, running, expired, or waiting for the next.
    tried,    \* allSteps of WithRetry: the traces of its attempts.
    clock, last, deadline, calls  \* Debounce and Throttle: the time, lastCall, what a
                                  \* caller waits for, and when it called the inner composer.

runVars == <<pipe, did>>
groupVars == <<channel, closed, results>>
retryVars == <<attempt, timer, tried>>
clockVars == <<clock, last, deadline, calls>>
vars == <<kind, ctx, runVars, groupVars, answer, retryVars, clockVars>>

Index == 1 .. Branches
None == "none"
Fresh == [state |-> "ready", at |-> 1, trace |-> <<>>, error |-> None]
Idle == -1
Kinds == {"parallel", "fanout", "retry", "backoff", "debounce", "throttle"}
NoAnswer == [error |-> "pending", steps |-> <<>>]
Mark(i, how) == [step |-> i, how |-> how]
Parallel == kind \in {"parallel", "fanout"}

ContextEnds ==
    /\ ctx = "live" /\ ctx' = "done"
    /\ UNCHANGED <<kind, runVars, groupVars, answer, retryVars, clockVars>>

-----------------------------------------------------------------------------
\* Pipeline.Run of one branch; the only branch of a retry is the first.

Running(b) == IF Parallel THEN TRUE ELSE kind = "retry" /\ b = 1 /\ timer \in {"running", "expired"}

\* The context of an attempt also ends with its timeout.
Done == ctx = "done" \/ timer = "expired"

\* A run's end appends a last mark to its trace.
Ended(b, mark, error) ==
    [pipe EXCEPT ![b].state = "ended", ![b].error = error, ![b].trace = @ \o mark]

OnlyPipe == UNCHANGED <<kind, ctx, groupVars, answer, retryVars, clockVars>>

\* The check before each step.
BeforeStep(b) ==
    /\ Running(b) /\ pipe[b].state = "ready"
    /\ pipe' = IF Done THEN Ended(b, <<Mark(pipe[b].at, "cancelled")>>, "context")
               ELSE [pipe EXCEPT ![b].state = "checked"]
    /\ UNCHANGED did /\ OnlyPipe

\* step.Execute: an error that is no StepError, or a recoverable one, counts as failed.
ExecuteStep(b) ==
    /\ Running(b) /\ pipe[b].state = "checked"
    /\ \E how \in {"ok", "failed", "fatal"} :
          LET mark == <<Mark(pipe[b].at, how)>> IN
          /\ did' = [did EXCEPT ![b] = @ \o mark]
          /\ pipe' = IF how = "ok"
                     THEN [pipe EXCEPT ![b].state = "stepped", ![b].at = @ + 1, ![b].trace = @ \o mark]
                     ELSE Ended(b, mark, how)
    /\ OnlyPipe

\* The check after each step, and the end.
AfterStep(b) ==
    /\ Running(b) /\ pipe[b].state = "stepped"
    /\ pipe' = IF Done THEN Ended(b, <<Mark(pipe[b].at - 1, "cancelled")>>, "context")
               ELSE IF pipe[b].at > StepCount THEN Ended(b, <<>>, None)
               ELSE [pipe EXCEPT ![b].state = "ready"]
    /\ UNCHANGED did /\ OnlyPipe

Pipeline(b) == BeforeStep(b) \/ ExecuteStep(b) \/ AfterStep(b)

-----------------------------------------------------------------------------
\* RunParallel.

\* A mutant: the channel has room for one result.
OnePlace == 1

\* make(chan result, len(composers)).
Capacity == Branches

Send(b) ==
    /\ kind = "parallel" /\ pipe[b].state = "ended" /\ Len(channel) < Capacity
    /\ pipe' = [pipe EXCEPT ![b].state = "sent"]
    /\ channel' = Append(channel, b)
    /\ UNCHANGED <<kind, ctx, did, closed, results, answer, retryVars, clockVars>>

\* The goroutine that waits for the others.
CloseResults ==
    /\ kind = "parallel" /\ ~closed /\ \A b \in Index : pipe[b].state = "sent"
    /\ closed' = TRUE
    /\ UNCHANGED <<kind, ctx, runVars, channel, results, answer, retryVars, clockVars>>

Collect ==
    /\ kind = "parallel" /\ answer = NoAnswer /\ channel # <<>>
    /\ LET b == Head(channel) IN
       results' = [results EXCEPT ![b] = [error |-> pipe[b].error, steps |-> pipe[b].trace]]
    /\ channel' = Tail(channel)
    /\ UNCHANGED <<kind, ctx, runVars, closed, answer, retryVars, clockVars>>

Flat(traces) == FlattenSeq(traces)

ReturnResults ==
    /\ kind = "parallel" /\ answer = NoAnswer /\ channel = <<>> /\ closed
    /\ answer' = [error |-> IF \E b \in Index : results[b].error # None THEN "failed" ELSE None,
                  steps |-> Flat([b \in Index |-> results[b].steps])]
    /\ UNCHANGED <<kind, ctx, runVars, groupVars, retryVars, clockVars>>

\* select may take this branch also when results wait.
ReturnEarly ==
    /\ kind = "parallel" /\ answer = NoAnswer /\ ctx = "done"
    /\ answer' = [error |-> "context", steps |-> <<>>]
    /\ UNCHANGED <<kind, ctx, runVars, groupVars, retryVars, clockVars>>

-----------------------------------------------------------------------------
\* FanOut.Run: the first branch that failed, in their order, answers for all.

AllEnded == \A b \in Index : pipe[b].state = "ended"

\* A mutant: the last branch that failed.
LastFailure == {b \in Index : pipe[b].error # None /\ \A c \in Index : c > b => pipe[c].error = None}

FirstFailure == {b \in Index : pipe[b].error # None /\ \A c \in Index : c < b => pipe[c].error = None}

FanOut ==
    /\ kind = "fanout" /\ answer = NoAnswer /\ AllEnded
    /\ answer' =
          IF FirstFailure = {} THEN [error |-> None, steps |-> Flat([b \in Index |-> pipe[b].trace])]
          ELSE LET b == CHOOSE x \in FirstFailure : TRUE IN
               [error |-> IF ctx = "done" THEN "context" ELSE pipe[b].error,
                steps |-> Flat([c \in 1 .. b |-> pipe[c].trace])]
    /\ UNCHANGED <<kind, ctx, runVars, groupVars, retryVars, clockVars>>

-----------------------------------------------------------------------------
\* retryComposer.Run around timeoutComposer.Run around the first pipeline.

Answer(error) == answer' = [error |-> error, steps |-> tried']

\* A mutant: the trace of an earlier attempt is lost.
Latest(earlier, trace) == trace

\* append(allSteps, steps...)
WithSteps(earlier, trace) == earlier \o trace

BeginAttempt ==
    /\ kind = "retry" /\ answer = NoAnswer /\ timer = "idle" /\ UNCHANGED tried
    /\ IF attempt = MaxAttempts THEN Answer(pipe[1].error) /\ UNCHANGED <<pipe, attempt, timer>>
       ELSE IF ctx = "done" THEN Answer("context") /\ UNCHANGED <<pipe, attempt, timer>>
       ELSE /\ attempt' = attempt + 1 /\ timer' = "running"
            /\ pipe' = [pipe EXCEPT ![1] = Fresh]
            /\ UNCHANGED answer
    /\ UNCHANGED <<kind, ctx, did, groupVars, clockVars>>

TimeoutExpires ==
    /\ kind = "retry" /\ timer = "running" /\ pipe[1].state # "ended"
    /\ timer' = "expired"
    /\ UNCHANGED <<kind, ctx, runVars, groupVars, answer, attempt, tried, clockVars>>

\* The timeout is looked at after the inner composer returned, whatever it returned,
\* and so is the end of the caller's context.
Judged == IF Done THEN "timeout" ELSE pipe[1].error

\* No error, or a StepError that is not recoverable.
Stops(error) == error \in {None, "fatal"}

EndAttempt ==
    /\ kind = "retry" /\ timer \in {"running", "expired"} /\ pipe[1].state = "ended"
    /\ tried' = WithSteps(tried, pipe[1].trace)
    /\ pipe' = [pipe EXCEPT ![1].error = Judged]
    /\ IF Stops(Judged) THEN Answer(Judged) /\ timer' = "idle"
       ELSE timer' = (IF attempt < MaxAttempts THEN "waiting" ELSE "idle") /\ UNCHANGED answer
    /\ UNCHANGED <<kind, ctx, did, groupVars, attempt, clockVars>>

\* The delay passes, or the context ends it.
Delayed ==
    /\ kind = "retry" /\ answer = NoAnswer /\ timer = "waiting"
    /\ \/ timer' = "idle" /\ UNCHANGED <<answer, tried>>
       \/ ctx = "done" /\ UNCHANGED <<timer, tried>> /\ Answer("context")
    /\ UNCHANGED <<kind, ctx, runVars, groupVars, attempt, clockVars>>

WithRetry == BeginAttempt \/ EndAttempt \/ Delayed

\* RetryWithBackoff: one call of fn, whose error is retryable (failed) or not. With no
\* retries allowed the first error is the last, as the test of maxRetries = 0 in the
\* loop's head has no say in the one below it.
CallFunction ==
    /\ kind = "backoff" /\ answer = NoAnswer /\ timer = "idle"
    /\ attempt' = attempt + 1
    /\ \E how \in {"ok", "failed", "fatal"} :
          /\ tried' = Append(tried, Mark(attempt, how))
          /\ IF how = "ok" THEN Answer(None) /\ UNCHANGED timer
             ELSE IF how = "fatal" \/ attempt' = MaxAttempts THEN Answer(how) /\ UNCHANGED timer
             ELSE timer' = "waiting" /\ UNCHANGED answer
    /\ UNCHANGED <<kind, ctx, runVars, groupVars, clockVars>>

Backoff ==
    /\ kind = "backoff" /\ answer = NoAnswer /\ timer = "waiting"
    /\ \/ timer' = "idle" /\ UNCHANGED <<answer, tried>>
       \/ ctx = "done" /\ UNCHANGED <<timer, tried>> /\ Answer("context")
    /\ UNCHANGED <<kind, ctx, runVars, groupVars, attempt, clockVars>>

-----------------------------------------------------------------------------
\* Debounce and Throttle, which nobody has called at first.

Tick ==
    /\ kind \in {"debounce", "throttle"} /\ clock < MaxClock /\ clock' = clock + 1
    /\ UNCHANGED <<kind, ctx, runVars, groupVars, answer, retryVars, last, deadline, calls>>

Calls(c) == last' = clock /\ calls' = [calls EXCEPT ![c] = Append(@, clock)]
OnlyCalls == UNCHANGED <<kind, ctx, runVars, groupVars, answer, retryVars, clock>>

\* A mutant: the interval is measured from one unit later.
Early == clock - last + 1

\* time.Since(lastCall)
Since == clock - last

\* In one critical section: a call that comes too early is skipped, and is not made up for.
Debounce(c) ==
    /\ kind = "debounce" /\ Since >= Interval
    /\ Calls(c) /\ UNCHANGED deadline /\ OnlyCalls

\* Until the interval since lastCall is over.
ThrottleWaits(c) ==
    /\ kind = "throttle" /\ deadline[c] = Idle
    /\ deadline' = [deadline EXCEPT ![c] = IF Since < Interval THEN last + Interval ELSE clock]
    /\ UNCHANGED <<last, calls>> /\ OnlyCalls

\* lastCall is set in a second critical section: others may have called since.
ThrottleCalls(c) ==
    /\ kind = "throttle" /\ deadline[c] # Idle /\ deadline[c] <= clock
    /\ deadline' = [deadline EXCEPT ![c] = Idle]
    /\ Calls(c) /\ OnlyCalls

ThrottleCancelled(c) ==
    /\ kind = "throttle" /\ deadline[c] > clock /\ ctx = "done"
    /\ deadline' = [deadline EXCEPT ![c] = Idle]
    /\ UNCHANGED <<last, calls>> /\ OnlyCalls

-----------------------------------------------------------------------------

Init ==
    /\ kind \in Kinds
    /\ ctx = "live"
    /\ pipe = [b \in Index |-> Fresh] /\ did = [b \in Index |-> <<>>]
    /\ channel = <<>> /\ closed = FALSE /\ results = [b \in Index |-> NoAnswer]
    /\ answer = NoAnswer
    /\ attempt = 0 /\ timer = "idle" /\ tried = <<>>
    /\ clock = 0 /\ last = -Interval /\ deadline = [c \in Callers |-> Idle]
    /\ calls = [c \in Callers |-> <<>>]

Group == CloseResults \/ Collect \/ ReturnResults \/ ReturnEarly \/ FanOut
Retry == WithRetry \/ CallFunction \/ Backoff
Spacing(c) == Debounce(c) \/ ThrottleWaits(c) \/ ThrottleCalls(c) \/ ThrottleCancelled(c)

Next ==
    \/ ContextEnds \/ TimeoutExpires \/ Tick
    \/ \E b \in Index : Pipeline(b) \/ Send(b)
    \/ Group \/ Retry
    \/ \E c \in Callers : Spacing(c)

Spec == Init /\ [][Next]_vars

\* Every goroutine goes on; timeouts and the end of the caller's context need not come.
FairSpec ==
    /\ Spec
    /\ \A b \in Index : WF_vars(Pipeline(b) \/ Send(b))
    /\ WF_vars(Group) /\ WF_vars(Retry)

-----------------------------------------------------------------------------

TypeOK ==
    /\ kind \in Kinds /\ ctx \in {"live", "done"}
    /\ \A b \in Index : pipe[b].state \in {"ready", "checked", "stepped", "ended", "sent"}
    /\ Range(channel) \subseteq Index /\ closed \in BOOLEAN
    /\ attempt \in 0 .. MaxAttempts /\ timer \in {"idle", "running", "expired", "waiting"}
    /\ clock \in 0 .. MaxClock /\ last \in -Interval .. MaxClock
    /\ \A c \in Callers : deadline[c] \in -1 .. MaxClock + Interval

Executed(trace) == SelectSeq(trace, LAMBDA m : m.how # "cancelled")
Ends(b) == pipe[b].state \in {"ended", "sent"}

\* The steps a composer returns are those it executed, in their order, whatever else
\* runs meanwhile, and a step after a failure or a noticed cancellation is not executed
\* (Pipeline.Run); over several attempts nothing is lost or repeated (retryComposer.Run).
TraceIsExact ==
    /\ Parallel => \A b \in Index :
          /\ Ends(b) => did[b] = Executed(pipe[b].trace)
          /\ \A i \in 1 .. Len(did[b]) - 1 : did[b][i].how = "ok" /\ did[b][i].step = i
    /\ kind = "retry" /\ answer # NoAnswer => Executed(answer.steps) = did[1]
    /\ kind = "backoff" /\ answer # NoAnswer => \A i \in 1 .. Len(tried) - 1 : tried[i].how = "failed"

\* Who runs pipelines in parallel hears of every failure, and success only when every
\* branch went through its steps; the flat trace is in the order of the branches, not of
\* their ends; only who leaves with its context goes without (RunParallel, FanOut.Run).
ParallelIsComplete ==
    Parallel /\ answer # NoAnswer /\ answer.error # "context" =>
       LET failed == {b \in Index : pipe[b].error # None}
           heard == IF kind = "fanout" /\ failed # {}
                    THEN CHOOSE b \in failed : \A c \in failed : b <= c ELSE Branches
       IN
       /\ \A b \in Index : Ends(b)
       /\ answer.error = None <=> failed = {}
       /\ answer.error = None => \A b \in Index : Len(did[b]) = StepCount
       /\ answer.steps = Flat([b \in 1 .. heard |-> pipe[b].trace])

\* An operation is tried again after a failure that may pass, a timeout among them, and
\* after no other; success is the success of the last attempt (retryComposer.Run,
\* RetryWithBackoff).
RetriesAreJustified ==
    kind \in {"retry", "backoff"} /\ answer # NoAnswer =>
       LET steps == IF kind = "retry" THEN did[1] ELSE tried IN
       /\ answer.error = None => steps # <<>> /\ Last(steps).how = "ok"
       /\ answer.error = "fatal" => Last(steps).how = "fatal"
       /\ answer.error \in {"failed", "timeout"} => attempt = MaxAttempts
       /\ answer.error = "context" => ctx = "done"

\* Calls that Debounce lets through are an interval apart, whoever makes them, and so are
\* those that one caller makes through Throttle; two callers that wait together call
\* together (composer_fanout.go).
CallsAreSpaced ==
    \A c, d \in Callers : \A i \in DOMAIN calls[c], j \in DOMAIN calls[d] :
       (kind = "debounce" \/ c = d) /\ <<c, i>> # <<d, j>>
          => calls[c][i] - calls[d][j] \notin -Interval + 1 .. Interval - 1

\* Every branch's goroutine ends, also when its caller has left with the context, and
\* every caller gets an answer (RunParallel, FanOut.Run, retryComposer.Run,
\* RetryWithBackoff).
BranchesEnd == <>[](kind = "parallel" => closed)
CallersAnswered == <>[](Parallel \/ kind \in {"retry", "backoff"} => answer # NoAnswer)

=============================================================================
