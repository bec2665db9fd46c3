------------------------------ MODULE Migration ------------------------------
(* The migration engine. The server's sessions (migrate_api.go, _execute.go,  *)
(* _rollback.go, _sse.go): every execute request starts a goroutine, cancel   *)
(* and rollback requests change the session under it, and a client reads the  *)
(* events of all of them from a channel that drops what it has no room for.   *)
(* The engine under it (go-core/migrate): the log of what was transformed and *)
(* its file, the gates that read it, and the parser with the four classifiers *)
(* that decide what a function is to become. Three behaviours of their own:   *)
(* ServerNext, LogNext and ClassifyNext.                                      *)
EXTENDS Integers, Sequences, FiniteSets, SequencesExt

CONSTANTS
    Jobs,       \* Requests to execute or to analyse; a session is named after its job.
    Orders,     \* Requests to cancel or to roll back.
    Dirs,       \* Directories: the marker files found, whether all files parse,
                \* their number and which of them are tests.
    Room,       \* The capacity of a subscriber's channel (32).
    Writers,    \* Users of one MigrationLog.
    MaxEntries, \* Bound: entries of the log.
    Bodies      \* Functions to classify.

VARIABLES
    pc, target, dir,      \* Each request: where it is, its session, its directory.
    status, runner,       \* Each session's Status, and its runMigrationAsync.
    channel, heard, inOrder, \* The client: its channel, the last event it got of each
                          \* session's runner, and whether those came in order.
    undone,               \* Sessions rolled back after their migration, not cancelled since.
    log, sealed,          \* MigrationLog.Entries and Sealed.
    left,                 \* What each user has still to append (result.LogEntries).
    writing, disk,        \* FileLogStore.Store under way, and its file.
    alive,                \* The process has not crashed.
    report,               \* The last validation: the gates' decision and the report.
    function, pattern     \* A function and what it was classified as.

serverVars == <<pc, target, dir, status, runner, channel, heard, inOrder, undone>>
logVars == <<log, sealed, left, writing, disk, alive, report>>
classVars == <<function, pattern>>

-----------------------------------------------------------------------------
\* Sessions.

Requests == Jobs \cup Orders

Absent == "absent"
Terminal == {"completed", "completed_with_errors", "error", "cancelled", "rolled_back"}
Event(s, rank) == [session |-> s, rank |-> rank]

\* The events of a runner in their order; those of the handlers have rank 0.
Start == 1
FileStart(i) == 2 * i + 2
FileDone(i) == 2 * i + 3
Error == 98
Complete == 99

\* publish: one subscriber; a full channel loses the event.
Publish(s, rank) == channel' = IF Len(channel) < Room THEN Append(channel, Event(s, rank)) ELSE channel

\* Detect asks the languages in the order of a map, and only Go has a parser.
Detected(d) == IF d.markers = {} THEN {"unknown"} ELSE d.markers
Supported(d, language) == language = "go" /\ d.parses

OnlyRequest == UNCHANGED <<runner, heard, inOrder>>

\* handleMigrateExecute
ExecuteMigration(q) ==
    /\ pc[q] = "ready"
    /\ pc' = [pc EXCEPT ![q] = "done"] /\ \E d \in Dirs : dir' = [dir EXCEPT ![q] = d]
    /\ status' = [status EXCEPT ![q] = "running"]
    /\ runner' = [runner EXCEPT ![q].at = "start"]
    /\ UNCHANGED <<target, channel, heard, inOrder, undone>>

\* handleMigrateAnalyze, which announces itself before it looks at the directory.
Analyze(q) ==
    /\ pc[q] \in {"ready", "analyzing", "analyzed"}
    /\ \/ /\ pc[q] = "ready" /\ pc' = [pc EXCEPT ![q] = "analyzing"] /\ Publish(q, 0)
          /\ \E d \in Dirs : dir' = [dir EXCEPT ![q] = d]
          /\ UNCHANGED status
       \/ /\ pc[q] = "analyzing" /\ UNCHANGED <<channel, dir>>
          /\ \E language \in Detected(dir[q]) :
                IF Supported(dir[q], language)
                THEN pc' = [pc EXCEPT ![q] = "analyzed"] /\ status' = [status EXCEPT ![q] = "completed"]
                ELSE pc' = [pc EXCEPT ![q] = "done"] /\ UNCHANGED status
       \/ pc[q] = "analyzed" /\ pc' = [pc EXCEPT ![q] = "done"] /\ Publish(q, 0) /\ UNCHANGED <<dir, status>>
    /\ UNCHANGED <<target, undone>> /\ OnlyRequest

\* handleMigrateSessionCancel changes the status alone: the runner goes on.
Cancel(q, s) ==
    /\ pc[q] = "ready" /\ status[s] # Absent
    /\ pc' = [pc EXCEPT ![q] = "cancelled"] /\ target' = [target EXCEPT ![q] = s]
    /\ status' = [status EXCEPT ![s] = "cancelled"]
    /\ undone' = undone \ {s}
    /\ UNCHANGED <<dir, channel>> /\ OnlyRequest

\* handleMigrateRollback of a session, whatever its status.
Rollback(q, s) ==
    /\ pc[q] = "ready" /\ status[s] # Absent
    /\ pc' = [pc EXCEPT ![q] = "rolling"] /\ target' = [target EXCEPT ![q] = s]
    /\ status' = [status EXCEPT ![s] = "rolling_back"]
    /\ undone' = IF runner[s].at \in {"none", "ended"} THEN undone \cup {s} ELSE undone
    /\ UNCHANGED <<dir, channel>> /\ OnlyRequest

\* What follows the lock: the event, and for a rollback its goroutine.
AfterLock(q) ==
    /\ pc[q] \in {"cancelled", "rolling", "rolled"}
    /\ Publish(target[q], 0)
    /\ pc' = [pc EXCEPT ![q] = IF @ = "rolling" THEN "undoing" ELSE "done"]
    /\ UNCHANGED <<target, dir, status, undone>> /\ OnlyRequest

UndoEnds(q) ==
    /\ pc[q] = "undoing"
    /\ status' = [status EXCEPT ![target[q]] = "rolled_back"]
    /\ pc' = [pc EXCEPT ![q] = "rolled"]
    /\ UNCHANGED <<target, dir, channel, undone>> /\ OnlyRequest

\* runMigrationAsync, from one publish or status change to the next.
Goes(s, at) == runner' = [runner EXCEPT ![s].at = at]
OnlyRunner == UNCHANGED <<pc, target, dir, heard, inOrder, undone>>

\* A mutant: the completion is announced before the status is set.
AnnounceFirst == <<"announce", "update">>

Closing == <<"update", "announce">>

RunnerStarts(s) ==
    /\ runner[s].at = "start" /\ Publish(s, Start) /\ Goes(s, "detect")
    /\ UNCHANGED status /\ OnlyRunner

RunnerParses(s) ==
    /\ runner[s].at = "detect"
    /\ \E language \in Detected(dir[s]) :
          Goes(s, IF ~Supported(dir[s], language) THEN "failing"
                  ELSE IF dir[s].files = 0 THEN Closing[1] ELSE "file")
    /\ UNCHANGED <<status, channel>> /\ OnlyRunner

\* The error is announced first, and the status follows.
RunnerFails(s) ==
    /\ \/ runner[s].at = "failing" /\ Publish(s, Error) /\ Goes(s, "failed") /\ UNCHANGED status
       \/ /\ runner[s].at = "failed" /\ UNCHANGED channel
          /\ status' = [status EXCEPT ![s] = "error"] /\ Goes(s, "ended")
    /\ OnlyRunner

RunnerDoesFile(s) ==
    LET i == runner[s].file IN
    /\ \/ runner[s].at = "file" /\ Publish(s, FileStart(i)) /\ Goes(s, "fileDone")
       \/ /\ runner[s].at = "fileDone" /\ Publish(s, FileDone(i))
          /\ runner' = [runner EXCEPT ![s] =
                [at |-> IF i + 1 < dir[s].files THEN "file" ELSE Closing[1], file |-> i + 1]]
    /\ UNCHANGED status /\ OnlyRunner

\* Every seventh file from the fourth on counts as an error, unless it is a test.
Failing(d) == {i \in 0 .. d.files - 1 : i % 7 = 3 /\ i \notin d.tests}

RunnerCloses(s) ==
    /\ runner[s].at \in Range(Closing)
    /\ Goes(s, IF runner[s].at = Closing[2] THEN "ended" ELSE Closing[2])
    /\ IF runner[s].at = "announce" THEN Publish(s, Complete) /\ UNCHANGED status
       ELSE /\ status' = [status EXCEPT ![s] =
                  IF Failing(dir[s]) = {} THEN "completed" ELSE "completed_with_errors"]
            /\ UNCHANGED channel
    /\ OnlyRunner

Runner(s) ==
    RunnerStarts(s) \/ RunnerParses(s) \/ RunnerFails(s) \/ RunnerDoesFile(s) \/ RunnerCloses(s)

\* handleMigrateSSE hands the next event on.
Hear ==
    /\ channel # <<>> /\ channel' = Tail(channel)
    /\ LET e == Head(channel) IN
       IF e.rank = 0 THEN UNCHANGED <<heard, inOrder>>
       ELSE /\ heard' = [heard EXCEPT ![e.session] = e.rank]
            /\ inOrder' = (inOrder /\ heard[e.session] < e.rank)
    /\ UNCHANGED <<pc, target, dir, status, runner, undone>>

Handler(q) ==
    \/ q \in Jobs /\ (ExecuteMigration(q) \/ Analyze(q))
    \/ q \in Orders /\ \E s \in Jobs : Cancel(q, s) \/ Rollback(q, s)
    \/ AfterLock(q) \/ UndoEnds(q)

ServerNext == Hear \/ (\E q \in Requests : Handler(q)) \/ \E s \in Jobs : Runner(s)

-----------------------------------------------------------------------------
\* MigrationLog and its users; an entry is its number and whether its checksum is of
\* its original text ("ok", "bad" or "none").

\* A mutant: the number is that of the entries so far.
FromZero == Len(log)

\* seqCounter, which counts the entries.
NextSeq == Len(log) + 1

\* Append fails once the log is sealed.
Appended(sum) == log' = IF sealed THEN log ELSE Append(log, [seq |-> NextSeq, sum |-> sum])

\* TransformFunction appends the entries of a result one by one and gives up at the
\* first that the sealed log refuses; what went before stays in the log.
Transform(w) ==
    /\ alive /\ left[w] # <<>> /\ Len(log) < MaxEntries
    /\ Appended(Head(left[w]))
    /\ left' = [left EXCEPT ![w] = IF sealed THEN <<>> ELSE Tail(@)]
    /\ UNCHANGED <<sealed, writing, disk, alive, report>>

Seal == alive /\ sealed' = TRUE /\ UNCHANGED <<log, left, writing, disk, alive, report>>

\* VerifyIntegrity: the numbers first, then the checksums that there are.
Intact(entries) ==
    /\ \A i \in DOMAIN entries : entries[i].seq = i
    /\ \A i \in DOMAIN entries : entries[i].sum # "bad"

\* GateChain.Evaluate of the default gates: the first that fails, or "none". Compiling
\* (G5) is not checked, and with the default classifiers nothing is unknown (G2, G3).
Blocked(files, entries) ==
    IF files = 0 THEN "G1"
    ELSE IF entries = <<>> THEN "G4"
    ELSE IF ~Intact(entries) THEN "G6" ELSE "none"

\* The gates, then EnhancedValidator.Validate, which asks them too and adds an entry on
\* its result if the log takes it, as in handleMigrateValidate.
Validate ==
    /\ alive /\ Len(log) < MaxEntries
    /\ \E files \in {0, 1} :
          report' = [decision |-> Blocked(files, log), passed |-> Blocked(files, log) = "none",
                     files |-> files, length |-> Len(log), was |-> report.passed]
    /\ Appended("none")
    /\ UNCHANGED <<sealed, left, writing, disk, alive>>

\* FileLogStore.Store empties the file and then writes the entries that the log had.
StoreBegins ==
    /\ alive /\ writing.left = <<>>
    /\ writing' = [left |-> log, all |-> log]
    /\ disk' = [lines |-> <<>>, torn |-> FALSE]
    /\ UNCHANGED <<log, sealed, left, alive, report>>

StoreLine ==
    /\ alive /\ writing.left # <<>>
    /\ disk' = [disk EXCEPT !.lines = Append(@, Head(writing.left))]
    /\ writing' = [writing EXCEPT !.left = Tail(@)]
    /\ UNCHANGED <<log, sealed, left, alive, report>>

\* A crash, in the middle of a line too.
Crash ==
    /\ alive /\ alive' = FALSE
    /\ \/ UNCHANGED disk
       \/ writing.left # <<>> /\ disk' = [disk EXCEPT !.torn = TRUE]
    /\ UNCHANGED <<log, sealed, left, writing, report>>

\* loadAll: the entries of a file, or an error for which queryAll leaves it out.
Loaded == IF disk.torn THEN <<>> ELSE disk.lines

\* A mutant: the end of the range is left out.
Before(from, to) == SelectSeq(Loaded, LAMBDA e : e.seq >= from /\ e.seq < to)

\* Replay and Export, of one session's file.
Replay(from, to) == SelectSeq(Loaded, LAMBDA e : e.seq >= from /\ e.seq <= to)

LogNext == (\E w \in Writers : Transform(w)) \/ Seal \/ Validate \/ StoreBegins \/ StoreLine \/ Crash

-----------------------------------------------------------------------------
\* Classification. A body is its statements (I/O among them may stand in a nested block,
\* a return or a defer), how many functions it calls, the words in the function's name,
\* the type of its parameters and whether it returns an error.

\* stmtToBodyNode looks for I/O in calls and assignments of one call, and no deeper.
Nodes(f) == f.statements \ {"nested io"}

\* extractCallGraph looks everywhere, and an I/O call is never a builtin.
Calls(f) == IF f.calls = 0 /\ f.statements \cap {"io", "nested io"} # {} THEN 1 ELSE f.calls

If(evidence, confidence) == IF evidence THEN confidence ELSE 0

\* The confidences in thousandths. In binary floating point 0.3 + 0.4 + 0.2 and
\* 0.3 + 0.4 + 0.1 come out a bit too small, and so do all three together.
AtomConfidence(f) ==
    500 + If("io" \notin Nodes(f), 300) + If(f.parameter \notin {"context", "io"}, 100) + If(Calls(f) = 0, 100)

PortConfidence(f) ==
    300 + If("port" \in f.words, 300) + If("if" \in Nodes(f), 200) + If(f.error, 200)

AdapterConfidence(f) ==
    LET name == "adapter" \in f.words
        parameter == f.parameter \in {"io", "client"}
    IN 300 + If("io" \in Nodes(f), 400 - If(name \/ parameter, 1)) + If(name, 200) + If(parameter, 100)

ComposerConfidence(f) ==
    300 + If(Calls(f) >= 3, 300) + If("if" \in Nodes(f), 200) + If("go" \in Nodes(f), 200)

\* The classifiers in the order of the handlers.
Classified(f) ==
    <<[pattern |-> "atom", confidence |-> AtomConfidence(f)],
      [pattern |-> "port", confidence |-> PortConfidence(f)],
      [pattern |-> "adapter", confidence |-> AdapterConfidence(f)],
      [pattern |-> "composer", confidence |-> ComposerConfidence(f)]>>

\* ClassifyFunctions: the first of the greatest confidence.
ClassifyFunction ==
    /\ pattern = "unknown"
    /\ LET matches == Classified(function)
           best == CHOOSE i \in 1 .. 4 : \A j \in 1 .. 4 :
                      \/ matches[j].confidence < matches[i].confidence
                      \/ matches[j].confidence = matches[i].confidence /\ i <= j
       IN pattern' = matches[best].pattern
    /\ UNCHANGED function

ClassifyNext == ClassifyFunction

-----------------------------------------------------------------------------

ServerInit ==
    /\ pc = [q \in Requests |-> "ready"] /\ target = [q \in Orders |-> CHOOSE s \in Jobs : TRUE]
    /\ dir = [q \in Jobs |-> CHOOSE d \in Dirs : TRUE]
    /\ status = [s \in Jobs |-> Absent]
    /\ runner = [s \in Jobs |-> [at |-> "none", file |-> 0]]
    /\ channel = <<>> /\ heard = [s \in Jobs |-> 0] /\ inOrder = TRUE /\ undone = {}

LogInit ==
    /\ log = <<>> /\ sealed = FALSE
    /\ left \in [Writers -> {<<"ok", "none">>, <<"bad">>}]
    /\ writing = [left |-> <<>>, all |-> <<>>] /\ disk = [lines |-> <<>>, torn |-> FALSE]
    /\ alive = TRUE
    /\ report = [decision |-> "G1", passed |-> FALSE, files |-> 0, length |-> 0, was |-> FALSE]

ClassifyInit == function \in Bodies /\ pattern = "unknown"

Init == ServerInit /\ LogInit /\ ClassifyInit

Next ==
    \/ ServerNext /\ UNCHANGED <<logVars, classVars>>
    \/ LogNext /\ UNCHANGED <<serverVars, classVars>>
    \/ ClassifyNext /\ UNCHANGED <<serverVars, logVars>>

vars == <<serverVars, logVars, classVars>>
Spec == Init /\ [][Next]_vars

\* A handler that has begun and a goroutine go on; requests need not come.
ServerFairness ==
    /\ \A q \in Orders : WF_serverVars(AfterLock(q) \/ UndoEnds(q))
    /\ \A s \in Jobs : WF_serverVars(Runner(s)) /\ WF_serverVars(pc[s] # "ready" /\ Analyze(s))

-----------------------------------------------------------------------------

TypeOK ==
    /\ \A q \in Requests :
          pc[q] \in {"ready", "analyzing", "analyzed", "cancelled", "rolling", "undoing", "rolled", "done"}
    /\ \A q \in Orders : target[q] \in Jobs
    /\ \A s \in Jobs :
          /\ dir[s] \in Dirs /\ status[s] \in Terminal \cup {Absent, "running", "rolling_back"}
          /\ runner[s].at \in {"none", "start", "detect", "failing", "failed", "file", "fileDone", "ended"}
                                  \cup Range(Closing)
    /\ Len(channel) <= Room /\ undone \subseteq Jobs
    /\ Len(log) <= MaxEntries /\ sealed \in BOOLEAN /\ alive \in BOOLEAN
    /\ pattern \in {"unknown", "atom", "port", "adapter", "composer"}

\* A client that reads the event stream hears of each migration in order, and once it
\* hears that one is complete no later look at the session says that it is still running;
\* a session that counts as active (handleMigrateStatus) has a goroutine that works on it
\* (runMigrationAsync).
SessionsAgree ==
    /\ inOrder
    /\ \A s \in Jobs :
          /\ heard[s] = Complete => status[s] # "running"
          /\ status[s] = "running" => runner[s].at \notin {"none", "ended"}

\* A migration that had ended when it was rolled back stays rolled back, unless it is
\* cancelled; one that was still going on may be completed over its rollback
\* (handleMigrateRollback).
RollbackStands == \A s \in undone : status[s] \in {"rolling_back", "rolled_back"}

\* Entries of several users are numbered without gaps or repetitions, so that a log fails
\* its integrity check only for a wrong checksum; what a file gives back is the beginning
\* of the log it was made of, nothing if its last line was torn, and all of it when the
\* store was not cut short (log_entry.go, log_store.go).
LogIsFaithful ==
    /\ \A i \in DOMAIN log : log[i].seq = i
    /\ IsPrefix(Loaded, log)
    /\ writing.left = <<>> => disk.lines = writing.all
    /\ \A i, j \in 1 .. Len(Loaded) : Replay(i, j) = SubSeq(Loaded, i, j)

\* The decision of the gates and the report on the same files agree, although the report
\* is written to the log that the gates read; what passed once fails later only for want
\* of files or for a wrong checksum appended since; and nothing passes before something
\* was logged (handleMigrateValidate, EnhancedValidator.Validate).
VerdictsAgree ==
    /\ report.passed <=> report.decision = "none"
    /\ report.passed => report.length > 0 /\ report.files > 0
    /\ report.was /\ ~report.passed => report.files = 0 \/ \E i \in DOMAIN log : log[i].sum = "bad"

\* A function with I/O among its own statements is never taken for pure, and every
\* function is something, so that no gate for unknown functions ever closes (pattern*.go).
ClassesAreSound ==
    pattern # "unknown" =>
       /\ "io" \in function.statements => pattern # "atom"
       /\ pattern = "composer" => Calls(function) >= 3

\* A sealed log stays as it is (Append).
SealedStays == [][sealed => log' = log]_log

\* Every session comes to rest: no migration runs and no rollback goes on for ever,
\* whatever else is done to the session (runMigrationAsync, handleMigrateRollback).
SessionsEnd == \A s \in Jobs : <>[](status[s] \in Terminal \cup {Absent})

=============================================================================
