--------------------------- MODULE WorkflowProofs ---------------------------
(***************************************************************************)
(* What holds of the work of a caller for any number of steps,             *)
(* submissions, attempts and events: a saga (Saga.tla) is all or nothing,  *)
(* the workbench (Workbench.tla) runs nothing but what its review          *)
(* approved, what a handoff (Handoff.tla) has confirmed can be received,   *)
(* and the event bus reports the handlers it called while its pool of      *)
(* workers loses no task (EventBus.tla).  Goroutines joined by channels    *)
(* (Streams.tla, the instance Flow) close each of them once, at the end.   *)
(* Releases (Release.tla, the instance Rel) grow in version, and records   *)
(* and changelogs stay apart.  A configuration that is reloaded            *)
(* (ConfigReload.tla, the instance Config) can be built, and has no        *)
(* reference to a secret left.  Upgrades to a release (CommandLine.tla,    *)
(* the instance Command) leave an executable that runs and is no older.    *)
(*                                                                         *)
(* They share no variable.  Each has an inductive invariant, IInv,         *)
(* BenchInv, HandoffInv, BusInv, PoolInv, FlowInv, TagInv, RecordInv,      *)
(* ReloadInv and UpgradeInv, that says at which step of its call what has  *)
(* been reached.                                                           *)
(***************************************************************************)
EXTENDS Saga, Workbench, Handoff, EventBus, SequenceTheorems,
        FiniteSetTheorems, WellFoundedInduction, TLAPS

CONSTANTS
    Nodes, Kind, In, Out, Items, Channels, Cap, Size,   \* of Streams
    Fn(_), Keep(_), Route(_)
VARIABLES buffer, closed, carried, window, stage, got, ended
Flow == INSTANCE Streams WITH held <- carried, pc <- stage, done <- ended

CONSTANTS
    Commits, Numbers, Intents, Writers, FirstLog,   \* of Release
    MaxCommits, MaxReleases, MaxRecords, Restarts
VARIABLES log, tags, changes, records, drafts, release, plan, releases, changelogs
Rel == INSTANCE Release WITH pc <- release

CONSTANTS
    Pipelines, Registry, Apps, Env, Secrets, Unset, Zero, Missing,   \* of ConfigReload
    Numeric, Numerals, Confidential, MaxWrites, MaxErrors
VARIABLES
    pipeFile, pipeWritten, inUse, lastHash, fileHash, hot, stopping, errors,
    appFile, stamp, cfg, told, modTime, since, watch, loading, missed
Config == INSTANCE ConfigReload WITH
    None <- Missing, Numbers <- Numerals, current <- inUse, hash <- fileHash, hPc <- hot, wPc <- watch

CONSTANTS
    Processes, MaxRelease, Interval, MaxClock, TaskIDs,   \* of CommandLine
    MaxUpdates, EventCap, NoDocument, EmptyFile, MixedFile
VARIABLES
    windows, latest, exe, backup, download, remaining, runs, wants, writes, accidents,
    stateFile, clock, memory, checking, caches, reply, shown, raced,
    project, unseen, markdown, phase, holds, update, commands, done, mishaps
Command == INSTANCE CommandLine WITH
    MaxVersion <- MaxRelease, None <- NoDocument, todo <- remaining, fd <- writes, answer <- reply

-----------------------------------------------------------------------------
(* A saga of any number of steps is all or nothing. *)
\* What the steps have become while Run is on its way: those before `at` are in
\* effect, and those after it are untouched on the way forward; on the way back
\* they are compensated up to the step k that failed or was not begun.
Forward == \A i \in Steps : effect[i] = IF i < at THEN "applied" ELSE "none"

Behind(k) ==
    \A i \in Steps :
        /\ i <= at => effect[i] = "applied"
        /\ at < i /\ i < k => Compensated(i)
        /\ i > k => effect[i] = "none"

Progress ==
    /\ pc = "check" => at >= 1 /\ Forward
    /\ pc = "execute" => at \in Steps /\ Forward
    /\ pc = "committed" => at = N + 1 /\ Forward
    /\ pc \in {"compensate", "failed"} =>
        \E k \in Steps : at < k /\ effect[k] = "failed" /\ Behind(k)
    /\ pc \in {"giveUp", "aborted"} =>
        /\ cancelled
        /\ \E k \in Steps : at < k /\ effect[k] = "none" /\ Behind(k)
    /\ pc \in {"failed", "aborted"} => at = 0

IInv == TypeOK /\ Progress

\* A saga that has not begun is on its way forward.
LEMMA InitProgress == Init => IInv
  <1> SUFFICES ASSUME Init PROVE IInv
    OBVIOUS
  <1>1. TypeOK
    <2>1. pc \in {"check", "execute", "compensate", "giveUp"} \cup Ended
      BY DEF Init
    <2>2. at \in 0 .. N + 1
      BY StepsAssumption DEF Init
    <2>3. effect \in [Steps -> Effects]
      BY DEF Init, Effects
    <2> QED
      BY <2>1, <2>2, <2>3 DEF Init, TypeOK
  <1>2. Forward
    BY DEF Init, Forward, Steps
  <1> QED
    BY <1>1, <1>2 DEF Init, IInv, Progress

\* The state of every variable stays in its type.
LEMMA StepTypes == IInv /\ [Next]_vars => TypeOK'
  <1> SUFFICES ASSUME IInv, [Next]_vars PROVE TypeOK'
    OBVIOUS
  <1> USE StepsAssumption DEF IInv, TypeOK, Steps, Effects, Ended
  <1>1. CASE Cancel BY <1>1 DEF Cancel
  <1>2. CASE ContextAlive BY <1>2 DEF ContextAlive
  <1>3. CASE ContextDone BY <1>3 DEF ContextDone
  <1>4. CASE Commit BY <1>4 DEF Commit
  <1>5. CASE StepSucceeds BY <1>5 DEF StepSucceeds, Progress
  <1>6. CASE StepFails BY <1>6 DEF StepFails, Progress
  <1>7. CASE Compensate
    <2>1. PICK result \in {"undone", "logged"} : effect' = [effect EXCEPT ![at] = result]
      BY <1>7 DEF Compensate
    <2>2. effect' \in [Steps -> Effects]
      BY <2>1
    <2>3. at' \in 0 .. N + 1
      BY <1>7 DEF Compensate
    <2> QED
      BY <1>7, <2>2, <2>3 DEF Compensate
  <1>8. CASE Return BY <1>8 DEF Return
  <1>9. CASE UNCHANGED vars BY <1>9 DEF vars
  <1> QED
    BY <1>1, <1>2, <1>3, <1>4, <1>5, <1>6, <1>7, <1>8, <1>9 DEF Next

\* Every step of Run and compensate of transaction.go keeps what has been
\* reached.
LEMMA StepProgress == IInv /\ [Next]_vars => Progress'
  <1> SUFFICES ASSUME IInv, [Next]_vars PROVE Progress'
    OBVIOUS
  <1> USE StepsAssumption DEF IInv, TypeOK, Steps
  <1>1. CASE Cancel
    BY <1>1 DEF Cancel, Progress, Forward, Behind, Compensated, Ended
  <1>2. CASE ContextAlive
    BY <1>2 DEF ContextAlive, Progress, Forward
  <1>3. CASE ContextDone
    <2>1. PICK k \in Steps : k = at /\ Forward /\ effect[k] = "none"
      BY <1>3 DEF ContextDone, Progress, Forward
    <2>2. at' < k /\ effect'[k] = "none" /\ Behind(k)'
      BY <1>3, <2>1 DEF ContextDone, Forward, Behind, Compensated
    <2> QED
      BY <1>3, <2>1, <2>2 DEF ContextDone, Progress
  <1>4. CASE Commit
    BY <1>4 DEF Commit, Progress, Forward
  <1>5. CASE StepSucceeds
    <2>1. at' >= 1 /\ Forward'
      BY <1>5 DEF StepSucceeds, Progress, Forward
    <2> QED
      BY <1>5, <2>1 DEF StepSucceeds, Progress
  <1>6. CASE StepFails
    <2>1. PICK k \in Steps : k = at /\ Forward
      BY <1>6 DEF StepFails, Progress
    <2>2. at' < k /\ effect'[k] = "failed" /\ Behind(k)'
      BY <1>6, <2>1 DEF StepFails, Forward, Behind, Compensated
    <2> QED
      BY <1>6, <2>1, <2>2 DEF StepFails, Progress
  <1>7. CASE Compensate
    <2>1. PICK k \in Steps :
            /\ at < k
            /\ effect[k] = IF pc = "compensate" THEN "failed" ELSE "none"
            /\ Behind(k)
      BY <1>7 DEF Compensate, Progress
    <2>2. /\ at' < k
          /\ effect'[k] = effect[k]
          /\ Behind(k)'
      BY <1>7, <2>1 DEF Compensate, Behind, Compensated
    <2> QED
      BY <1>7, <2>1, <2>2 DEF Compensate, Progress
  <1>8. CASE Return
    BY <1>8 DEF Return, Progress, Forward, Behind, Compensated
  <1>9. CASE UNCHANGED vars
    BY <1>9 DEF vars, Progress, Forward, Behind, Compensated
  <1> QED
    BY <1>1, <1>2, <1>3, <1>4, <1>5, <1>6, <1>7, <1>8, <1>9 DEF Next

\* On its way forward and back a saga is a first part in effect and a rest that
\* is not; at the end one of the two is empty.
LEMMA ProgressSettles == IInv => AllOrNothing
  <1> SUFFICES ASSUME IInv PROVE AllOrNothing
    OBVIOUS
  <1> USE StepsAssumption DEF IInv, TypeOK, Steps, Ended
  <1>1. InOrder
    BY DEF Progress, Forward, Behind, Compensated, InOrder
  <1>2. pc = "committed" => \A i \in Steps : effect[i] = "applied"
    BY DEF Progress, Forward
  <1>3. pc = "failed" =>
          \E k \in Steps :
            /\ effect[k] = "failed"
            /\ \A i \in Steps : /\ i < k => Compensated(i)
                                /\ i > k => effect[i] = "none"
    BY DEF Progress, Behind
  <1>4. pc = "aborted" =>
          /\ cancelled
          /\ \E k \in Steps : \A i \in Steps :
              IF i < k THEN Compensated(i) ELSE effect[i] = "none"
    <2> SUFFICES ASSUME pc = "aborted" PROVE <1>4!2
      OBVIOUS
    <2>1. cancelled /\ at = 0
      BY DEF Progress
    <2>2. PICK k \in Steps : effect[k] = "none" /\ Behind(k)
      BY DEF Progress
    <2>3. ASSUME NEW i \in Steps
          PROVE  IF i < k THEN Compensated(i) ELSE effect[i] = "none"
      <3>1. CASE i < k BY <2>1, <2>2, <3>1 DEF Behind
      <3>2. CASE i = k BY <2>2, <3>2
      <3>3. CASE i > k BY <2>2, <3>3 DEF Behind
      <3> QED
        BY <3>1, <3>2, <3>3
    <2> QED
      BY <2>1, <2>3
  <1> QED
    BY <1>1, <1>2, <1>3, <1>4 DEF AllOrNothing, Settled

\* SagaComposer.Run with any number of steps, any of which may fail, a context
\* that may be cancelled at any moment and compensations that may fail: a call
\* that ended committed every step or compensated every step that it had
\* completed, in the reverse order, and no other.
THEOREM SagaIsAllOrNothing == Spec => []AllOrNothing
  <1>1. IInv /\ [Next]_vars => IInv'
    BY StepTypes, StepProgress DEF IInv
  <1> QED
    BY InitProgress, <1>1, ProgressSettles, PTL DEF Spec

-----------------------------------------------------------------------------
(* For any number of submissions, with or without shared IDs, the workbench *)
(* runs what was reviewed.                                                  *)

\* The code of x was approved, and this is final.
Approved(x) == x # NoFile => verdict[x] = "Approved"

\* Nobody else has the ID of s.
Unique(s) == \A t \in Submissions \ {s} : SubmissionID[t] # SubmissionID[s]

Working == {"mkdir", "write", "build", "link", "run", "cleanError", "cleanOK"}

\* A verdict is given once, and who goes on after the record was approved.
Reviewed ==
    \A s \in Submissions :
        /\ wPc[s] = "submit" => verdict[s] = "none"
        /\ wPc[s] = "record" => verdict[s] \in Statuses
        /\ wPc[s] \in Working => verdict[s] = "Approved"

\* Every file holds approved code, as does what a compiler has read or a call executed.
FilesApproved ==
    /\ \A id \in IDs : Approved(mainFile[id]) /\ Approved(binary[id])
    /\ \A s \in Submissions : Approved(building[s]) /\ Approved(ran[s])

\* A directory that is not shared holds its owner's code only.
OwnFiles ==
    \A s \in Submissions : Unique(s) =>
        /\ {mainFile[SubmissionID[s]], binary[SubmissionID[s]], building[s], ran[s]}
                \subseteq {s, NoFile}
        /\ wPc[s] \in {"cleanOK", "completed"} => ran[s] = s
        /\ wPc[s] = "completed" => ~dir[SubmissionID[s]]

BenchInv == BenchTypeOK /\ Reviewed /\ FilesApproved /\ OwnFiles

\* Nothing has been submitted yet.
LEMMA InitReviewed == BenchInit => BenchInv
BY DEF BenchInit, BenchInv, BenchTypeOK, Reviewed, FilesApproved, OwnFiles, Approved, Working,
       File, IDs, Statuses, Outcomes

\* Reviewing: no file and no directory changes.
LEMMA ReviewKeeps ==
    ASSUME BenchInv, NEW s \in Submissions,
           \/ Refuse(s) \/ Record(s)
           \/ \E severity \in Severities : Review(s, severity)
    PROVE  BenchInv'
<1>1. UNCHANGED <<dir, mainFile, binary, building, ran>>
  BY DEF Refuse, Record, Review, dirVars
<1>2. /\ BenchTypeOK'
      /\ Reviewed'
      /\ \A x \in Submissions : verdict[x] = "Approved" => verdict'[x] = "Approved"
  <2> USE DEF BenchInv, BenchTypeOK, Reviewed, Working, Goto, Statuses, Outcomes
  <2>1. CASE Refuse(s)
    BY <1>1, <2>1 DEF Refuse
  <2>2. CASE Record(s)
    BY <1>1, <2>2 DEF Record, IDs
  <2>3. CASE \E severity \in Severities : Review(s, severity)
    BY <1>1, <2>3 DEF Review
  <2> QED BY <2>1, <2>2, <2>3
<1>3. FilesApproved'
  BY <1>1, <1>2 DEF BenchInv, BenchTypeOK, FilesApproved, Approved, File
<1>4. OwnFiles'
  <2>1. wPc'[s] \notin {"cleanOK", "completed"} /\ \A t \in Submissions \ {s} : wPc'[t] = wPc[t]
    BY DEF BenchInv, BenchTypeOK, Refuse, Record, Review, Goto
  <2> QED BY <1>1, <2>1 DEF BenchInv, OwnFiles, Unique
<1> QED BY <1>2, <1>3, <1>4 DEF BenchInv

\* Building and running: the verdicts stay.
LEMMA WorkKeeps ==
    ASSUME BenchInv, NEW s \in Submissions,
           \/ MakeDir(s) \/ WriteSource(s) \/ Build(s)
           \/ Link(s) \/ Run(s) \/ RemoveDir(s)
    PROVE  BenchInv'
<1>1. UNCHANGED <<verdict, submissions>>
  BY DEF MakeDir, WriteSource, Build, Link, Run, RemoveDir, dirVars
<1>2. SubmissionID[s] \in IDs
  BY DEF IDs
<1>3. BenchTypeOK'
  <2> USE <1>1, <1>2 DEF BenchInv, BenchTypeOK, Goto, File, Outcomes
  <2>1. CASE MakeDir(s)
    BY <2>1 DEF MakeDir
  <2>2. CASE WriteSource(s)
    BY <2>2 DEF WriteSource
  <2>3. CASE Build(s)
    BY <2>3 DEF Build
  <2>4. CASE Link(s)
    BY <2>4 DEF Link
  <2>5. CASE Run(s)
    BY <2>5 DEF Run, dirVars
  <2>6. CASE RemoveDir(s)
    BY <2>6 DEF RemoveDir
  <2> QED BY <2>1, <2>2, <2>3, <2>4, <2>5, <2>6
<1>4. Reviewed'
  BY <1>1 DEF BenchInv, BenchTypeOK, Reviewed, Working, Goto,
              MakeDir, WriteSource, Build, Link, Run, RemoveDir
<1>5. FilesApproved'
  <2> USE <1>1, <1>2 DEF BenchInv, BenchTypeOK, Reviewed, FilesApproved, Approved, Working
  <2>1. CASE MakeDir(s)
    BY <2>1 DEF MakeDir
  <2>2. CASE WriteSource(s)
    BY <2>2 DEF WriteSource
  <2>3. CASE Build(s)
    BY <2>3 DEF Build
  <2>4. CASE Link(s)
    BY <2>4 DEF Link
  <2>5. CASE Run(s)
    BY <2>5 DEF Run, dirVars
  <2>6. CASE RemoveDir(s)
    BY <2>6 DEF RemoveDir
  <2> QED BY <2>1, <2>2, <2>3, <2>4, <2>5, <2>6
<1>6. ASSUME NEW t \in Submissions, Unique(t) PROVE
        /\ {mainFile'[SubmissionID[t]], binary'[SubmissionID[t]], building'[t], ran'[t]}
                \subseteq {t, NoFile}
        /\ wPc'[t] \in {"cleanOK", "completed"} => ran'[t] = t
        /\ wPc'[t] = "completed" => ~dir'[SubmissionID[t]]
  <2>1. SubmissionID[t] \in IDs /\ (t # s => SubmissionID[t] # SubmissionID[s])
    BY <1>6 DEF IDs, Unique
  <2>2. /\ {mainFile[SubmissionID[t]], binary[SubmissionID[t]], building[t], ran[t]}
                \subseteq {t, NoFile}
        /\ wPc[t] \in {"cleanOK", "completed"} => ran[t] = t
        /\ wPc[t] = "completed" => ~dir[SubmissionID[t]]
    BY <1>6 DEF BenchInv, OwnFiles
  <2> USE <1>2, <2>1, <2>2 DEF BenchInv, BenchTypeOK, Goto
  <2>3. CASE MakeDir(s)
    BY <2>3 DEF MakeDir
  <2>4. CASE WriteSource(s)
    BY <2>4 DEF WriteSource
  <2>5. CASE Build(s)
    BY <2>5 DEF Build
  <2>6. CASE Link(s)
    BY <2>6 DEF Link
  <2>7. CASE Run(s)
    BY <2>7 DEF Run, dirVars
  <2>8. CASE RemoveDir(s)
    BY <2>8 DEF RemoveDir
  <2> QED BY <2>3, <2>4, <2>5, <2>6, <2>7, <2>8
<1>7. OwnFiles'
  BY <1>6 DEF OwnFiles, Unique
<1> QED BY <1>3, <1>4, <1>5, <1>7 DEF BenchInv

\* Whatever submissions share a directory, fail to compile or are removed under way,
\* only approved code is executed, and who has an ID alone executes its own
\* (agent_workbench.go, agent_runner.go).
THEOREM WorkbenchRunsReviewed == BenchSpec => []RunsReviewedCode
<1>1. BenchInv /\ [BenchNext]_benchVars => BenchInv'
  <2> SUFFICES ASSUME BenchInv, [BenchNext]_benchVars PROVE BenchInv'
    OBVIOUS
  <2>1. CASE UNCHANGED benchVars
    BY <2>1 DEF benchVars, BenchInv, BenchTypeOK, Reviewed, FilesApproved, OwnFiles, Approved, Unique
  <2>2. CASE BenchNext
    <3>1. PICK s \in Submissions :
            \/ Refuse(s) \/ Record(s)
            \/ \E severity \in Severities : Review(s, severity)
            \/ MakeDir(s) \/ WriteSource(s) \/ Build(s)
            \/ Link(s) \/ Run(s) \/ RemoveDir(s)
      BY <2>2 DEF BenchNext
    <3> QED BY <3>1, ReviewKeeps, WorkKeeps
  <2> QED BY <2>1, <2>2
<1>2. BenchInv => RunsReviewedCode
  BY DEF BenchInv, FilesApproved, OwnFiles, Approved, Unique, RunsReviewedCode,
         OnlyApprovedRuns, UniqueRunsOwn
<1> QED BY <1>1, <1>2, InitReviewed, PTL DEF BenchSpec
-----------------------------------------------------------------------------
(* The handoff of a snapshot that its agent leaves alone during an attempt.  *)

\* The document that a checksum is of.
Whole(c) == Document(c, c)

\* Where an attempt is: its checksum is that of the snapshot until it has ended, the
\* store has the document from the second step on, the transport from the third.
Reached ==
    /\ Sending => checksum = content /\ sum = content
    /\ hPc = "confirmed" => checksum \in Contents
    /\ hPc \in {"transfer", "confirm", "confirmed"} => store[checksum] = Whole(checksum)
    /\ hPc \in {"confirm", "confirmed"} => wire[checksum] = Whole(checksum)

\* What is under way, has arrived or was received is under its own checksum, so that
\* a request that is served late cannot replace one snapshot by another.
Named ==
    /\ \A r \in delayed : r[1] \in Contents /\ r[2] = Whole(r[1])
    /\ \A c \in Contents : wire[c] \in {Nothing, Whole(c)}
    /\ \A r \in received : r[1] \in Contents /\ r[2] = Whole(r[1])

HandoffInv == HandoffTypeOK /\ Reached /\ Named

\* Nothing has been handed off yet.
LEMMA InitHandoff == HandoffInit => HandoffInv
BY HandoffAssumption DEF HandoffInit, HandoffInv, HandoffTypeOK, Reached, Named, Sending,
   Contents, Documents, Document, Nothing, NoSum

\* An attempt goes on, fails or is confirmed.
LEMMA AttemptKeeps ==
    ASSUME HandoffInv,
           Request \/ Persist \/ PersistFails \/ Transfer \/ TransferFails \/ Confirm
    PROVE  HandoffInv'
<1> USE DEF HandoffInv, HandoffTypeOK, Reached, Named, Sending, Whole, Document, Documents, kinds
<1>1. CASE Request
  BY <1>1, HandoffAssumption DEF Request, ComputeChecksum
<1>2. CASE Persist
  BY <1>2 DEF Persist, ComputeChecksum, WriteFile, KeepCopy
<1>3. CASE PersistFails
  BY <1>3 DEF PersistFails, ComputeChecksum, RollBackFailed, Torn, NoSum
<1>4. CASE Transfer
  BY <1>4 DEF Transfer, Post, CopyInto, ToJSON
<1>5. CASE TransferFails
  BY <1>5 DEF TransferFails, RollBackFailed, ToJSON
<1>6. CASE Confirm
  BY <1>6 DEF Confirm, RollBackFailed
<1> QED BY <1>1, <1>2, <1>3, <1>4, <1>5, <1>6

\* The agent edits between attempts, a server serves late, the target receives and
\* the agent rolls back.
LEMMA OthersKeep ==
    ASSUME HandoffInv, ~ EditsWhileSending,
           Edit \/ ServeLate \/ RollBack \/ \E c \in Contents : Receive(c)
    PROVE  HandoffInv'
<1> USE DEF HandoffInv, HandoffTypeOK, Reached, Named, Sending, Whole, Document, Documents, kinds
<1>1. CASE Edit
  BY <1>1, HandoffAssumption DEF Edit, Contents
<1>2. CASE ServeLate
  <2>1. PICK r \in delayed : /\ wire' = [wire EXCEPT ![r[1]] = r[2]]
                             /\ delayed' = delayed \ {r}
                             /\ UNCHANGED <<kinds, content, sum, hPc, checksum, tries, store, received>>
    BY <1>2 DEF ServeLate
  <2> QED BY <2>1
<1>3. CASE RollBack
  BY <1>3 DEF RollBack, Delete, Nothing, NoSum
<1>4. ASSUME NEW c \in Contents, Receive(c) PROVE HandoffInv'
  <2>1. PICK doc \in {wire[c]} \ {Nothing} :
            /\ received' = received \cup {<<c, doc>>}
            /\ UNCHANGED <<kinds, content, sum, hPc, checksum, tries, store, wire, delayed>>
    BY <1>4 DEF Receive, Fetch, Lookup
  <2>2. doc = Whole(c)
    BY <2>1
  <2> QED BY <2>1, <2>2
<1> QED BY <1>1, <1>2, <1>3, <1>4

\* While the agent leaves the snapshot alone during an attempt, a confirmed handoff
\* can be received and rolled back after any number of failed attempts, of edits
\* between them and of transfers that are served late, and what is received is what
\* the contract names (handoff_composer.go, handoff_transport.go).
THEOREM ConfirmedHandoffDelivers ==
    ASSUME ~ EditsWhileSending
    PROVE  HandoffSpec => []HandoffDelivers
<1>1. HandoffInv /\ [HandoffNext]_handoffVars => HandoffInv'
  <2> SUFFICES ASSUME HandoffInv, [HandoffNext]_handoffVars PROVE HandoffInv'
    OBVIOUS
  <2>1. CASE UNCHANGED handoffVars
    BY <2>1 DEF handoffVars, kinds, HandoffInv, HandoffTypeOK, Reached, Named, Sending
  <2>2. CASE HandoffNext
    BY <2>2, AttemptKeeps, OthersKeep DEF HandoffNext
  <2> QED BY <2>1, <2>2
<1>2. HandoffInv => Delivered
  BY DEF HandoffInv, Reached, Delivered, Whole
<1>3. HandoffInv => ReceivedIsContracted
  <2> SUFFICES ASSUME HandoffInv, NEW r \in received PROVE r[2].content = r[1]
    BY DEF ReceivedIsContracted
  <2>1. r[2] = Whole(r[1])
    BY DEF HandoffInv, Named
  <2>2. Whole(r[1]).content = r[1]
    BY DEF Whole, Document
  <2> QED BY <2>1, <2>2
<1> QED BY <1>1, <1>2, <1>3, InitHandoff, PTL DEF HandoffSpec, HandoffDelivers

-----------------------------------------------------------------------------
(* The event bus. *)

BusSteps == {"start", "loop", "add", "returned"}

\* The state of a call of Execute, and no handler twice in any list.
BusTypes ==
    /\ subscriptions \in Seq(Subscribers)
    /\ \A i, j \in 1 .. Len(subscriptions) : subscriptions[i] = subscriptions[j] => i = j
    /\ subs \in [Publishers -> Seq(Subscribers)]
    /\ \A p \in Publishers : \A i, j \in 1 .. Len(subs[p]) : subs[p][i] = subs[p][j] => i = j
    /\ bPc \in [Publishers -> BusSteps]
    /\ next \in [Publishers -> Nat \ {0}]
    /\ errorCount \in [Publishers -> Nat]
    /\ loaded \in [Publishers -> Nat]
    /\ failures \in [Publishers -> Nat]
    /\ running \in [Publishers -> SUBSET Subscribers]
    /\ adding \in [Publishers -> SUBSET [by : Subscribers, count : Nat]]
    /\ called \in [Publishers -> [Subscribers -> Nat]]

\* s is before the place that the loop of p has come to, or at it and its error is
\* being counted.
Passed(p, s) ==
    \E i \in 1 .. Len(subs[p]) :
        /\ subs[p][i] = s
        /\ i < next[p] \/ (i = next[p] /\ bPc[p] = "add")

\* The handlers that were called are those that the loop has passed; goroutines run
\* handlers of the one sort, and the loop calls those of the other.
Dispatched(p) ==
    /\ bPc[p] = "start" => /\ subs[p] = <<>> /\ next[p] = 1
                           /\ running[p] = {} /\ adding[p] = {}
                           /\ errorCount[p] = 0 /\ failures[p] = 0
    /\ bPc[p] = "add" => next[p] <= Len(subs[p]) /\ At(p) \notin Async
    /\ bPc[p] = "returned" => next[p] > Len(subs[p]) /\ running[p] = {}
    /\ \A s \in Subscribers : called[p][s] = IF Passed(p, s) THEN 1 ELSE 0
    /\ \A s \in running[p] : s \in Async /\ \E i \in 1 .. Len(subs[p]) : subs[p][i] = s
    /\ \A a \in adding[p] : a.by \in running[p]
    /\ \A a, b \in adding[p] : a = b

\* The increment that the loop has begun.
Begun(p) == IF bPc[p] = "add" THEN 1 ELSE 0

\* Whoever is about to write a count writes one that its own failure has earned, and
\* when only one sort of handler can be at it the count is exact.
Counted(p) ==
    /\ errorCount[p] + Begun(p) <= failures[p]
    /\ bPc[p] = "add" => loaded[p] + 1 <= failures[p]
    /\ \A a \in adding[p] :
        /\ errorCount[p] + Begun(p) + 1 <= failures[p]
        /\ a.count + Begun(p) + 1 <= failures[p]
        /\ bPc[p] = "add" => loaded[p] + 2 <= failures[p]
    /\ errorCount[p] = 0 => failures[p] = 0 \/ bPc[p] = "add" \/ adding[p] # {}
    /\ Homogeneous(p) =>
        /\ bPc[p] = "add" => loaded[p] = errorCount[p] /\ failures[p] = errorCount[p] + 1
        /\ bPc[p] # "add" /\ adding[p] = {} => failures[p] = errorCount[p]
        /\ \A a \in adding[p] : a.count = errorCount[p] /\ failures[p] = errorCount[p] + 1

BusInv == BusTypes /\ \A p \in Publishers : Dispatched(p) /\ Counted(p)

\* No call has begun.
LEMMA InitBus == BusInit => BusInv
<1> SUFFICES ASSUME BusInit PROVE BusInv
  OBVIOUS
<1>1. BusTypes
  BY DEF BusInit, BusTypes, BusSteps
<1>2. ASSUME NEW p \in Publishers PROVE Dispatched(p) /\ Counted(p)
  <2>1. Len(subs[p]) = 0
    BY DEF BusInit
  <2> QED BY <2>1 DEF BusInit, Dispatched, Counted, Passed, Begun, Homogeneous
<1> QED BY <1>1, <1>2 DEF BusInv

\* A call does not change another one.
LEMMA CallsApart ==
    ASSUME BusInv, NEW q \in Publishers,
           subs'[q] = subs[q], bPc'[q] = bPc[q], next'[q] = next[q],
           errorCount'[q] = errorCount[q], loaded'[q] = loaded[q], failures'[q] = failures[q],
           running'[q] = running[q], adding'[q] = adding[q], called'[q] = called[q]
    PROVE  Dispatched(q)' /\ Counted(q)'
BY DEF BusInv, Dispatched, Counted, Passed, Begun, Homogeneous, At

\* An append or a removal leaves no handler twice in the list.
LEMMA SubscribingKeeps ==
    ASSUME BusInv, NEW s \in Subscribers, Subscribe(s) \/ Unsubscribe(s)
    PROVE  BusInv'
<1> DEFINE old == subscriptions
<1>1. UNCHANGED callVars
  BY DEF Subscribe, Unsubscribe
<1>2. /\ old \in Seq(Subscribers)
      /\ \A i, j \in 1 .. Len(old) : old[i] = old[j] => i = j
  BY DEF BusInv, BusTypes
<1>3. /\ subscriptions' \in Seq(Subscribers)
      /\ \A i, j \in 1 .. Len(subscriptions') : subscriptions'[i] = subscriptions'[j] => i = j
  <2>1. CASE Subscribe(s)
    <3>1. subscriptions' = Append(old, s) /\ \A i \in 1 .. Len(old) : old[i] # s
      BY <1>2, <2>1 DEF Subscribe, Range
    <3> QED BY <1>2, <3>1
  <2>2. CASE Unsubscribe(s)
    <3>1. PICK i \in 1 .. Len(old) : subscriptions' = SubSeq(old, 1, i - 1) \o SubSeq(old, i + 1, Len(old))
      <4>1. DOMAIN old = 1 .. Len(old)
        BY <1>2
      <4>2. PICK i \in DOMAIN old : subscriptions' = RemoveAt(old, i)
        BY <2>2 DEF Unsubscribe
      <4> QED BY <4>1, <4>2 DEF RemoveAt
    <3>2. /\ SubSeq(old, 1, i - 1) \in Seq(Subscribers)
          /\ Len(SubSeq(old, 1, i - 1)) = i - 1
          /\ \A k \in 1 .. i - 1 : SubSeq(old, 1, i - 1)[k] = old[k]
      BY <1>2, SubSeqProperties
    <3>3. /\ SubSeq(old, i + 1, Len(old)) \in Seq(Subscribers)
          /\ Len(SubSeq(old, i + 1, Len(old))) = Len(old) - i
          /\ \A k \in 1 .. Len(old) - i : SubSeq(old, i + 1, Len(old))[k] = old[i + k]
      BY <1>2, SubSeqProperties
    <3>4. /\ subscriptions' \in Seq(Subscribers)
          /\ Len(subscriptions') = Len(old) - 1
          /\ \A k \in 1 .. Len(old) - 1 :
                subscriptions'[k] = IF k < i THEN old[k] ELSE old[k + 1]
      <4> DEFINE front == SubSeq(old, 1, i - 1)
                 back == SubSeq(old, i + 1, Len(old))
      <4>1. /\ front \o back \in Seq(Subscribers)
            /\ Len(front \o back) = Len(front) + Len(back)
            /\ \A k \in 1 .. Len(front) + Len(back) :
                  (front \o back)[k] = IF k <= Len(front) THEN front[k] ELSE back[k - Len(front)]
        BY <3>2, <3>3, ConcatProperties
      <4>2. subscriptions' = front \o back /\ Len(front) = i - 1 /\ Len(back) = Len(old) - i
        BY <3>1, <3>2, <3>3
      <4>3. \A k \in 1 .. i - 1 : front[k] = old[k]
        BY <3>2
      <4>4. \A k \in 1 .. Len(old) - i : back[k] = old[i + k]
        BY <3>3
      <4> HIDE DEF front, back
      <4>5. Len(old) \in Nat
        BY <1>2
      <4>6. ASSUME NEW k \in 1 .. Len(old) - 1
            PROVE  subscriptions'[k] = IF k < i THEN old[k] ELSE old[k + 1]
        <5>1. subscriptions'[k] = IF k <= i - 1 THEN front[k] ELSE back[k - (i - 1)]
          BY <4>1, <4>2, <4>5
        <5>2. CASE k < i
          BY <4>3, <5>1, <5>2
        <5>3. CASE k >= i
          <6>1. k - (i - 1) \in 1 .. Len(old) - i /\ i + (k - (i - 1)) = k + 1
            BY <4>5, <5>3
          <6>2. back[k - (i - 1)] = old[i + (k - (i - 1))]
            BY <4>4, <6>1
          <6> QED BY <5>1, <5>3, <6>1, <6>2
        <5> QED BY <5>2, <5>3
      <4>7. subscriptions' \in Seq(Subscribers)
        BY <4>1, <4>2
      <4>8. Len(subscriptions') = Len(old) - 1
        <5>1. Len(subscriptions') = Len(front) + Len(back)
          BY <4>1, <4>2, Zenon
        <5>2. Len(front) = i - 1 /\ Len(back) = Len(old) - i
          BY <4>2
        <5> HIDE DEF old
        <5> QED BY <4>5, <5>1, <5>2
      <4> QED BY <4>6, <4>7, <4>8
    <3> QED BY <1>2, <3>4
  <2> QED BY <2>1, <2>2
<1>4. BusTypes'
  BY <1>1, <1>3 DEF BusInv, BusTypes, callVars
<1>5. \A p \in Publishers : Dispatched(p)' /\ Counted(p)'
  BY <1>1, CallsApart DEF callVars
<1> QED BY <1>4, <1>5 DEF BusInv

\* A call that keeps its own part keeps the whole.
LEMMA OneCall ==
    ASSUME BusInv, BusTypes', NEW p \in Publishers, Dispatched(p)', Counted(p)',
           \A q \in Publishers : q # p =>
              /\ subs'[q] = subs[q] /\ bPc'[q] = bPc[q] /\ next'[q] = next[q]
              /\ errorCount'[q] = errorCount[q] /\ loaded'[q] = loaded[q]
              /\ failures'[q] = failures[q] /\ running'[q] = running[q]
              /\ adding'[q] = adding[q] /\ called'[q] = called[q]
    PROVE  BusInv'
<1>1. \A q \in Publishers : q # p => Dispatched(q)' /\ Counted(q)'
  BY CallsApart
<1> QED BY <1>1 DEF BusInv

\* Execute copies the list, or returns when its goroutines have.
LEMMA CopyKeeps == ASSUME BusInv, NEW p \in Publishers, Copy(p) \/ Finish(p) PROVE BusInv'
<1> USE DEF BusSteps, Moves
<1>1. CASE Copy(p)
  <2>1. BusTypes'
    BY <1>1 DEF BusInv, BusTypes, Copy, subscriptionVars
  <2>2. Dispatched(p)'
    BY <1>1 DEF BusInv, BusTypes, Copy, Dispatched, Passed
  <2>3. Counted(p)'
    BY <1>1 DEF BusInv, BusTypes, Copy, Dispatched, Counted, Begun
  <2> QED BY <1>1, <2>1, <2>2, <2>3, OneCall DEF Copy, BusInv, BusTypes
<1>2. CASE Finish(p)
  <2>1. BusTypes'
    BY <1>2 DEF BusInv, BusTypes, Finish, subscriptionVars
  <2>2. Dispatched(p)'
    BY <1>2 DEF BusInv, BusTypes, Finish, Dispatched, Passed
  <2>3. Counted(p)'
    BY <1>2 DEF BusInv, BusTypes, Finish, Counted, Begun, Homogeneous
  <2> QED BY <1>2, <2>1, <2>2, <2>3, OneCall DEF Finish, BusInv, BusTypes
<1> QED BY <1>1, <1>2

\* What the numbers and lists of a call are.
LEMMA CallFacts ==
    ASSUME BusInv, NEW p \in Publishers
    PROVE  /\ subs[p] \in Seq(Subscribers) /\ Len(subs[p]) \in Nat
           /\ Range(subs[p]) = {subs[p][i] : i \in 1 .. Len(subs[p])}
           /\ \A i, j \in 1 .. Len(subs[p]) : subs[p][i] = subs[p][j] => i = j
           /\ next[p] \in Nat \ {0}
           /\ errorCount[p] \in Nat /\ loaded[p] \in Nat /\ failures[p] \in Nat
           /\ \A a \in adding[p] : a.count \in Nat /\ a.by \in Subscribers
<1>1. subs[p] \in Seq(Subscribers)
  BY DEF BusInv, BusTypes
<1>2. Len(subs[p]) \in Nat /\ DOMAIN subs[p] = 1 .. Len(subs[p])
  BY <1>1
<1>3. Range(subs[p]) = {subs[p][i] : i \in 1 .. Len(subs[p])}
  BY <1>2 DEF Range
<1>4. adding[p] \in SUBSET [by : Subscribers, count : Nat]
  BY DEF BusInv, BusTypes
<1> QED BY <1>1, <1>2, <1>3, <1>4 DEF BusInv, BusTypes

\* When the loop calls a handler itself no goroutine counts, if all are of one sort.
LEMMA OneSort ==
    ASSUME BusInv, NEW p \in Publishers, next[p] <= Len(subs[p]), At(p) \notin Async,
           Homogeneous(p)
    PROVE  running[p] = {} /\ adding[p] = {}
<1>1. At(p) \in Range(subs[p])
  <2>1. next[p] \in 1 .. Len(subs[p])
    BY CallFacts
  <2> QED BY <2>1, CallFacts DEF At
<1>2. Range(subs[p]) \cap Async = {}
  BY <1>1 DEF Homogeneous
<1>3. \A s \in running[p] : s \in Async /\ s \in Range(subs[p])
  <2>1. \A s \in running[p] : s \in Async /\ \E i \in 1 .. Len(subs[p]) : subs[p][i] = s
    BY DEF BusInv, Dispatched
  <2>2. Range(subs[p]) = {subs[p][i] : i \in 1 .. Len(subs[p])}
    BY CallFacts
  <2> QED BY <2>1, <2>2
<1>4. running[p] = {}
  BY <1>2, <1>3
<1> QED BY <1>4 DEF BusInv, Dispatched

\* The loop goes on by one handler: who has been passed before, and who is passed now.
LEMMA LoopGoesOn ==
    ASSUME BusInv, NEW p \in Publishers, bPc[p] \in {"loop", "add"}, next[p] <= Len(subs[p]),
           subs' = subs,
           \/ next'[p] = next[p] + 1 /\ bPc'[p] = "loop"
           \/ next'[p] = next[p] /\ bPc'[p] = "add"
    PROVE  \A s \in Subscribers :
              Passed(p, s)' <=> Passed(p, s) \/ s = At(p)
<1>1. /\ Len(subs[p]) \in Nat /\ next[p] \in 1 .. Len(subs[p])
      /\ \A i, j \in 1 .. Len(subs[p]) : subs[p][i] = subs[p][j] => i = j
  BY CallFacts
<1>2. CASE next'[p] = next[p] + 1 /\ bPc'[p] = "loop"
  <2>1. \A s : Passed(p, s)' <=> \E i \in 1 .. Len(subs[p]) : subs[p][i] = s /\ i < next[p] + 1
    BY <1>2 DEF Passed
  <2>2. \A i \in 1 .. Len(subs[p]) : i < next[p] + 1 <=> i < next[p] \/ i = next[p]
    BY <1>1
  <2> QED BY <1>1, <2>1, <2>2 DEF Passed, At
<1>3. CASE next'[p] = next[p] /\ bPc'[p] = "add"
  BY <1>1, <1>3 DEF Passed, At
<1> QED BY <1>2, <1>3

\* It calls a handler itself.
LEMMA CallHandlerKeeps == ASSUME BusInv, NEW p \in Publishers, CallHandler(p) PROVE BusInv'
<1> USE DEF BusSteps, Moves, Call, InLoop
<1>1. At(p) \in Subscribers /\ ~ Passed(p, At(p))
  BY DEF BusInv, BusTypes, CallHandler, At, Passed
<1>2. \A s \in Subscribers : Passed(p, s)' <=> Passed(p, s) \/ s = At(p)
  BY LoopGoesOn DEF CallHandler, BusInv, BusTypes
<1>3. BusTypes'
  <2>1. called' \in [Publishers -> [Subscribers -> Nat]]
    BY <1>1 DEF BusInv, BusTypes, CallHandler
  <2>2. bPc' \in [Publishers -> BusSteps]
    BY DEF BusInv, BusTypes, CallHandler
  <2>3. next' \in [Publishers -> Nat \ {0}]
    <3>1. next' = next \/ next' = [next EXCEPT ![p] = next[p] + 1]
      BY DEF CallHandler
    <3>2. next \in [Publishers -> Nat \ {0}] /\ next[p] + 1 \in Nat \ {0}
      BY CallFacts DEF BusInv, BusTypes
    <3> QED BY <3>1, <3>2
  <2>4. loaded' \in [Publishers -> Nat] /\ failures' \in [Publishers -> Nat]
    <3>1. /\ loaded' = loaded \/ loaded' = [loaded EXCEPT ![p] = errorCount[p]]
          /\ failures' = failures \/ failures' = [failures EXCEPT ![p] = failures[p] + 1]
      BY DEF CallHandler
    <3>2. /\ loaded \in [Publishers -> Nat] /\ errorCount[p] \in Nat
          /\ failures \in [Publishers -> Nat] /\ failures[p] + 1 \in Nat
      BY CallFacts, SMTT(30) DEF BusInv, BusTypes
    <3> QED BY <3>1, <3>2
  <2> QED BY <2>1, <2>2, <2>3, <2>4 DEF BusInv, BusTypes, CallHandler, subscriptionVars
<1>4. \A s \in Subscribers : called'[p][s] = IF Passed(p, s)' THEN 1 ELSE 0
  BY <1>1, <1>2 DEF BusInv, BusTypes, CallHandler, Dispatched
<1>5. Dispatched(p)'
  BY <1>4 DEF BusInv, BusTypes, CallHandler, Dispatched, At
<1>6. Homogeneous(p) => adding[p] = {}
  BY OneSort DEF CallHandler
<1>7. Counted(p)'
  <2>1. /\ bPc[p] = "loop" /\ subs'[p] = subs[p]
        /\ errorCount'[p] = errorCount[p] /\ adding'[p] = adding[p]
        /\ \/ /\ bPc'[p] = "loop"
              /\ loaded'[p] = loaded[p] /\ failures'[p] = failures[p]
           \/ /\ bPc'[p] = "add"
              /\ loaded'[p] = errorCount[p] /\ failures'[p] = failures[p] + 1
    BY DEF BusInv, BusTypes, CallHandler
  <2>2. Homogeneous(p)' <=> Homogeneous(p)
    BY <2>1 DEF Homogeneous
  <2>3. Counted(p)
    BY DEF BusInv
  <2> QED BY <1>6, <2>1, <2>2, <2>3, CallFacts DEF Counted, Begun
<1> QED BY <1>3, <1>5, <1>7, OneCall DEF CallHandler, BusInv, BusTypes

\* It counts the error of the handler it has called.
LEMMA AddErrorKeeps == ASSUME BusInv, NEW p \in Publishers, AddError(p) PROVE BusInv'
<1> USE DEF BusSteps, Moves
<1>1. BusTypes'
  BY DEF BusInv, BusTypes, AddError, subscriptionVars
<1>2. \A s \in Subscribers : Passed(p, s)' <=> Passed(p, s)
  BY DEF BusInv, BusTypes, AddError, Dispatched, Passed
<1>3. Dispatched(p)'
  BY <1>2 DEF BusInv, BusTypes, AddError, Dispatched
<1>4. Counted(p)'
  <2>1. /\ bPc[p] = "add" /\ bPc'[p] = "loop" /\ subs'[p] = subs[p]
        /\ errorCount'[p] = loaded[p] + 1 /\ adding'[p] = adding[p]
        /\ failures'[p] = failures[p]
    BY DEF BusInv, BusTypes, AddError
  <2>2. Homogeneous(p)' <=> Homogeneous(p)
    BY <2>1 DEF Homogeneous
  <2>3. Counted(p) /\ (Homogeneous(p) => adding[p] = {})
    BY <2>1, OneSort DEF BusInv, Dispatched
  <2> QED BY <2>1, <2>2, <2>3, CallFacts DEF Counted, Begun
<1> QED BY <1>1, <1>3, <1>4, OneCall DEF AddError, BusInv, BusTypes

\* It starts a goroutine for a handler.
LEMMA StartHandlerKeeps == ASSUME BusInv, NEW p \in Publishers, StartHandler(p) PROVE BusInv'
<1> USE DEF BusSteps, Call, InLoop
<1>1. At(p) \in Subscribers /\ ~ Passed(p, At(p))
  BY DEF BusInv, BusTypes, StartHandler, At, Passed
<1>2. \A s \in Subscribers : Passed(p, s)' <=> Passed(p, s) \/ s = At(p)
  BY LoopGoesOn DEF StartHandler, BusInv, BusTypes
<1>3. BusTypes'
  <2>1. called' \in [Publishers -> [Subscribers -> Nat]]
    BY <1>1 DEF BusInv, BusTypes, StartHandler
  <2>2. running' \in [Publishers -> SUBSET Subscribers] /\ next' \in [Publishers -> Nat \ {0}]
    <3>1. next[p] + 1 \in Nat \ {0}
      BY CallFacts
    <3> QED BY <1>1, <3>1 DEF BusInv, BusTypes, StartHandler
  <2> QED BY <2>1, <2>2 DEF BusInv, BusTypes, StartHandler, subscriptionVars
<1>4. \A s \in Subscribers : called'[p][s] = IF Passed(p, s)' THEN 1 ELSE 0
  BY <1>1, <1>2 DEF BusInv, BusTypes, StartHandler, Dispatched
<1>5. Dispatched(p)'
  BY <1>1, <1>4 DEF BusInv, BusTypes, StartHandler, Dispatched, At
<1>6. Counted(p)'
  BY DEF BusInv, BusTypes, StartHandler, Counted, Begun, Homogeneous
<1> QED BY <1>3, <1>5, <1>6, OneCall DEF StartHandler, BusInv, BusTypes

\* A goroutine's handler returns, and its error is counted under the mutex.
LEMMA HandlerKeeps ==
    ASSUME BusInv, NEW p \in Publishers, NEW s \in Subscribers,
           HandlerSucceeds(p, s) \/ HandlerFails(p, s) \/ HandlerAdds(p)
    PROVE  BusInv'
<1> USE DEF BusSteps
<1>1. CASE HandlerSucceeds(p, s)
  <2>1. BusTypes'
    BY <1>1 DEF BusInv, BusTypes, HandlerSucceeds, subscriptionVars
  <2>2. Dispatched(p)'
    BY <1>1 DEF BusInv, BusTypes, HandlerSucceeds, Dispatched, Passed, At
  <2>3. Counted(p)'
    BY <1>1 DEF BusInv, BusTypes, HandlerSucceeds, Counted, Begun, Homogeneous
  <2> QED BY <1>1, <2>1, <2>2, <2>3, OneCall DEF HandlerSucceeds, BusInv, BusTypes
<1>2. CASE HandlerFails(p, s)
  <2>1. BusTypes'
    BY <1>2 DEF BusInv, BusTypes, HandlerFails, subscriptionVars
  <2>2. Dispatched(p)'
    BY <1>2 DEF BusInv, BusTypes, HandlerFails, Dispatched, Passed, At
  <2>3. Homogeneous(p) => bPc[p] # "add"
    BY <1>2, OneSort DEF BusInv, HandlerFails, Dispatched
  <2>4. Counted(p)'
    <3>1. /\ bPc'[p] = bPc[p] /\ subs'[p] = subs[p] /\ loaded'[p] = loaded[p]
          /\ errorCount'[p] = errorCount[p] /\ failures'[p] = failures[p] + 1
          /\ adding[p] = {}
      BY <1>2 DEF BusInv, BusTypes, HandlerFails
    <3>2. adding'[p] # {} /\ \A a \in adding'[p] : a.count = errorCount[p]
      <4>1. adding' = [adding EXCEPT ![p] = {[by |-> s, count |-> errorCount[p]]}]
        BY <1>2 DEF HandlerFails
      <4>2. adding'[p] = {[by |-> s, count |-> errorCount[p]]}
        BY <4>1 DEF BusInv, BusTypes
      <4> QED BY <4>2
    <3>3. Homogeneous(p)' <=> Homogeneous(p)
      BY <3>1 DEF Homogeneous
    <3>4. Counted(p)
      BY DEF BusInv
    <3>5. errorCount[p] \in Nat /\ loaded[p] \in Nat /\ failures[p] \in Nat
      BY CallFacts
    <3> QED BY <2>3, <3>1, <3>2, <3>3, <3>4, <3>5 DEF Counted, Begun
  <2> QED BY <1>2, <2>1, <2>2, <2>4, OneCall DEF HandlerFails, BusInv, BusTypes
<1>3. CASE HandlerAdds(p)
  <2>1. PICK a \in adding[p] :
            /\ errorCount' = [errorCount EXCEPT ![p] = a.count + 1]
            /\ running' = [running EXCEPT ![p] = @ \ {a.by}]
            /\ adding' = [adding EXCEPT ![p] = {}]
            /\ UNCHANGED <<subscriptionVars, bPc, subs, next, loaded, called, failures>>
    BY <1>3 DEF HandlerAdds
  <2>2. a.count \in Nat
    BY DEF BusInv, BusTypes
  <2>3. BusTypes'
    <3>1. /\ errorCount' \in [Publishers -> Nat]
          /\ running' \in [Publishers -> SUBSET Subscribers]
      BY <2>1, <2>2 DEF BusInv, BusTypes
    <3>2. adding' \in [Publishers -> SUBSET [by : Subscribers, count : Nat]]
      BY <2>1 DEF BusInv, BusTypes
    <3> QED BY <2>1, <3>1, <3>2 DEF BusInv, BusTypes, subscriptionVars
  <2>4. Dispatched(p)'
    BY <2>1 DEF BusInv, BusTypes, Dispatched, Passed, At
  <2>5. Homogeneous(p) => bPc[p] # "add"
    BY OneSort DEF BusInv, Dispatched
  <2>6. Counted(p)'
    <3>1. /\ bPc'[p] = bPc[p] /\ subs'[p] = subs[p] /\ loaded'[p] = loaded[p]
          /\ errorCount'[p] = a.count + 1 /\ failures'[p] = failures[p]
          /\ a \in adding[p] /\ adding'[p] = {}
      BY <2>1 DEF BusInv, BusTypes
    <3>2. Homogeneous(p)' <=> Homogeneous(p)
      BY <3>1 DEF Homogeneous
    <3>3. Counted(p)
      BY DEF BusInv
    <3> QED BY <2>2, <2>5, <3>1, <3>2, <3>3, CallFacts DEF Counted, Begun
  <2> QED BY <2>1, <2>3, <2>4, <2>6, OneCall DEF BusInv, BusTypes
<1> QED BY <1>1, <1>2, <1>3

LEMMA BusKeeps == BusInv /\ [BusNext]_busVars => BusInv'
<1> SUFFICES ASSUME BusInv, [BusNext]_busVars PROVE BusInv'
  OBVIOUS
<1>1. CASE UNCHANGED busVars
  <2>1. BusTypes'
    BY <1>1 DEF BusInv, BusTypes, busVars
  <2>2. \A p \in Publishers : Dispatched(p)' /\ Counted(p)'
    BY <1>1, CallsApart DEF busVars
  <2> QED BY <2>1, <2>2 DEF BusInv
<1>2. CASE BusNext
  <2>1. CASE \E s \in Subscribers : Subscribe(s) \/ Unsubscribe(s)
    BY <2>1, SubscribingKeeps
  <2>2. ASSUME NEW p \in Publishers,
               Copy(p) \/ CallHandler(p) \/ AddError(p) \/ StartHandler(p) \/ Finish(p)
        PROVE  BusInv'
    BY <2>2, CopyKeeps, CallHandlerKeeps, AddErrorKeeps, StartHandlerKeeps
  <2>3. ASSUME NEW p \in Publishers, NEW s \in Subscribers,
               HandlerSucceeds(p, s) \/ HandlerFails(p, s)
        PROVE  BusInv'
    BY <2>3, HandlerKeeps
  <2>4. ASSUME NEW p \in Publishers, HandlerAdds(p) PROVE BusInv'
    <3>1. PICK a \in adding[p] : a.by \in Subscribers
      BY <2>4, CallFacts DEF HandlerAdds
    <3> QED BY <2>4, <3>1, HandlerKeeps
  <2> QED BY <1>2, <2>1, <2>2, <2>3, <2>4 DEF BusNext
<1> QED BY <1>1, <1>2

\* A call that has returned has passed all of its handlers.
LEMMA BusReports == BusInv => Reported
<1> SUFFICES ASSUME BusInv, NEW p \in Publishers, bPc[p] = "returned"
             PROVE  /\ running[p] = {}
                    /\ \A s \in Subscribers : called[p][s] = IF s \in Range(subs[p]) THEN 1 ELSE 0
                    /\ errorCount[p] <= failures[p]
                    /\ Homogeneous(p) => errorCount[p] = failures[p]
                    /\ errorCount[p] = 0 => failures[p] = 0
  BY DEF Reported
<1>1. running[p] = {} /\ adding[p] = {}
  BY DEF BusInv, Dispatched
<1>2. \A s \in Subscribers : Passed(p, s) <=> s \in Range(subs[p])
  <2>1. next[p] > Len(subs[p])
    BY DEF BusInv, Dispatched
  <2>2. \A i \in 1 .. Len(subs[p]) : i < next[p]
    BY <2>1, CallFacts
  <2>3. Range(subs[p]) = {subs[p][i] : i \in 1 .. Len(subs[p])}
    BY CallFacts
  <2> QED BY <2>2, <2>3 DEF Passed
<1>3. \A s \in Subscribers : called[p][s] = IF s \in Range(subs[p]) THEN 1 ELSE 0
  BY <1>2 DEF BusInv, Dispatched
<1>4. Counted(p)
  BY DEF BusInv
<1> QED BY <1>1, <1>3, <1>4, CallFacts DEF Counted, Begun

-----------------------------------------------------------------------------
(* The pool of workers that runs what is published. *)

Gone == {w \in Workers : worker[w] = "returned"}

\* A task is queued or begun, and begun once; a worker runs its own; and until the
\* pool is ended each worker that is gone met a panic of its own.
PoolInv ==
    /\ taskCh \in Seq(Tasks)
    /\ \A i, j \in 1 .. Len(taskCh) : taskCh[i] = taskCh[j] => i = j
    /\ worker \in [Workers -> Tasks \cup {"idle", "returned"}]
    /\ begun \in [Tasks -> {0, 1}]
    /\ panicked \in SUBSET Tasks /\ IsFiniteSet(panicked)
    /\ \A i \in 1 .. Len(taskCh) : begun[taskCh[i]] = 0
    /\ \A t \in panicked : begun[t] = 1
    /\ \A w \in Workers : worker[w] \in Tasks => begun[worker[w]] = 1 /\ worker[w] \notin panicked
    /\ \A v, w \in Workers : worker[v] \in Tasks /\ worker[v] = worker[w] => v = w
    /\ stop = "returned" => Gone = Workers
    /\ ~ poolDone => Cardinality(Gone) <= Cardinality(panicked)

\* Nothing has been submitted.
LEMMA InitPool == PoolInit => PoolInv
<1> SUFFICES ASSUME PoolInit PROVE PoolInv
  OBVIOUS
<1>1. Gone = {}
  BY DEF PoolInit, Gone
<1>2. Len(taskCh) = 0 /\ \A w \in Workers : worker[w] \notin Tasks
  BY BusAssumption DEF PoolInit
<1> QED BY <1>1, <1>2, FS_EmptySet DEF PoolInit, PoolInv

\* Submit queues a task or runs it itself.
LEMMA SubmitKeeps == ASSUME PoolInv, NEW t \in Tasks, Submit(t) PROVE PoolInv'
<1>1. begun[t] = 0 /\ \A i \in 1 .. Len(taskCh) : taskCh[i] # t
  <2>1. taskCh \in Seq(Tasks)
    BY DEF PoolInv
  <2>2. DOMAIN taskCh = 1 .. Len(taskCh)
    BY <2>1
  <2> QED BY <2>2 DEF Submit, Range
<1>2. UNCHANGED <<worker, panicked, poolDone, stop>> /\ Gone' = Gone
  BY DEF Submit, Gone
<1>3. CASE taskCh' = Append(taskCh, t) /\ begun' = begun
  <2>1. /\ taskCh' \in Seq(Tasks) /\ Len(taskCh') = Len(taskCh) + 1 /\ Len(taskCh) \in Nat
        /\ \A i \in 1 .. Len(taskCh) : taskCh'[i] = taskCh[i]
        /\ taskCh'[Len(taskCh) + 1] = t
    BY <1>3 DEF PoolInv
  <2> QED BY <1>1, <1>2, <1>3, <2>1 DEF PoolInv
<1>4. CASE taskCh' = taskCh /\ begun' = [begun EXCEPT ![t] = begun[t] + 1]
  BY <1>1, <1>2, <1>4 DEF PoolInv
<1> QED BY <1>3, <1>4 DEF Submit, Begin

\* A worker takes the task that has waited longest.
LEMMA TakeKeeps == ASSUME PoolInv, NEW w \in Workers, TakeTask(w) PROVE PoolInv'
<1> DEFINE t == Head(taskCh)
<1>1. /\ taskCh \in Seq(Tasks) /\ taskCh # <<>> /\ worker[w] = "idle"
      /\ worker' = [worker EXCEPT ![w] = t] /\ taskCh' = Tail(taskCh)
      /\ begun' = [begun EXCEPT ![t] = begun[t] + 1]
      /\ UNCHANGED <<panicked, poolDone, stop>>
  BY DEF PoolInv, TakeTask, Begin
<1>2. /\ t \in Tasks /\ t = taskCh[1] /\ Len(taskCh) \in Nat /\ 1 \in 1 .. Len(taskCh)
      /\ taskCh' \in Seq(Tasks) /\ Len(taskCh') = Len(taskCh) - 1
      /\ \A i \in 1 .. Len(taskCh') : taskCh'[i] = taskCh[i + 1]
  BY <1>1
<1> HIDE DEF t
<1>3. begun[t] = 0 /\ t \notin panicked /\ \A v \in Workers : worker[v] # t
  BY <1>2 DEF PoolInv
<1>4. \A i \in 1 .. Len(taskCh') : i + 1 \in 1 .. Len(taskCh) /\ taskCh'[i] # t
  BY <1>2 DEF PoolInv
<1>5. \A i, j \in 1 .. Len(taskCh') : taskCh'[i] = taskCh'[j] => i = j
  BY <1>2, <1>4 DEF PoolInv
<1>6. Gone' = Gone
  BY <1>1, <1>2, BusAssumption DEF Gone, PoolInv
<1>7. Gone # Workers
  BY <1>1 DEF Gone
<1>8. begun' \in [Tasks -> {0, 1}] /\ begun'[t] = 1 /\ \A u \in Tasks : u # t => begun'[u] = begun[u]
  BY <1>1, <1>2, <1>3 DEF PoolInv
<1>9. /\ \A i \in 1 .. Len(taskCh') : begun'[taskCh'[i]] = 0
      /\ \A u \in panicked' : begun'[u] = 1
  BY <1>1, <1>2, <1>3, <1>4, <1>8 DEF PoolInv
<1>10. /\ worker' \in [Workers -> Tasks \cup {"idle", "returned"}]
       /\ worker'[w] = t /\ \A v \in Workers : v # w => worker'[v] = worker[v]
  BY <1>1, <1>2 DEF PoolInv
<1>11. /\ \A v \in Workers : worker'[v] \in Tasks => begun'[worker'[v]] = 1 /\ worker'[v] \notin panicked'
       /\ \A v, u \in Workers : worker'[v] \in Tasks /\ worker'[v] = worker'[u] => v = u
  BY <1>1, <1>3, <1>8, <1>10 DEF PoolInv
<1> QED BY <1>1, <1>2, <1>5, <1>6, <1>7, <1>8, <1>9, <1>10, <1>11 DEF PoolInv

\* A worker ends its task, by a return or a panic, or itself.
LEMMA WorkerKeeps ==
    ASSUME PoolInv, NEW w \in Workers, TaskEnds(w) \/ TaskPanics(w) \/ WorkerReturns(w)
    PROVE  PoolInv'
<1>1. CASE TaskEnds(w)
  <2>1. Gone' = Gone /\ Gone # Workers
    BY <1>1, BusAssumption DEF TaskEnds, Gone, PoolInv
  <2> QED BY <1>1, <2>1, BusAssumption DEF TaskEnds, PoolInv
<1>2. CASE WorkerReturns(w)
  <2>1. poolDone' /\ (Gone = Workers => Gone' = Workers)
    BY <1>2 DEF WorkerReturns, Gone, PoolInv
  <2> QED BY <1>2, <2>1, BusAssumption DEF WorkerReturns, PoolInv
<1>3. CASE TaskPanics(w)
  <2>1. /\ worker[w] \in Tasks /\ worker[w] \notin panicked /\ begun[worker[w]] = 1
        /\ worker' = [worker EXCEPT ![w] = "returned"]
        /\ panicked' = panicked \cup {worker[w]}
        /\ UNCHANGED <<taskCh, begun, poolDone, stop>>
    BY <1>3 DEF TaskPanics, PoolInv
  <2>2. w \notin Gone /\ Gone' = Gone \cup {w}
    BY <2>1, BusAssumption DEF Gone, PoolInv
  <2>3. IsFiniteSet(Gone) /\ IsFiniteSet(panicked)
    BY BusAssumption, FS_Subset DEF Gone, PoolInv
  <2>4. /\ IsFiniteSet(panicked')
        /\ Cardinality(panicked') = Cardinality(panicked) + 1
        /\ Cardinality(Gone') = Cardinality(Gone) + 1
    BY <2>1, <2>2, <2>3, FS_AddElement
  <2>5. Cardinality(Gone) \in Nat /\ Cardinality(panicked) \in Nat
    BY <2>3, FS_CardinalityType
  <2>6. ~ poolDone' => Cardinality(Gone') <= Cardinality(panicked')
    BY <2>1, <2>4, <2>5 DEF PoolInv
  <2>7. worker' \in [Workers -> Tasks \cup {"idle", "returned"}]
    BY <2>1 DEF PoolInv
  <2>8. /\ \A v \in Workers : worker'[v] \in Tasks => begun'[worker'[v]] = 1 /\ worker'[v] \notin panicked'
        /\ \A v, u \in Workers : worker'[v] \in Tasks /\ worker'[v] = worker'[u] => v = u
    BY <2>1, BusAssumption DEF PoolInv
  <2>9. stop' = "returned" => Gone' = Workers
    BY <2>1, <2>2 DEF PoolInv
  <2> QED BY <2>1, <2>4, <2>6, <2>7, <2>8, <2>9 DEF PoolInv
<1> QED BY <1>1, <1>2, <1>3

LEMMA PoolKeeps == PoolInv /\ [PoolNext]_poolVars => PoolInv'
<1> SUFFICES ASSUME PoolInv, [PoolNext]_poolVars PROVE PoolInv'
  OBVIOUS
<1>1. CASE UNCHANGED poolVars
  BY <1>1 DEF poolVars, PoolInv, Gone
<1>2. CASE CancelPool \/ Stop
  BY <1>2 DEF CancelPool, Stop, PoolInv, Gone
<1>3. CASE StopReturns
  BY <1>3 DEF StopReturns, PoolInv, Gone
<1>4. ASSUME NEW t \in Tasks, SubmitEnds(t) PROVE PoolInv'
  BY <1>4 DEF SubmitEnds, PoolInv, Gone
<1> QED BY <1>1, <1>2, <1>3, <1>4, SubmitKeeps, TakeKeeps, WorkerKeeps DEF PoolNext, PoolStep

\* A task has one place in the queue at most.
LEMMA PoolIsSound == PoolInv => PoolHolds
<1> SUFFICES ASSUME PoolInv PROVE PoolHolds
  OBVIOUS
<1>1. DOMAIN taskCh = 1 .. Len(taskCh)
  BY DEF PoolInv
<1>2. ASSUME NEW t \in Tasks
      PROVE  begun[t] + Cardinality({i \in DOMAIN taskCh : taskCh[i] = t}) <= 1
  <2> DEFINE places == {i \in DOMAIN taskCh : taskCh[i] = t}
  <2>1. CASE places = {}
    <3>1. Cardinality(places) = 0
      BY <2>1, FS_EmptySet
    <3>2. begun[t] \in {0, 1}
      BY DEF PoolInv
    <3> QED BY <3>1, <3>2
  <2>2. ASSUME NEW i \in places PROVE begun[t] + Cardinality(places) <= 1
    <3>1. places = {i} /\ begun[t] = 0
      BY <1>1 DEF PoolInv
    <3>2. Cardinality(places) = 1
      BY <3>1, FS_Singleton
    <3> QED BY <3>1, <3>2
  <2> QED BY <2>1, <2>2
<1>3. stop = "returned" => Alive = {}
  BY DEF PoolInv, Gone, Alive
<1>4. Alive = {} => poolDone \/ Cardinality(panicked) >= Cardinality(Workers)
  <2>1. Alive = {} => Gone = Workers
    BY DEF Gone, Alive
  <2>2. Cardinality(Workers) \in Nat /\ Cardinality(panicked) \in Nat
    BY BusAssumption, FS_CardinalityType DEF PoolInv
  <2> QED BY <2>1, <2>2 DEF PoolInv
<1> QED BY <1>2, <1>3, <1>4 DEF PoolHolds

\* Whoever subscribes and unsubscribes while an event is dispatched, and whichever
\* handlers fail at once, Execute calls those it found once, waits for them and counts
\* what handlers of one sort report; and a pool of any number of workers begins no
\* task twice and loses no worker but by a panic (eventbus.go, eventstore_worker.go).
THEOREM BusReportsEvents == BusSpec /\ PoolSpec => []EventsReported
<1>1. BusSpec => []Reported
  BY InitBus, BusKeeps, BusReports, PTL DEF BusSpec
<1>2. PoolSpec => []PoolHolds
  BY InitPool, PoolKeeps, PoolIsSound, PTL DEF PoolSpec
<1> QED BY <1>1, <1>2, PTL DEF EventsReported

-----------------------------------------------------------------------------
(* Streams.                                                                *)

\* A program that uses the primitives: every goroutine but a consumer has channels to
\* write, and every goroutine but a source has one to read; the function given to Split
\* returns an int.
Wired ==
    /\ \A v : Route(v) \in Int
    /\ Kind \in [Nodes -> {"slice", "map", "filter", "window", "windowByTime", "split",
                          "merge", "collect"}]
    /\ \A n \in Nodes :
        /\ Out[n] \in Seq(Channels)
        /\ Kind[n] = "collect" <=> Out[n] = <<>>
        /\ Kind[n] # "slice" => In[n] \in Channels

Stage == {"loop", "send", "flush", "leave", "returned"}

\* What a goroutine holds it made for a channel of its own.
Carries ==
    \A n \in Nodes :
        stage[n] \in {"send", "flush"} =>
            Len(carried[n]) = 1 /\ Head(carried[n]).channel \in Flow!Range(Out[n])

FlowInv ==
    /\ stage \in [Nodes -> Stage]
    /\ closed \in [Channels -> BOOLEAN]
    /\ DOMAIN carried = Nodes /\ DOMAIN buffer = Channels
    /\ Carries
    /\ Flow!ClosedByTheLast

\* Split's index is one of its channels, whatever its function returned.
LEMMA SplitStaysInside ==
    ASSUME Wired, NEW n \in Nodes, Kind[n] # "collect", NEW k \in Int
    PROVE  Flow!Clamped(n, k) \in 1..Len(Out[n])
<1> DEFINE len == Len(Out[n])
           least == Flow!Min({k, len})
<1>1. len \in Nat /\ len >= 1
  BY DEF Wired
<1> HIDE DEF len
<1>2. least \in Int /\ least <= len
  <2>1. \E x \in {k, len} : \A y \in {k, len} : x =< y
    <3>1. CASE k <= len
      BY <1>1, <3>1
    <3>2. CASE ~(k <= len)
      BY <1>1, <3>2
    <3> QED BY <3>1, <3>2
  <2>2. least \in {k, len} /\ \A y \in {k, len} : least =< y
    BY <2>1 DEF Flow!Min
  <2> QED BY <1>1, <2>2
<1> HIDE DEF least
<1>3. Flow!Max({1, least}) \in {1, least} /\ \A y \in {1, least} : Flow!Max({1, least}) >= y
  <2>1. \E x \in {1, least} : \A y \in {1, least} : x >= y
    <3>1. CASE 1 <= least
      BY <1>2, <3>1
    <3>2. CASE ~(1 <= least)
      BY <1>2, <3>2
    <3> QED BY <3>1, <3>2
  <2> QED BY <2>1 DEF Flow!Max
<1>4. Flow!Max({1, least}) \in 1..len
  BY <1>1, <1>2, <1>3
<1> QED BY <1>4 DEF Flow!Clamped, len, least

\* What a goroutine makes of a value it has read is for a channel of its own.
LEMMA HandsToItsOwn ==
    ASSUME Wired, NEW n \in Flow!Stages, NEW v, Flow!Handed(n, v) # <<>>
    PROVE  /\ Len(Flow!Handed(n, v)) = 1
           /\ Head(Flow!Handed(n, v)).channel \in Flow!Range(Out[n])
<1>1. /\ n \in Nodes /\ Out[n] \in Seq(Channels) /\ Out[n] # <<>> /\ 1 \in DOMAIN Out[n]
      /\ Kind[n] \in {"map", "filter", "window", "windowByTime", "split", "merge"}
  BY DEF Wired, Flow!Stages, Flow!Producers, Flow!Consumers
<1>2. PICK i \in DOMAIN Out[n] : \E w : Flow!Handed(n, v) = <<Flow!Parcel(Out[n][i], w)>>
  <2>1. Flow!Clamped(n, Route(v)) \in DOMAIN Out[n]
    BY <1>1, SplitStaysInside DEF Wired
  <2>2. CASE Kind[n] = "map"
    BY <1>1, <2>2 DEF Flow!Handed
  <2>3. CASE Kind[n] = "merge"
    BY <1>1, <2>3 DEF Flow!Handed
  <2>4. CASE Kind[n] = "filter"
    BY <1>1, <2>4 DEF Flow!Handed
  <2>5. CASE Kind[n] = "split"
    BY <1>1, <2>1, <2>5 DEF Flow!Handed
  <2>6. CASE Kind[n] = "window"
    BY <1>1, <2>6 DEF Flow!Handed
  <2>7. CASE Kind[n] = "windowByTime"
    BY <2>7 DEF Flow!Handed
  <2> QED BY <1>1, <2>2, <2>3, <2>4, <2>5, <2>6, <2>7
<1> QED BY <1>2 DEF Flow!Parcel, Flow!Range

\* A window that is flushed goes to the one channel of its goroutine.
LEMMA FlushesToItsOwn ==
    ASSUME Wired, NEW n \in Nodes, Kind[n] # "collect", window[n] # <<>>
    PROVE  /\ Len(Flow!Flushed(n)) = 1
           /\ Head(Flow!Flushed(n)).channel \in Flow!Range(Out[n])
<1>1. 1 \in DOMAIN Out[n]
  BY DEF Wired
<1> QED BY <1>1 DEF Flow!Flushed, Flow!Parcel, Flow!Range

\* The goroutines begin with open channels, each of which somebody may write.
LEMMA InitFlow == Wired /\ Flow!Init => FlowInv
BY DEF Flow!Init, FlowInv, Stage, Carries, Flow!ClosedByTheLast, Flow!Writers

\* A goroutine that goes on, from a step that is not its last to one that is not,
\* leaves the channels as open as they are.
LEMMA StillOpen ==
    ASSUME FlowInv, NEW n \in Nodes, NEW then \in Stage, stage[n] # "returned",
           then # "returned", stage' = [stage EXCEPT ![n] = then], UNCHANGED closed
    PROVE  /\ Flow!ClosedByTheLast'
           /\ stage' \in [Nodes -> Stage] /\ closed' \in [Channels -> BOOLEAN]
BY DEF FlowInv, Flow!ClosedByTheLast, Flow!Writers

\* What a goroutine holds is left alone by the steps of the others.
LEMMA StillCarries ==
    ASSUME FlowInv, NEW n \in Nodes, NEW then \in Stage,
           stage' = [stage EXCEPT ![n] = then],
           \A m \in Nodes \ {n} : carried'[m] = carried[m],
           then \in {"send", "flush"} =>
               Len(carried'[n]) = 1 /\ Head(carried'[n]).channel \in Flow!Range(Out[n])
    PROVE  Carries'
BY DEF FlowInv, Carries

\* Every step of a goroutine keeps FlowInv.
LEMMA NextFlow == Wired /\ FlowInv /\ [Flow!Next]_(Flow!vars) => FlowInv'
<1> SUFFICES ASSUME Wired, FlowInv, [Flow!Next]_(Flow!vars) PROVE FlowInv'
  OBVIOUS
<1>0. /\ stage \in [Nodes -> Stage] /\ closed \in [Channels -> BOOLEAN]
      /\ DOMAIN carried = Nodes /\ DOMAIN buffer = Channels
  BY DEF FlowInv
<1>1. ASSUME NEW n \in Nodes, Flow!Take(n) PROVE FlowInv'
  <2>1. PICK v : /\ n \in Flow!Stages /\ stage[n] = "loop"
                 /\ carried' = [carried EXCEPT ![n] = Flow!Handed(n, v)]
                 /\ stage' = [stage EXCEPT ![n] = IF Flow!Handed(n, v) = <<>> THEN "loop" ELSE "send"]
                 /\ DOMAIN buffer' = Channels /\ UNCHANGED closed
    BY <1>0, <1>1 DEF Flow!Take, Flow!Goto
  <2>2. carried'[n] = Flow!Handed(n, v) /\ \A m \in Nodes \ {n} : carried'[m] = carried[m]
    BY <1>0, <2>1
  <2>3. CASE Flow!Handed(n, v) = <<>>
    <3>1. stage' = [stage EXCEPT ![n] = "loop"]
      BY <2>1, <2>3
    <3> QED BY <1>0, <2>1, <2>2, <3>1, StillOpen, StillCarries DEF FlowInv, Stage
  <2>4. CASE Flow!Handed(n, v) # <<>>
    <3>1. stage' = [stage EXCEPT ![n] = "send"]
      BY <2>1, <2>4
    <3>2. Len(carried'[n]) = 1 /\ Head(carried'[n]).channel \in Flow!Range(Out[n])
      BY <2>1, <2>2, <2>4, HandsToItsOwn
    <3> QED BY <1>0, <2>1, <2>2, <3>1, <3>2, StillOpen, StillCarries DEF FlowInv, Stage
  <2> QED BY <2>3, <2>4
<1>2. ASSUME NEW n \in Nodes, Flow!Tick(n) \/ Flow!InputEnds(n) \/ Flow!SeeDone(n)
      PROVE  FlowInv'
  <2>1. stage[n] = "loop" /\ Kind[n] # "collect" /\ UNCHANGED <<closed, buffer>>
    BY <1>2 DEF Flow!Tick, Flow!InputEnds, Flow!SeeDone, Flow!Stages, Flow!Consumers
  <2>2. CASE UNCHANGED carried /\ stage' = [stage EXCEPT ![n] = "leave"]
    BY <1>0, <2>1, <2>2, StillOpen, StillCarries DEF FlowInv, Stage
  <2>3. CASE /\ window[n] # <<>> /\ carried' = [carried EXCEPT ![n] = Flow!Flushed(n)]
             /\ stage' = [stage EXCEPT ![n] = "send"]
    <3>1. /\ carried'[n] = Flow!Flushed(n) /\ \A m \in Nodes \ {n} : carried'[m] = carried[m]
          /\ DOMAIN carried' = Nodes
      BY <1>0, <2>3
    <3>2. Len(carried'[n]) = 1 /\ Head(carried'[n]).channel \in Flow!Range(Out[n])
      BY <2>1, <2>3, <3>1, FlushesToItsOwn
    <3> QED BY <1>0, <2>1, <2>3, <3>1, <3>2, StillOpen, StillCarries DEF FlowInv, Stage
  <2>4. CASE /\ window[n] # <<>> /\ carried' = [carried EXCEPT ![n] = Flow!Flushed(n)]
             /\ stage' = [stage EXCEPT ![n] = "flush"]
    <3>1. /\ carried'[n] = Flow!Flushed(n) /\ \A m \in Nodes \ {n} : carried'[m] = carried[m]
          /\ DOMAIN carried' = Nodes
      BY <1>0, <2>4
    <3>2. Len(carried'[n]) = 1 /\ Head(carried'[n]).channel \in Flow!Range(Out[n])
      BY <2>1, <2>4, <3>1, FlushesToItsOwn
    <3> QED BY <1>0, <2>1, <2>4, <3>1, <3>2, StillOpen, StillCarries DEF FlowInv, Stage
  <2> QED
    BY <1>2, <2>2, <2>3, <2>4 DEF Flow!Tick, Flow!InputEnds, Flow!SeeDone, Flow!Goto
<1>3. ASSUME NEW n \in Nodes, Flow!Send(n) \/ Flow!DropMerge(n) PROVE FlowInv'
  <2>1. PICK then \in {"leave", "loop"} :
            /\ stage[n] \in {"send", "flush"} /\ stage' = [stage EXCEPT ![n] = then]
            /\ carried' = [carried EXCEPT ![n] = <<>>]
            /\ DOMAIN buffer' = Channels /\ UNCHANGED closed
    BY <1>0, <1>3 DEF Flow!Send, Flow!DropMerge, Flow!Goto
  <2>2. \A m \in Nodes \ {n} : carried'[m] = carried[m]
    BY <1>0, <2>1
  <2> QED BY <1>0, <2>1, <2>2, StillOpen, StillCarries DEF FlowInv, Stage
<1>4. ASSUME NEW n \in Nodes, Flow!SliceEnds(n) PROVE FlowInv'
  <2>1. /\ stage[n] = "loop" /\ stage' = [stage EXCEPT ![n] = "leave"]
        /\ UNCHANGED <<closed, buffer, carried>>
    BY <1>4 DEF Flow!SliceEnds, Flow!Goto
  <2> QED BY <1>0, <2>1, StillOpen, StillCarries DEF FlowInv, Stage
<1>5. ASSUME NEW n \in Nodes, Flow!SendItem(n) PROVE FlowInv'
  <2>1. UNCHANGED <<closed, carried, stage>> /\ DOMAIN buffer' = Channels
    BY <1>0, <1>5 DEF Flow!SendItem
  <2> QED BY <2>1 DEF FlowInv, Carries, Flow!ClosedByTheLast
<1>6. ASSUME NEW n \in Nodes, Flow!Return(n) PROVE FlowInv'
  <2>1. /\ stage[n] = "leave" /\ stage' = [stage EXCEPT ![n] = "returned"]
        /\ closed' = [c \in Channels |->
                \/ closed[c]
                \/ /\ n \in Flow!Writers(c)
                   /\ \A m \in Flow!Writers(c) \ {n} : stage[m] = "returned"]
        /\ UNCHANGED <<buffer, carried>>
    BY <1>6 DEF Flow!Return, Flow!Goto
  <2>2. Carries'
    BY <1>0, <2>1, StillCarries DEF Stage
  <2>3. ASSUME NEW c \in Channels
        PROVE  closed'[c] <=> /\ Flow!Writers(c) # {}
                              /\ \A m \in Flow!Writers(c) : stage'[m] = "returned"
    <3>1. closed[c] <=> /\ Flow!Writers(c) # {}
                        /\ \A m \in Flow!Writers(c) : stage[m] = "returned"
      BY DEF FlowInv, Flow!ClosedByTheLast
    <3>2. stage'[n] = "returned" /\ \A m \in Nodes \ {n} : stage'[m] = stage[m]
      BY <1>0, <2>1
    <3>3. Flow!Writers(c) \subseteq Nodes
      BY DEF Flow!Writers
    <3>4. closed'[c] <=> \/ closed[c]
                         \/ /\ n \in Flow!Writers(c)
                            /\ \A m \in Flow!Writers(c) \ {n} : stage[m] = "returned"
      BY <2>1
    <3> HIDE DEF Flow!Writers
    <3> QED BY <2>1, <3>1, <3>2, <3>3, <3>4
  <2>4. Flow!ClosedByTheLast'
    BY <2>3 DEF Flow!ClosedByTheLast, Flow!Writers
  <2>5. stage' \in [Nodes -> Stage] /\ closed' \in [Channels -> BOOLEAN]
    BY <1>0, <2>1 DEF Stage
  <2> QED BY <1>0, <2>1, <2>2, <2>4, <2>5 DEF FlowInv
<1>7. ASSUME NEW n \in Nodes, Flow!Collect(n) PROVE FlowInv'
  <2>1. /\ \A c \in Channels : n \notin Flow!Writers(c)
        /\ stage[n] = "loop" /\ UNCHANGED <<closed, carried>> /\ DOMAIN buffer' = Channels
        /\ UNCHANGED stage \/ stage' = [stage EXCEPT ![n] = "returned"]
    BY <1>0, <1>7 DEF Flow!Collect, Flow!Goto, Flow!Writers, Flow!Consumers, Flow!Range, Wired
  <2>2. CASE UNCHANGED stage
    BY <2>1, <2>2 DEF FlowInv, Carries, Flow!ClosedByTheLast
  <2>3. CASE stage' = [stage EXCEPT ![n] = "returned"]
    <3>1. Carries' /\ stage' \in [Nodes -> Stage]
      BY <1>0, <2>1, <2>3, StillCarries DEF Stage
    <3>2. \A c \in Channels : \A m \in Flow!Writers(c) : stage'[m] = stage[m]
      BY <1>0, <2>1, <2>3 DEF Flow!Writers
    <3>3. Flow!ClosedByTheLast'
      BY <2>1, <3>2 DEF FlowInv, Flow!ClosedByTheLast, Flow!Writers
    <3> QED BY <1>0, <2>1, <3>1, <3>3 DEF FlowInv
  <2> QED BY <2>1, <2>2, <2>3
<1>8. CASE Flow!CloseDone \/ UNCHANGED Flow!vars
  BY <1>8 DEF Flow!CloseDone, Flow!vars, FlowInv, Carries, Flow!ClosedByTheLast
<1> QED
  BY <1>1, <1>2, <1>3, <1>4, <1>5, <1>6, <1>7, <1>8 DEF Flow!Next, Flow!Step

\* Whatever is wired up and whenever done is closed: a channel is closed exactly when
\* all its writers have returned, so that none of them meets a closed one and its
\* reader gets to an end (composer_stream.go).
THEOREM ChannelsCloseOnce ==
    ASSUME Wired
    PROVE  Flow!Spec => []Flow!ClosedByTheLast
<1>1. FlowInv => Flow!ClosedByTheLast
  BY DEF FlowInv
<1> QED
  BY <1>1, InitFlow, NextFlow, PTL DEF Flow!Spec

\* A closed channel is only drained: no element is handed on after the close.
THEOREM ClosedIsOnlyDrained ==
    ASSUME Wired
    PROVE  Flow!Spec => [][Flow!ClosedTakesNothing]_(Flow!vars)
<1>1. FlowInv /\ [Flow!Next]_(Flow!vars) => [Flow!ClosedTakesNothing]_(Flow!vars)
  <2> SUFFICES ASSUME FlowInv, Flow!Next, NEW c \in Channels, closed[c], buffer'[c] # buffer[c]
               PROVE  buffer'[c] = Tail(buffer[c])
    BY DEF Flow!ClosedTakesNothing
  <2>1. /\ DOMAIN buffer = Channels
        /\ \A n \in Nodes : c \in Flow!Range(Out[n]) => stage[n] = "returned"
    BY DEF FlowInv, Flow!ClosedByTheLast, Flow!Writers
  <2>2. ASSUME NEW n \in Nodes, Flow!Take(n) \/ Flow!Collect(n) PROVE buffer'[c] = Tail(buffer[c])
    BY <2>1, <2>2 DEF Flow!Take, Flow!Collect
  <2>3. ASSUME NEW n \in Nodes, Flow!Send(n) PROVE FALSE
    <3>1. stage[n] \in {"send", "flush"} /\ Head(carried[n]).channel \in Flow!Range(Out[n])
      BY <2>3 DEF Flow!Send, FlowInv, Carries
    <3> QED BY <2>1, <2>3, <3>1 DEF Flow!Send
  <2>4. ASSUME NEW n \in Nodes, Flow!SendItem(n) PROVE FALSE
    <3>1. stage[n] = "loop" /\ Out[n][1] \in Flow!Range(Out[n])
      BY <2>4 DEF Flow!SendItem, Flow!Producers, Flow!Range, Wired
    <3> QED BY <2>1, <2>4, <3>1 DEF Flow!SendItem
  <2>5. ASSUME NEW n \in Nodes,
               \/ Flow!Tick(n) \/ Flow!DropMerge(n) \/ Flow!InputEnds(n)
               \/ Flow!SeeDone(n) \/ Flow!SliceEnds(n) \/ Flow!Return(n)
        PROVE  FALSE
    BY <2>5 DEF Flow!Tick, Flow!DropMerge, Flow!InputEnds, Flow!SeeDone, Flow!SliceEnds, Flow!Return
  <2> QED
    BY <2>2, <2>3, <2>4, <2>5 DEF Flow!Next, Flow!Step, Flow!CloseDone
<1> QED
  BY <1>1, InitFlow, NextFlow, PTL DEF Flow!Spec

-----------------------------------------------------------------------------
(* Releases. *)

\* What tags hold.
VersionNumbers == Nat \X Nat \X Nat
Tags == [version : VersionNumbers, at : Nat]

\* Versions are ordered.
LEMMA LessOrders ==
    ASSUME NEW u \in VersionNumbers, NEW v \in VersionNumbers, NEW w \in VersionNumbers,
           Rel!Less(u, v), Rel!Less(v, w)
    PROVE  Rel!Less(u, w)
BY DEF Rel!Less, VersionNumbers

\* The next version is above the last one, and a major one just when a commit breaks
\* something (InferNextVersion, ParseCommit).
LEMMA NextIsAbove ==
    ASSUME NEW v \in VersionNumbers, NEW commits
    PROVE  LET above == Rel!InferNextVersion({Rel!ParseCommit(log[k], <<>>) : k \in commits}, v) IN
           /\ above \in VersionNumbers /\ Rel!Less(v, above)
           /\ above[1] = v[1] + 1 <=> \E k \in commits : Rel!ParseCommit(log[k], <<>>).bang
<1> DEFINE read == {Rel!ParseCommit(log[k], <<>>) : k \in commits}
           above == Rel!InferNextVersion(read, v)
<1>1. v[1] \in Nat /\ v[2] \in Nat /\ v[3] \in Nat
  BY DEF VersionNumbers
<1>2. (\E c \in read : c.bang) <=> \E k \in commits : Rel!ParseCommit(log[k], <<>>).bang
  OBVIOUS
<1> HIDE DEF read
<1>3. CASE \E c \in read : c.bang
  <2>1. above = <<v[1] + 1, 0, 0>>
    BY <1>3 DEF Rel!InferNextVersion
  <2> QED BY <1>1, <1>2, <1>3, <2>1 DEF VersionNumbers, Rel!Less, read
<1>4. CASE ~\E c \in read : c.bang
  <2>1. above \in {<<v[1], v[2] + 1, 0>>, <<v[1], v[2], v[3] + 1>>}
    BY <1>4 DEF Rel!InferNextVersion
  <2>2. above \in VersionNumbers /\ Rel!Less(v, above) /\ above[1] # v[1] + 1
    BY <1>1, <2>1 DEF VersionNumbers, Rel!Less
  <2> QED BY <1>2, <1>4, <2>2 DEF read
<1> QED BY <1>3, <1>4

\* What a changelog is, and what a release that has read the log would tag.
Logs == [last : Nat, blind : BOOLEAN, commits : SUBSET Nat]

CountsUp(last, commits, version) ==
    /\ version \in VersionNumbers /\ Rel!Less(Rel!Current(last), version)
    /\ version[1] = Rel!Current(last)[1] + 1 <=>
            \E k \in commits : Rel!ParseCommit(log[k], <<>>).bang

\* What the releaser has found out so far about the release that it plans.
PlanInv ==
    /\ plan.blind \in BOOLEAN
    /\ plan.last = IF plan.blind THEN 0 ELSE Len(tags)
    /\ release = "commits" => plan.version = Rel!Current(plan.last)
    /\ release # "commits" =>
          /\ \E head \in 0 .. Len(log) : plan.commits = Rel!CommitsSince(plan.last, head)
          /\ CountsUp(plan.last, plan.commits, plan.version)

PlanFields == DOMAIN plan = {"last", "blind", "commits", "version", "changes", "dry"}

\* A tag and its changelog, and two of them.
TagSound(i) ==
    /\ changelogs[i].last = IF changelogs[i].blind THEN 0 ELSE i - 1
    /\ \E head \in 0 .. tags[i].at :
          changelogs[i].commits = Rel!CommitsSince(changelogs[i].last, head)
    /\ CountsUp(changelogs[i].last, changelogs[i].commits, tags[i].version)

TagsApart(i, j) ==
    /\ tags[i].at <= tags[j].at
    /\ (\A k \in i + 1 .. j : ~changelogs[k].blind) => Rel!Less(tags[i].version, tags[j].version)
    /\ ~changelogs[j].blind => changelogs[i].commits \cap changelogs[j].commits = {}

\* The tags, their changelogs and the log.
TagTypes ==
    /\ PlanFields
    /\ log \in Seq(Commits) /\ tags \in Seq(Tags) /\ changelogs \in Seq(Logs)
    /\ Len(changelogs) = Len(tags)
    /\ \A i \in 1 .. Len(tags) : tags[i].at <= Len(log)

TagInv ==
    /\ TagTypes
    /\ release # "idle" => PlanInv
    /\ \A i \in 1 .. Len(tags) : TagSound(i)
    /\ \A i, j \in 1 .. Len(tags) : i < j => TagsApart(i, j)

\* The log and the tags, if anything, grow.
Extended ==
    /\ Len(log) <= Len(log') /\ \A k \in 1 .. Len(log) : log'[k] = log[k]
    /\ \A i \in 1 .. Len(tags) : tags'[i] = tags[i] /\ changelogs'[i] = changelogs[i]

\* Then what they say of the past stays.
LEMMA PastStays ==
    ASSUME TagTypes, Extended, NEW last \in 0 .. Len(tags), NEW head \in 0 .. Len(log)
    PROVE  /\ Rel!Current(last)' = Rel!Current(last)
           /\ Rel!CommitsSince(last, head)' = Rel!CommitsSince(last, head)
<1>1. Len(log) \in Nat /\ Len(tags) \in Nat
  BY DEF TagTypes
<1>2. last # 0 => tags'[last] = tags[last]
  BY <1>1 DEF Extended
<1>3. \A k \in 1 .. head : log'[k] = log[k]
  BY <1>1 DEF Extended
<1> QED BY <1>2, <1>3 DEF Rel!Current, Rel!CommitsSince

LEMMA CountStays ==
    ASSUME TagTypes, Extended, NEW last \in 0 .. Len(tags), NEW commits \in SUBSET (1 .. Len(log)),
           NEW version, CountsUp(last, commits, version)
    PROVE  CountsUp(last, commits, version)'
<1>1. 0 \in 0 .. Len(log)
  BY DEF TagTypes
<1>2. Rel!Current(last)' = Rel!Current(last)
  BY <1>1, PastStays
<1>3. \A k \in commits : Rel!ParseCommit(log[k], <<>>)' = Rel!ParseCommit(log[k], <<>>)
  <2>1. \A k \in commits : log'[k] = log[k]
    BY DEF Extended
  <2> QED BY <2>1 DEF Rel!ParseCommit
<1> QED BY <1>2, <1>3 DEF CountsUp, Rel!Less

LEMMA SoundStays ==
    ASSUME TagInv, Extended, NEW i \in 1 .. Len(tags)
    PROVE  TagSound(i)'
<1>1. /\ tags[i] \in Tags /\ changelogs[i] \in Logs /\ tags[i].at <= Len(log) /\ Len(log) \in Nat
      /\ Len(tags) \in Nat /\ TagSound(i)
  BY DEF TagInv, TagTypes
<1>2. /\ tags'[i] = tags[i] /\ changelogs'[i] = changelogs[i]
      /\ changelogs[i].last \in 0 .. Len(tags)
  BY <1>1 DEF Extended, TagSound, Logs
<1>3. PICK head \in 0 .. tags[i].at :
            changelogs[i].commits = Rel!CommitsSince(changelogs[i].last, head)
  BY <1>1 DEF TagSound
<1>4. head \in 0 .. Len(log)
  BY <1>1, <1>3 DEF Tags
<1>5. PICK last \in 0 .. Len(tags) : last = changelogs[i].last
  BY <1>2
<1>6. Rel!CommitsSince(last, head)' = Rel!CommitsSince(last, head)
  BY <1>4, PastStays DEF TagInv
<1>7. changelogs[i].commits \in SUBSET (1 .. Len(log))
  BY <1>1, <1>3, <1>4 DEF Rel!CommitsSince
<1>8. PICK commits \in SUBSET (1 .. Len(log)) : commits = changelogs[i].commits
  BY <1>7
<1>9. PICK version : version = tags[i].version
  OBVIOUS
<1>10. CountsUp(last, commits, version)'
  BY <1>1, <1>5, <1>8, <1>9, CountStays DEF TagInv, TagSound
<1>11. /\ changelogs'[i].last = last /\ changelogs'[i].commits = commits
       /\ tags'[i].version = version /\ tags'[i].at = tags[i].at
  BY <1>2, <1>5, <1>8, <1>9
<1>12. changelogs'[i].last = IF changelogs'[i].blind THEN 0 ELSE i - 1
  BY <1>1, <1>2 DEF TagSound
<1>13. CountsUp(changelogs[i].last, changelogs[i].commits, tags[i].version)'
  BY <1>10, <1>11 DEF CountsUp
<1>14. changelogs'[i].commits = Rel!CommitsSince(changelogs[i].last, head)'
  BY <1>3, <1>5, <1>6, <1>8, <1>11 DEF Rel!CommitsSince
<1> QED BY <1>3, <1>11, <1>12, <1>13, <1>14 DEF TagSound

LEMMA ApartStays ==
    ASSUME TagInv, Extended, NEW i \in 1 .. Len(tags), NEW j \in 1 .. Len(tags), i < j
    PROVE  TagsApart(i, j)'
<1>1. TagsApart(i, j) /\ Len(tags) \in Nat
  BY DEF TagInv, TagTypes
<1>2. \A k \in i .. j : tags'[k] = tags[k] /\ changelogs'[k] = changelogs[k]
  BY <1>1 DEF Extended
<1>3. i \in i .. j /\ j \in i .. j /\ i + 1 .. j \subseteq i .. j
  BY <1>1
<1> QED BY <1>1, <1>2, <1>3 DEF TagsApart, Rel!Less

\* The version that is counted up is one.
LEMMA CurrentIs ==
    ASSUME TagTypes, NEW last \in 0 .. Len(tags)
    PROVE  Rel!Current(last) \in VersionNumbers
<1>1. <<0, 7, 0>> \in VersionNumbers
  BY DEF VersionNumbers
<1>2. last # 0 => tags[last] \in Tags
  BY DEF TagTypes
<1> QED BY <1>1, <1>2 DEF Rel!Current, Tags

\* No tag more: what the plan says is all that there is to show.
LEMMA NoTag ==
    ASSUME TagInv, UNCHANGED <<tags, changelogs>>, TagTypes', Extended, release' # "idle" => PlanInv'
    PROVE  TagInv'
<1>1. \A i \in 1 .. Len(tags) : TagSound(i)'
  BY SoundStays
<1>2. \A i, j \in 1 .. Len(tags) : i < j => TagsApart(i, j)'
  BY ApartStays
<1> QED BY <1>1, <1>2 DEF TagInv

\* The plan of a release stands while the log grows.
LEMMA PlanStays ==
    ASSUME TagInv, PlanInv, release' = release, plan' = plan, Extended, Len(tags') = Len(tags),
           Len(log') \in Nat
    PROVE  PlanInv'
<1>1. Len(log) \in Nat /\ Len(tags) \in Nat /\ TagTypes
  BY DEF TagInv, TagTypes
<1>2. PICK last \in 0 .. Len(tags) : last = plan.last
  BY <1>1 DEF PlanInv
<1>3. plan'.blind \in BOOLEAN /\ plan'.last = IF plan'.blind THEN 0 ELSE Len(tags')
  BY DEF PlanInv
<1>4. CASE release = "commits"
  <2>1. 0 \in 0 .. Len(log)
    BY <1>1
  <2>2. Rel!Current(last)' = Rel!Current(last)
    BY <1>1, <2>1, PastStays
  <2>3. plan'.version = Rel!Current(plan.last)'
    BY <1>2, <1>4, <2>2 DEF PlanInv, Rel!Current
  <2> QED BY <1>3, <1>4, <2>3 DEF PlanInv
<1>5. CASE release # "commits"
  <2>1. PICK head \in 0 .. Len(log) : plan.commits = Rel!CommitsSince(last, head)
    BY <1>2, <1>5 DEF PlanInv
  <2>2. head \in 0 .. Len(log')
    BY <1>1, <2>1 DEF Extended
  <2>3. Rel!CommitsSince(last, head)' = Rel!CommitsSince(last, head)
    BY <1>1, PastStays
  <2>4. PICK commits \in SUBSET (1 .. Len(log)) : commits = plan.commits
    <3>1. plan.commits \in SUBSET (1 .. head)
      BY <2>1 DEF Rel!CommitsSince
    <3>2. 1 .. head \subseteq 1 .. Len(log)
      BY <1>1
    <3> QED BY <3>1, <3>2
  <2>5. PICK version : version = plan.version
    OBVIOUS
  <2>6. CountsUp(last, commits, version)'
    BY <1>1, <1>2, <1>5, <2>4, <2>5, CountStays DEF PlanInv
  <2>7. CountsUp(plan.last, plan.commits, plan.version)'
    BY <1>2, <2>4, <2>5, <2>6 DEF CountsUp
  <2>8. plan'.commits = Rel!CommitsSince(plan.last, head)'
    BY <1>2, <2>1, <2>3 DEF Rel!CommitsSince
  <2> QED BY <1>3, <1>5, <2>2, <2>7, <2>8 DEF PlanInv
<1> QED BY <1>4, <1>5

\* A commit changes nothing that is tagged or planned.
LEMMA CommitsKeep ==
    ASSUME TagInv, NEW c \in Commits, Rel!Commit(c)
    PROVE  TagInv'
<1>1. UNCHANGED <<tags, release, plan, changelogs>> /\ log' = Append(log, c)
  BY DEF Rel!Commit
<1>2. /\ log' \in Seq(Commits) /\ Len(log') = Len(log) + 1 /\ Len(log) \in Nat
      /\ \A k \in 1 .. Len(log) : log'[k] = log[k]
  BY <1>1 DEF TagInv, TagTypes
<1>3. Extended
  BY <1>1, <1>2 DEF Extended
<1>4. TagTypes'
  <2>1. \A i \in 1 .. Len(tags) : tags[i].at <= Len(log) /\ tags[i].at \in Nat
    <3>1. \A i \in 1 .. Len(tags) : tags[i].at <= Len(log) /\ tags[i] \in Tags
      BY DEF TagInv, TagTypes
    <3> QED BY <3>1 DEF Tags
  <2>2. \A i \in 1 .. Len(tags) : tags[i].at <= Len(log')
    BY <1>2, <2>1
  <2> QED BY <1>1, <1>2, <2>2 DEF TagInv, TagTypes, PlanFields
<1>5. release' # "idle" => PlanInv'
  BY <1>1, <1>2, <1>3, PlanStays DEF TagInv
<1> QED BY <1>1, <1>3, <1>4, <1>5, NoTag

\* The changelog of a tag is what its plan has read, and its version is above.
LEMMA TagsKeep ==
    ASSUME TagInv, Rel!CreateTag
    PROVE  TagInv'
<1>0. release = "tag" /\ release' = "idle" /\ UNCHANGED <<log, plan>> /\ PlanInv /\ PlanFields'
  BY DEF Rel!CreateTag, TagInv, TagTypes, PlanFields
<1>1. CASE UNCHANGED <<tags, changelogs>>
  <2>1. Extended /\ TagTypes'
    BY <1>0, <1>1 DEF TagInv, TagTypes, Extended
  <2> QED BY <1>0, <1>1, <2>1, NoTag
<1>2. CASE /\ tags' = Append(tags, [version |-> plan.version, at |-> Len(log)])
           /\ changelogs' = Append(changelogs,
                [last |-> plan.last, blind |-> plan.blind, commits |-> plan.commits])
  <2> DEFINE tag == [version |-> plan.version, at |-> Len(log)]
             entry == [last |-> plan.last, blind |-> plan.blind, commits |-> plan.commits]
  <2>0. PICK n \in Nat : n = Len(tags) + 1
    BY DEF TagInv, TagTypes
  <2>1. /\ Len(log) \in Nat /\ Len(tags) \in Nat /\ TagTypes
        /\ plan.blind \in BOOLEAN /\ plan.last = IF plan.blind THEN 0 ELSE Len(tags)
        /\ CountsUp(plan.last, plan.commits, plan.version)
    BY <1>0 DEF TagInv, TagTypes, PlanInv
  <2>2. PICK head \in 0 .. Len(log) : plan.commits = Rel!CommitsSince(plan.last, head)
    BY <1>0 DEF PlanInv
  <2>3. plan.commits \in SUBSET (1 .. Len(log)) /\ plan.commits \in SUBSET Nat
    BY <2>1, <2>2 DEF Rel!CommitsSince
  <2>4. tag \in Tags /\ tag.version = plan.version /\ tag.at = Len(log)
    BY <2>1 DEF Tags, CountsUp
  <2>5. /\ entry \in Logs /\ entry.last = plan.last /\ entry.blind = plan.blind
        /\ entry.commits = plan.commits
    BY <2>1, <2>3 DEF Logs
  <2> HIDE DEF tag, entry
  <2>6. /\ tags' \in Seq(Tags) /\ Len(tags') = n /\ tags'[n] = tag
        /\ \A i \in 1 .. Len(tags) : tags'[i] = tags[i]
    BY <1>2, <2>0, <2>4 DEF TagInv, TagTypes, tag
  <2>7. /\ changelogs' \in Seq(Logs) /\ Len(changelogs') = n /\ changelogs'[n] = entry
        /\ \A i \in 1 .. Len(tags) : changelogs'[i] = changelogs[i]
    BY <1>2, <2>0, <2>5 DEF TagInv, TagTypes, entry
  <2>8. Extended
    BY <1>0, <2>1, <2>6, <2>7 DEF Extended
  <2>9. n - 1 = Len(tags) /\ \A i \in 1 .. n : i \in 1 .. Len(tags) \/ i = n
    BY <2>0, <2>1
  <2>10. \A i \in 1 .. Len(tags) : /\ tags[i] \in Tags /\ tags[i].at \in Nat /\ tags[i].at <= Len(log)
                                   /\ tags[i].version \in VersionNumbers
    <3>1. \A i \in 1 .. Len(tags) : tags[i].at <= Len(log) /\ tags[i] \in Tags
      BY <2>1 DEF TagTypes
    <3> QED BY <3>1 DEF Tags
  <2>11. TagTypes'
    <3>1. \A i \in 1 .. n : tags'[i].at <= Len(log)
      BY <2>1, <2>4, <2>6, <2>9, <2>10
    <3> QED BY <1>0, <2>6, <2>7, <3>1 DEF TagTypes, TagInv
  <2>12. PICK last \in 0 .. Len(tags) : last = plan.last
    BY <2>1
  <2>13. Rel!Current(last)' = Rel!Current(last) /\ Rel!CommitsSince(last, head)' = Rel!CommitsSince(last, head)
    BY <2>1, <2>8, PastStays
  <2>14. TagSound(n)'
    <3>1. /\ changelogs'[n].last = last /\ changelogs'[n].blind = plan.blind
          /\ changelogs'[n].commits = plan.commits
          /\ tags'[n].version = plan.version /\ tags'[n].at = Len(log)
      BY <2>4, <2>5, <2>6, <2>7, <2>12
    <3>2. changelogs'[n].last = IF changelogs'[n].blind THEN 0 ELSE n - 1
      BY <2>1, <2>9, <2>12, <3>1
    <3>3. changelogs'[n].commits = Rel!CommitsSince(changelogs[n].last, head)'
      <4>1. changelogs'[n].commits = Rel!CommitsSince(last, head)'
        BY <2>2, <2>12, <2>13, <3>1
      <4> QED BY <3>1, <4>1 DEF Rel!CommitsSince
    <3>4. PICK commits \in SUBSET (1 .. Len(log)) : commits = plan.commits
      BY <2>3
    <3>5. PICK version : version = plan.version
      OBVIOUS
    <3>6. CountsUp(last, commits, version)'
      BY <2>1, <2>8, <2>12, <3>4, <3>5, CountStays
    <3>7. CountsUp(changelogs[n].last, changelogs[n].commits, tags[n].version)'
      BY <3>1, <3>4, <3>5, <3>6 DEF CountsUp
    <3>8. head \in 0 .. tags'[n].at
      BY <2>2, <3>1
    <3> QED BY <3>2, <3>3, <3>7, <3>8 DEF TagSound
  <2>15. ASSUME NEW i \in 1 .. Len(tags)
         PROVE  TagsApart(i, n)'
    <3>1. /\ tags'[i] = tags[i] /\ changelogs'[i] = changelogs[i]
          /\ tags'[n].at = Len(log) /\ tags'[n].version = plan.version
          /\ changelogs'[n].blind = plan.blind /\ changelogs'[n].commits = plan.commits
      BY <2>4, <2>5, <2>6, <2>7
    <3>2. tags'[i].at <= tags'[n].at
      BY <2>10, <3>1
    <3>3. ASSUME \A k \in i + 1 .. n : ~changelogs'[k].blind
          PROVE  Rel!Less(tags[i].version, plan.version)
      <4>1. ~plan.blind /\ plan.last = Len(tags) /\ Len(tags) # 0
        <5>1. n \in i + 1 .. n
          BY <2>0, <2>1
        <5> QED BY <2>1, <3>1, <3>3, <5>1
      <4>2. Rel!Current(plan.last) = tags[Len(tags)].version
        BY <4>1 DEF Rel!Current
      <4>3. Rel!Less(tags[Len(tags)].version, plan.version) /\ plan.version \in VersionNumbers
        BY <2>1, <4>2 DEF CountsUp
      <4>4. CASE i = Len(tags)
        BY <4>3, <4>4
      <4>5. CASE i # Len(tags)
        <5>1. i < Len(tags) /\ Len(tags) \in 1 .. Len(tags)
          BY <2>1, <4>5
        <5>2. \A k \in i + 1 .. Len(tags) : ~changelogs[k].blind
          <6>1. \A k \in i + 1 .. Len(tags) : k \in i + 1 .. n /\ k \in 1 .. Len(tags)
            BY <2>0, <2>1
          <6> QED BY <2>7, <3>3, <6>1
        <5>3. Rel!Less(tags[i].version, tags[Len(tags)].version)
          BY <5>1, <5>2 DEF TagInv, TagsApart
        <5> QED BY <2>10, <4>3, <5>1, <5>3, LessOrders
      <4> QED BY <4>4, <4>5
    <3>4. ASSUME ~plan.blind
          PROVE  changelogs[i].commits \cap plan.commits = {}
      <4>1. plan.last = Len(tags) /\ Len(tags) # 0 /\ Len(tags) \in 1 .. Len(tags)
        BY <2>1, <3>4
      <4>2. \A k \in plan.commits : tags[Len(tags)].at < k /\ k \in Nat
        BY <2>2, <2>3, <4>1 DEF Rel!CommitsSince
      <4>3. PICK top \in 0 .. tags[i].at :
                changelogs[i].commits = Rel!CommitsSince(changelogs[i].last, top)
        BY DEF TagInv, TagSound
      <4>4. \A k \in changelogs[i].commits : k <= tags[i].at /\ k \in Nat
        BY <2>10, <4>3 DEF Rel!CommitsSince
      <4>5. tags[i].at <= tags[Len(tags)].at
        <5>1. CASE i = Len(tags)
          BY <2>10, <5>1
        <5>2. CASE i # Len(tags)
          BY <2>1, <4>1, <5>2 DEF TagInv, TagsApart
        <5> QED BY <5>1, <5>2
      <4>6. tags[i].at \in Nat /\ tags[Len(tags)].at \in Nat
        BY <2>10, <4>1
      <4>7. \A k \in plan.commits : k \notin changelogs[i].commits
        BY <4>2, <4>4, <4>5, <4>6
      <4> QED BY <4>7
    <3> QED BY <3>1, <3>2, <3>3, <3>4 DEF TagsApart, Rel!Less
  <2>16. \A i \in 1 .. n : TagSound(i)'
    <3> SUFFICES ASSUME NEW i \in 1 .. n PROVE TagSound(i)'
      OBVIOUS
    <3>1. CASE i = n
      BY <2>14, <3>1
    <3>2. CASE i \in 1 .. Len(tags)
      BY <2>8, <3>2, SoundStays
    <3> QED BY <2>9, <3>1, <3>2
  <2>17. \A i, j \in 1 .. n : i < j => TagsApart(i, j)'
    <3> SUFFICES ASSUME NEW i \in 1 .. n, NEW j \in 1 .. n, i < j
                 PROVE  TagsApart(i, j)'
      OBVIOUS
    <3>1. i \in 1 .. Len(tags)
      BY <2>0, <2>1
    <3>2. CASE j = n
      BY <2>15, <3>1, <3>2
    <3>3. CASE j \in 1 .. Len(tags)
      BY <2>8, <3>1, <3>3, ApartStays
    <3> QED BY <2>9, <3>2, <3>3
  <2> QED BY <1>0, <2>6, <2>11, <2>16, <2>17 DEF TagInv
<1> QED BY <1>1, <1>2 DEF Rel!CreateTag

\* A step that leaves the log and the tags alone.
LEMMA TagsStay ==
    ASSUME TagInv, UNCHANGED <<log, tags, changelogs>>, PlanFields',
           \/ release' = "idle"
           \/ /\ release' \notin {"idle", "commits"} /\ release \notin {"idle", "commits"}
              /\ plan'.last = plan.last /\ plan'.blind = plan.blind
              /\ plan'.commits = plan.commits /\ plan'.version = plan.version
           \/ release' = release /\ plan' = plan
    PROVE  TagInv'
<1>1. Extended /\ TagTypes'
  BY DEF TagInv, TagTypes, Extended
<1>2. CASE release' \notin {"idle", "commits"} /\ release \notin {"idle", "commits"}
           /\ plan'.last = plan.last /\ plan'.blind = plan.blind
           /\ plan'.commits = plan.commits /\ plan'.version = plan.version
  <2>1. PlanInv
    BY <1>2 DEF TagInv
  <2>2. /\ plan'.blind \in BOOLEAN
        /\ plan'.last = IF plan'.blind THEN 0 ELSE Len(tags')
    BY <1>2, <2>1 DEF PlanInv
  <2>3. \E head \in 0 .. Len(log') : plan'.commits = Rel!CommitsSince(plan.last, head)'
    <3>1. PICK head \in 0 .. Len(log) : plan.commits = Rel!CommitsSince(plan.last, head)
      BY <1>2, <2>1 DEF PlanInv
    <3>2. Rel!CommitsSince(plan.last, head)' = Rel!CommitsSince(plan.last, head)
      BY <1>2 DEF Rel!CommitsSince
    <3> QED BY <1>2, <3>1, <3>2
  <2>4. CountsUp(plan.last, plan.commits, plan.version)'
    <3>1. CountsUp(plan.last, plan.commits, plan.version)
      BY <1>2, <2>1 DEF PlanInv
    <3>2. /\ Rel!Current(plan.last)' = Rel!Current(plan.last)
          /\ \A k : Rel!ParseCommit(log[k], <<>>)' = Rel!ParseCommit(log[k], <<>>)
      BY <1>2 DEF Rel!Current, Rel!ParseCommit
    <3> QED BY <1>2, <3>1, <3>2 DEF CountsUp, Rel!Less
  <2>5. PlanInv'
    BY <1>2, <2>2, <2>3, <2>4 DEF PlanInv
  <2> QED BY <1>1, <2>5, NoTag
<1>3. CASE release' = release /\ plan' = plan
  <2>1. PlanInv' <=> PlanInv
    BY <1>3 DEF PlanInv, CountsUp, Rel!CommitsSince, Rel!Current, Rel!Less, Rel!ParseCommit
  <2> QED BY <1>1, <1>3, <2>1, NoTag DEF TagInv
<1>4. CASE release' = "idle"
  BY <1>1, <1>4, NoTag
<1> QED BY <1>2, <1>3, <1>4

\* The releaser plans: the last tag, the commits since, the intents.
LEMMA PlansKeep ==
    ASSUME TagInv, Rel!PlanRelease \/ Rel!PlanCommits \/ Rel!PlanChanges
    PROVE  TagInv'
<1>0. /\ UNCHANGED <<log, tags, changelogs>> /\ Len(tags) \in Nat /\ Len(log) \in Nat
      /\ PlanFields /\ TagTypes
  <2>1. UNCHANGED <<log, tags, changelogs>>
    BY DEF Rel!PlanRelease, Rel!PlanCommits, Rel!PlanChanges, Rel!gitVars
  <2>2. TagTypes
    BY DEF TagInv
  <2>3. Len(tags) \in Nat /\ Len(log) \in Nat /\ PlanFields
    BY <2>2 DEF TagTypes
  <2> QED BY <2>1, <2>2, <2>3
<1>1. PlanFields'
  BY <1>0 DEF PlanFields, Rel!PlanRelease, Rel!PlanCommits, Rel!PlanChanges, Rel!NoPlan
<1>2. Extended /\ TagTypes'
  BY <1>0, <1>1 DEF TagTypes, Extended
<1>3. CASE Rel!PlanRelease
  <2>1. PICK last \in Rel!LastTag :
            plan' = [Rel!NoPlan EXCEPT !.last = last, !.blind = last # Len(tags),
                                       !.version = Rel!Current(last)]
    BY <1>3 DEF Rel!PlanRelease
  <2>2. release' = "commits"
    BY <1>3 DEF Rel!PlanRelease
  <2>3. /\ plan'.last = last /\ plan'.blind = (last # Len(tags))
        /\ plan'.version = Rel!Current(last)
    BY <2>1 DEF Rel!NoPlan
  <2>4. last \in {Len(tags), 0}
    BY <2>1 DEF Rel!LastTag
  <2>5. plan'.version = Rel!Current(plan.last)'
    BY <1>0, <2>3 DEF Rel!Current
  <2>6. plan'.blind \in BOOLEAN /\ plan'.last = IF plan'.blind THEN 0 ELSE Len(tags')
    BY <1>0, <2>3, <2>4
  <2>7. PlanInv'
    BY <2>2, <2>5, <2>6 DEF PlanInv
  <2> QED BY <1>0, <1>2, <2>7, NoTag
<1>4. CASE Rel!PlanCommits
  <2> DEFINE commits == Rel!CommitsSince(plan.last, Len(log))
             above == Rel!InferNextVersion({Rel!ParseCommit(log[k], <<>>) : k \in commits}, plan.version)
  <2>1. /\ release = "commits" /\ plan.blind \in BOOLEAN
        /\ plan.last = IF plan.blind THEN 0 ELSE Len(tags)
        /\ plan.version = Rel!Current(plan.last)
    BY <1>4 DEF Rel!PlanCommits, TagInv, PlanInv
  <2>2. CASE release' = "idle"
    BY <1>0, <1>1, <2>2, TagsStay
  <2>3. CASE release' # "idle"
    <3>1. release' = "changes" /\ plan' = [plan EXCEPT !.commits = commits, !.version = above]
      BY <1>4, <2>3 DEF Rel!PlanCommits
    <3>2. plan.version \in VersionNumbers
      <4>1. PICK last \in 0 .. Len(tags) : last = plan.last
        BY <1>0, <2>1
      <4> QED BY <1>0, <2>1, <4>1, CurrentIs
    <3>3. PICK version \in VersionNumbers : version = plan.version
      BY <3>2
    <3>4. PICK numbers : numbers = commits
      OBVIOUS
    <3>5. /\ above \in VersionNumbers /\ Rel!Less(plan.version, above)
          /\ above[1] = plan.version[1] + 1 <=>
                \E k \in commits : Rel!ParseCommit(log[k], <<>>).bang
      <4> HIDE DEF commits
      <4>1. LET up == Rel!InferNextVersion({Rel!ParseCommit(log[k], <<>>) : k \in numbers}, version) IN
            /\ up \in VersionNumbers /\ Rel!Less(version, up)
            /\ up[1] = version[1] + 1 <=> \E k \in numbers : Rel!ParseCommit(log[k], <<>>).bang
        BY NextIsAbove
      <4> QED BY <3>3, <3>4, <4>1
    <3>6. CountsUp(plan.last, commits, above)
      BY <2>1, <3>5 DEF CountsUp
    <3> HIDE DEF above, commits
    <3>7. /\ plan'.last = plan.last /\ plan'.blind = plan.blind
          /\ plan'.commits = commits /\ plan'.version = above
      BY <1>0, <3>1 DEF PlanFields
    <3>8. CountsUp(plan.last, plan.commits, plan.version)'
      BY <1>0, <3>6, <3>7 DEF CountsUp, Rel!Current, Rel!Less, Rel!ParseCommit
    <3>9. plan'.commits = Rel!CommitsSince(plan.last, Len(log))'
      BY <1>0, <3>7 DEF commits, Rel!CommitsSince
    <3>10. Len(log') \in 0 .. Len(log')
      BY <1>0
    <3>11. \E head \in 0 .. Len(log') : plan'.commits = Rel!CommitsSince(plan.last, head)'
      BY <1>0, <3>9, <3>10 DEF Rel!CommitsSince
    <3>12. PlanInv'
      BY <1>0, <2>1, <3>1, <3>7, <3>8, <3>11 DEF PlanInv
    <3> QED BY <1>0, <1>2, <3>12, NoTag
  <2> QED BY <2>2, <2>3
<1>5. CASE Rel!PlanChanges
  <2>1. release = "changes" /\ release' = "planned"
    BY <1>5 DEF Rel!PlanChanges
  <2>2. PICK dry \in BOOLEAN : plan' = [plan EXCEPT !.changes = Rel!ListChanges, !.dry = dry]
    BY <1>5 DEF Rel!PlanChanges
  <2>3. /\ plan'.last = plan.last /\ plan'.blind = plan.blind
        /\ plan'.commits = plan.commits /\ plan'.version = plan.version
    BY <1>0, <2>2 DEF PlanFields
  <2> QED BY <1>0, <1>1, <2>1, <2>3, TagsStay
<1> QED BY <1>3, <1>4, <1>5

\* No step undoes what is known of the tags.
LEMMA TagStep ==
    ASSUME TagInv, [Rel!Next]_(Rel!vars)
    PROVE  TagInv'
<1>0. PlanFields
  BY DEF TagInv, TagTypes
<1>1. CASE \E c \in Commits : Rel!Commit(c)
  BY <1>1, CommitsKeep
<1>2. CASE Rel!CreateTag
  BY <1>2, TagsKeep
<1>3. CASE Rel!PlanRelease \/ Rel!PlanCommits \/ Rel!PlanChanges
  BY <1>3, PlansKeep
<1>4. CASE \/ \E i \in Intents, n \in Numbers : Rel!CreateChange(i, n)
           \/ \E n \in Numbers : Rel!DeleteChange(n)
           \/ \E w \in Writers : Rel!CreateADR(w) \/ Rel!SaveADR(w)
           \/ \E r \in records : Rel!RemoveADR(r)
           \/ UNCHANGED Rel!vars
  <2>1. UNCHANGED <<log, tags, changelogs, release, plan>>
    BY <1>4 DEF Rel!CreateChange, Rel!DeleteChange, Rel!CreateADR, Rel!SaveADR, Rel!RemoveADR,
       Rel!vars, Rel!gitVars
  <2> QED BY <1>0, <2>1, TagsStay DEF PlanFields
<1>5. CASE Rel!Execute \/ Rel!WriteADR
  <2>1. /\ UNCHANGED <<log, tags, changelogs, plan>>
        /\ release \in {"planned", "record"} /\ release' \in {"tag", "record"}
    BY <1>5 DEF Rel!Execute, Rel!WriteADR, Rel!gitVars
  <2> QED BY <1>0, <2>1, TagsStay DEF PlanFields
<1>6. CASE Rel!Die
  <2>1. UNCHANGED <<log, tags, changelogs>> /\ release' = "idle" /\ plan' = Rel!NoPlan
    BY <1>6 DEF Rel!Die, Rel!gitVars
  <2>2. PlanFields'
    BY <2>1 DEF PlanFields, Rel!NoPlan
  <2> QED BY <2>1, <2>2, TagsStay
<1> QED BY <1>1, <1>2, <1>3, <1>4, <1>5, <1>6 DEF Rel!Next

\* It always holds.
LEMMA TagsHold == Rel!Spec => []TagInv
<1>1. Rel!Init => TagInv
  <2> SUFFICES ASSUME Rel!Init PROVE TagInv
    OBVIOUS
  <2>1. tags = <<>> /\ log = <<>> /\ changelogs = <<>> /\ release = "idle"
    BY DEF Rel!Init
  <2>2. PlanFields
    BY DEF Rel!Init, PlanFields, Rel!NoPlan
  <2>3. \A i \in 1 .. Len(tags) : FALSE
    BY <2>1
  <2> QED BY <2>1, <2>2, <2>3 DEF TagInv, TagTypes
<1>2. TagInv /\ [Rel!Next]_(Rel!vars) => TagInv'
  BY TagStep
<1> QED BY <1>1, <1>2, PTL DEF Rel!Spec

\* For any commits, releases, deaths and failures of git: a version is above the one it was
\* counted up from, and a major one just when a commit of its changelog breaks something;
\* and versions grow from tag to tag as long as git describe does not fail
\* (InferNextVersion, PlanRelease, ExecuteRelease).
THEOREM TagsGrow == Rel!Spec => []Rel!VersionsGrow
<1>1. TagInv => Rel!VersionsGrow
  <2> SUFFICES ASSUME TagInv PROVE Rel!VersionsGrow
    OBVIOUS
  <2>1. DOMAIN tags = 1 .. Len(tags)
    BY DEF TagInv, TagTypes
  <2> QED BY <2>1 DEF TagInv, TagSound, TagsApart, CountsUp, Rel!VersionsGrow
<1> QED BY <1>1, TagsHold, PTL

\* For any commits, releases, deaths and failures of git: the changelog of a tag is the
\* commits from the tag before it, or the last few where git describe found none, to a HEAD
\* before its own; no commit is in it that an earlier one has, unless git describe failed
\* (GitCommitsSinceTag, GenerateChangelog, PlanRelease).
THEOREM CommitsLoggedOnce == Rel!Spec => []Rel!LoggedOnce
<1>1. TagInv => Rel!LoggedOnce
  <2> SUFFICES ASSUME TagInv PROVE Rel!LoggedOnce
    OBVIOUS
  <2>1. DOMAIN tags = 1 .. Len(tags)
    BY DEF TagInv, TagTypes
  <2> QED BY <2>1 DEF TagInv, TagSound, TagsApart, Rel!LoggedOnce
<1> QED BY <1>1, TagsHold, PTL

\* A file of docs/adr, and what its writer has found out.
Records == [number : 0 - 1 .. MaxRecords, version : VersionNumbers, alone : BOOLEAN]

RecordInv ==
    /\ records \in SUBSET Records
    /\ drafts \in [Rel!Authors -> [number : 0 - 1 .. MaxRecords, alone : BOOLEAN]]
    /\ Rel!RecordsDistinct

\* A set of numbers below a bound has a greatest one.
LEMMA GreatestNumber ==
    ASSUME NEW bound \in Nat, NEW numbers \in SUBSET (0 - 1 .. bound), numbers # {}
    PROVE  \E n \in numbers : \A m \in numbers : m <= n
<1> DEFINE gaps == {g \in Nat : bound - g \in numbers}
<1>1. gaps # {} /\ gaps \subseteq Nat
  <2>1. PICK n \in numbers : TRUE
    OBVIOUS
  <2>2. bound - n \in Nat /\ bound - (bound - n) = n
    BY <2>1
  <2> QED BY <2>1, <2>2
<1>2. PICK g \in gaps : \A h \in gaps : <<h, g>> \notin OpToRel(<, Nat)
  <2> HIDE DEF gaps
  <2> QED BY <1>1, NatLessThanWellFounded, WFMin
<1>3. \A x, y \in Nat : x < y => <<x, y>> \in OpToRel(<, Nat)
  <2>1. \A x, y \in Nat : x < y => <<x, y>> \in {ss \in Nat \X Nat : ss[1] < ss[2]}
    OBVIOUS
  <2> QED BY <2>1, Zenon DEF OpToRel
<1>4. \A h \in gaps : ~(h < g)
  <2> HIDE DEF gaps
  <2> QED BY <1>1, <1>2, <1>3, Zenon
<1>5. ASSUME NEW m \in numbers
      PROVE  m <= bound - g
  <2>1. bound - m \in Nat /\ bound - (bound - m) = m
    BY <1>5
  <2>2. bound - m \in gaps
    BY <1>5, <2>1
  <2>3. ~(bound - m < g) /\ g \in Nat
    BY <1>4, <2>2
  <2> QED BY <2>1, <2>3
<1>6. bound - g \in numbers
  BY <1>2
<1> QED BY <1>5, <1>6

\* NextADRID is above every number that was read.
LEMMA NextIsNew ==
    ASSUME MaxRecords \in Nat, NEW read \in SUBSET Records
    PROVE  /\ Rel!NextADRID(read) \in Nat
           /\ \A r \in read : r.number < Rel!NextADRID(read)
<1> DEFINE numbers == {r.number : r \in read}
           greatest == CHOOSE n \in numbers : \A m \in numbers : m =< n
<1>1. /\ numbers \in SUBSET (0 - 1 .. MaxRecords)
      /\ \A r \in read : r.number \in numbers
  BY DEF Records
<1>2. Rel!NextADRID(read) = 1 + (IF numbers = {} THEN 0 ELSE greatest)
  BY DEF Rel!NextADRID
<1>3. CASE numbers = {}
  <2> HIDE DEF numbers, greatest
  <2> QED BY <1>1, <1>2, <1>3
<1>4. CASE numbers # {}
  <2>1. greatest \in numbers /\ \A m \in numbers : m =< greatest
    <3> HIDE DEF numbers
    <3> QED BY <1>1, <1>4, GreatestNumber
  <2> HIDE DEF numbers, greatest
  <2>2. greatest \in 0 - 1 .. MaxRecords
    BY <1>1, <2>1
  <2>3. \A r \in read : r.number \in 0 - 1 .. MaxRecords /\ r.number <= greatest
    BY <1>1, <2>1
  <2>4. PICK n \in 0 - 1 .. MaxRecords : n = greatest
    BY <2>2
  <2>5. Rel!NextADRID(read) = 1 + n
    BY <1>2, <1>4, <2>4
  <2> QED BY <2>3, <2>4, <2>5
<1> QED BY <1>3, <1>4

\* Who has listed every record takes a number that is not there.
LEMMA DraftIsNew ==
    ASSUME MaxRecords \in Nat, RecordInv, NEW d \in Rel!Drafts
    PROVE  /\ d \in [number : 0 - 1 .. MaxRecords, alone : BOOLEAN]
           /\ d.alone => \A r \in records : r.number # d.number
<1>1. CASE d \in [number : 0 .. MaxRecords, alone : {FALSE}]
  <2>1. d.alone = FALSE /\ d.number \in 0 - 1 .. MaxRecords
    <3>1. d.alone \in {FALSE} /\ d.number \in 0 .. MaxRecords
      BY <1>1
    <3>2. 0 .. MaxRecords \subseteq 0 - 1 .. MaxRecords
      OBVIOUS
    <3> QED BY <3>1, <3>2
  <2>2. d = [number |-> d.number, alone |-> d.alone]
    BY <1>1
  <2> QED BY <2>1, <2>2
<1>2. CASE \E read \in SUBSET records :
              d = [number |-> Rel!NextADRID(read), alone |-> read = records]
  <2>1. PICK read \in SUBSET records :
              d = [number |-> Rel!NextADRID(read), alone |-> read = records]
    BY <1>2
  <2>2. read \in SUBSET Records
    BY <2>1 DEF RecordInv
  <2>3. /\ Rel!NextADRID(read) \in Nat
        /\ \A r \in read : r.number < Rel!NextADRID(read)
    BY <2>2, NextIsNew
  <2>4. d.number =< MaxRecords /\ d.number = Rel!NextADRID(read) /\ d.alone = (read = records)
    BY <2>1 DEF Rel!Drafts
  <2>5. PICK n \in Nat : n = Rel!NextADRID(read)
    BY <2>3
  <2>6. n \in 0 - 1 .. MaxRecords
    BY <2>4, <2>5
  <2>7. d \in [number : 0 - 1 .. MaxRecords, alone : BOOLEAN]
    BY <2>1, <2>5, <2>6
  <2>8. \A r \in read : r.number # n
    <3>1. \A r \in read : r.number \in 0 - 1 .. MaxRecords
      BY <2>2 DEF Records
    <3> QED BY <2>3, <2>5, <3>1
  <2> QED BY <2>4, <2>5, <2>7, <2>8
<1> QED BY <1>1, <1>2 DEF Rel!Drafts, Rel!ListADRs

\* A draft more, or less.
LEMMA DraftKeeps ==
    ASSUME MaxRecords \in Nat, RecordInv, NEW a \in Rel!Authors, NEW d,
           d \in Rel!Drafts \/ d = Rel!NoDraft,
           records' \in SUBSET records, drafts' = [drafts EXCEPT ![a] = d]
    PROVE  RecordInv'
<1>1. /\ d \in [number : 0 - 1 .. MaxRecords, alone : BOOLEAN]
      /\ d.alone => \A r \in records : r.number # d.number
  <2>1. CASE d = Rel!NoDraft
    <3>1. 0 - 1 \in 0 - 1 .. MaxRecords
      OBVIOUS
    <3> QED BY <2>1, <3>1 DEF Rel!NoDraft
  <2>2. CASE d \in Rel!Drafts
    BY <2>2, DraftIsNew
  <2> QED BY <2>1, <2>2
<1>2. /\ drafts' \in [Rel!Authors -> [number : 0 - 1 .. MaxRecords, alone : BOOLEAN]]
      /\ \A b \in Rel!Authors : drafts'[b] = IF b = a THEN d ELSE drafts[b]
  BY <1>1 DEF RecordInv
<1>3. Rel!RecordsDistinct'
  <2>1. \A b \in Rel!Authors : drafts'[b].alone => \A r \in records' : r.number # drafts'[b].number
    BY <1>1, <1>2 DEF RecordInv, Rel!RecordsDistinct
  <2> QED BY <2>1 DEF RecordInv, Rel!RecordsDistinct, Rel!Authors
<1> QED BY <1>2, <1>3 DEF RecordInv, Rel!Authors

\* A file that is written has a number of its own if its writer was alone.
LEMMA FileKeeps ==
    ASSUME MaxRecords \in Nat, RecordInv, NEW a \in Rel!Authors, NEW version \in VersionNumbers,
           Rel!WriteFile(a, version)
    PROVE  RecordInv'
<1> DEFINE file == [number |-> drafts[a].number, version |-> version, alone |-> drafts[a].alone]
           others == {r \in records : r.number # file.number \/ r.version # version}
<1>0. others \in SUBSET records
  OBVIOUS
<1>1. /\ file \in Records
      /\ file.alone => \A r \in records : r.number # file.number
  BY DEF RecordInv, Rel!RecordsDistinct, Records
<1> HIDE DEF file, others
<1>2. CASE /\ records' = others \cup {file}
           /\ drafts' = [b \in Rel!Authors |-> IF b = a \/ drafts[b] = Rel!NoDraft THEN Rel!NoDraft
                                               ELSE [drafts[b] EXCEPT !.alone = FALSE]]
  <2>1. records' \in SUBSET Records
    BY <1>0, <1>1, <1>2 DEF RecordInv
  <2>2. /\ Rel!NoDraft \in [number : 0 - 1 .. MaxRecords, alone : BOOLEAN] /\ ~Rel!NoDraft.alone
    <3>1. 0 - 1 \in 0 - 1 .. MaxRecords
      OBVIOUS
    <3> QED BY <3>1 DEF Rel!NoDraft
  <2>3. ASSUME NEW b \in Rel!Authors
        PROVE  /\ drafts'[b] \in [number : 0 - 1 .. MaxRecords, alone : BOOLEAN]
               /\ ~drafts'[b].alone
    <3>1. drafts[b] \in [number : 0 - 1 .. MaxRecords, alone : BOOLEAN]
      BY DEF RecordInv
    <3>2. drafts'[b] \in {Rel!NoDraft, [drafts[b] EXCEPT !.alone = FALSE]}
      BY <1>2
    <3> QED BY <2>2, <3>1, <3>2
  <2>4. drafts' \in [Rel!Authors -> [number : 0 - 1 .. MaxRecords, alone : BOOLEAN]]
    BY <1>2, <2>3
  <2>5. ASSUME NEW r \in records', NEW q \in records', r # q, r.number = q.number
        PROVE  ~r.alone \/ ~q.alone
    <3>1. CASE r \in records /\ q \in records
      BY <2>5, <3>1 DEF RecordInv, Rel!RecordsDistinct
    <3>2. CASE r = file /\ q \in records
      BY <1>1, <2>5, <3>2
    <3>3. CASE r \in records /\ q = file
      BY <1>1, <2>5, <3>3
    <3> QED BY <1>0, <1>2, <2>5, <3>1, <3>2, <3>3
  <2> QED BY <2>1, <2>3, <2>4, <2>5 DEF RecordInv, Rel!RecordsDistinct, Rel!Authors
<1>3. CASE records' \in {records, others} /\ drafts' = [drafts EXCEPT ![a] = Rel!NoDraft]
  <2>1. records' \in SUBSET records
    BY <1>0, <1>3
  <2> QED BY <1>3, <2>1, DraftKeeps
<1> QED BY <1>2, <1>3 DEF Rel!WriteFile, file, others

\* No step undoes what is known of the records.
LEMMA RecordStep ==
    ASSUME MaxRecords \in Nat, TagInv, RecordInv, [Rel!Next]_(Rel!vars)
    PROVE  RecordInv'
<1>0. Rel!Releaser \in Rel!Authors /\ Writers \subseteq Rel!Authors
  BY DEF Rel!Authors
<1>1. ASSUME NEW w \in Writers, Rel!CreateADR(w)
      PROVE  RecordInv'
  BY <1>0, <1>1, DraftKeeps DEF Rel!CreateADR
<1>2. ASSUME NEW w \in Writers, Rel!SaveADR(w)
      PROVE  RecordInv'
  <2>1. <<0, 0, 0>> \in VersionNumbers
    BY DEF VersionNumbers
  <2> QED BY <1>0, <1>2, <2>1, FileKeeps DEF Rel!SaveADR
<1>3. ASSUME NEW r \in records, Rel!RemoveADR(r)
      PROVE  RecordInv'
  BY <1>3 DEF Rel!RemoveADR, RecordInv, Rel!RecordsDistinct, Rel!Authors
<1>4. CASE Rel!WriteADR
  <2>1. release = "record" /\ Rel!WriteFile(Rel!Releaser, plan.version)
    BY <1>4 DEF Rel!WriteADR
  <2>2. plan.version \in VersionNumbers
    BY <2>1 DEF TagInv, PlanInv, CountsUp
  <2>3. PICK version \in VersionNumbers : version = plan.version
    BY <2>2
  <2>4. Rel!WriteFile(Rel!Releaser, version)
    BY <2>1, <2>3
  <2> QED BY <1>0, <2>4, FileKeeps
<1>5. ASSUME UNCHANGED <<records, drafts>>
      PROVE  RecordInv'
  BY <1>5 DEF RecordInv, Rel!RecordsDistinct, Rel!Authors
<1>6. CASE Rel!Execute
  <2>1. CASE drafts' = drafts
    BY <1>5, <1>6, <2>1 DEF Rel!Execute
  <2>2. CASE \E d \in Rel!Drafts : drafts' = [drafts EXCEPT ![Rel!Releaser] = d]
    BY <1>0, <1>6, <2>2, DraftKeeps DEF Rel!Execute
  <2> QED BY <1>6, <2>1, <2>2 DEF Rel!Execute
<1>7. CASE Rel!Die
  BY <1>0, <1>7, DraftKeeps DEF Rel!Die
<1>8. CASE \/ \E c \in Commits : Rel!Commit(c)
           \/ \E i \in Intents, n \in Numbers : Rel!CreateChange(i, n)
           \/ \E n \in Numbers : Rel!DeleteChange(n)
           \/ Rel!PlanRelease \/ Rel!PlanCommits \/ Rel!PlanChanges \/ Rel!CreateTag
           \/ UNCHANGED Rel!vars
  <2>1. UNCHANGED <<records, drafts>>
    BY <1>8 DEF Rel!Commit, Rel!CreateChange, Rel!DeleteChange, Rel!PlanRelease, Rel!PlanCommits,
       Rel!PlanChanges, Rel!CreateTag, Rel!vars, Rel!fileVars
  <2> QED BY <1>5, <2>1
<1> QED BY <1>1, <1>2, <1>3, <1>4, <1>6, <1>7, <1>8 DEF Rel!Next

\* For any writers that race, listings that miss files or fail, and writes that fail: who
\* has listed every record and writes before anybody else takes a number that no file has,
\* and so overwrites nothing; of two files with one number, one writer at least was not
\* alone (NextADRID, CreateADR, ExecuteRelease).
THEOREM NumbersDistinct ==
    ASSUME MaxRecords \in Nat
    PROVE  Rel!Spec => []Rel!RecordsDistinct
<1>1. Rel!Init => RecordInv
  <2>1. 0 - 1 \in 0 - 1 .. MaxRecords
    OBVIOUS
  <2> QED BY <2>1 DEF Rel!Init, RecordInv, Rel!RecordsDistinct, Rel!NoDraft, Rel!Authors
<1>2. TagInv /\ RecordInv /\ [Rel!Next]_(Rel!vars) => RecordInv'
  BY RecordStep
<1>3. RecordInv => Rel!RecordsDistinct
  BY DEF RecordInv
<1> QED BY <1>1, <1>2, <1>3, TagsHold, PTL DEF Rel!Spec
-----------------------------------------------------------------------------
(* Configurations that are reloaded. *)

\* A missing file is no file, each configuration has the confidential fields, and no
\* secret is itself a reference.
Configurable ==
    /\ Missing \notin Pipelines
    /\ \A app \in Apps : Confidential \subseteq DOMAIN app
    /\ \A ref \in DOMAIN Secrets : Secrets[ref] # Unset => Secrets[ref] \notin DOMAIN Secrets

\* What Get returns or a callback was given, if anything.
Clear(c) == c # Missing => \A f \in Confidential : c[f] \notin DOMAIN Secrets

\* What runs can be built; what the watcher is about to store was in the file and loads.
ReloadInv ==
    /\ pipeFile \in Pipelines /\ appFile \in Apps
    /\ hot # "off" => inUse # Missing
    /\ inUse # Missing => Config!Builds(inUse)
    /\ watch \in {"store", "notify"} => loading \in Apps /\ Config!Loads(loading)
    /\ Clear(cfg) /\ Clear(told)

\* Nothing that was loaded holds a reference: each of them was replaced by its secret.
LEMMA LoadedIsClear ==
    ASSUME Configurable, NEW app \in Apps, Config!Loads(app)
    PROVE  Clear(Config!Loaded(app))
<1> DEFINE over == Config!Overridden(app)
<1>1. DOMAIN over = DOMAIN app
  BY DEF Config!Overridden
<1>2. Confidential \subseteq DOMAIN over
  BY <1>1 DEF Configurable
<1>3. \A f \in Config!References(over) : Secrets[over[f]] # Unset
  BY DEF Config!Loads, Config!Resolvable
<1> HIDE DEF over
<1>4. ASSUME NEW f \in Confidential
      PROVE  Config!Resolved(over)[f] \notin DOMAIN Secrets
  <2>1. Config!Resolved(over)[f] = IF f \in Config!References(over) THEN Secrets[over[f]] ELSE over[f]
    BY <1>2 DEF Config!Resolved
  <2>2. CASE f \in Config!References(over)
    <3>1. over[f] \in DOMAIN Secrets
      BY <2>2 DEF Config!References
    <3> QED BY <1>3, <2>1, <2>2, <3>1 DEF Configurable
  <2>3. CASE f \notin Config!References(over)
    BY <2>1, <2>3 DEF Config!References
  <2> QED BY <2>2, <2>3
<1>5. Config!Loaded(app) = Config!Resolved(over)
  BY DEF Config!Loaded, over
<1> QED BY <1>4, <1>5 DEF Clear

LEMMA ReloadStep ==
    ASSUME Configurable, ReloadInv, [Config!Next]_(Config!vars)
    PROVE  ReloadInv'
<1> DEFINE Hot == <<pipeFile, inUse, hot>>
           Watched == <<appFile, cfg, told, watch, loading>>
<1>1. ASSUME UNCHANGED Hot, UNCHANGED Watched PROVE ReloadInv'
  BY <1>1 DEF ReloadInv, Clear, Config!Builds, Config!Parses, Config!Loads, Config!Resolvable,
     Config!References, Config!Overridden
<1>2. ASSUME UNCHANGED Watched,
             pipeFile' \in Pipelines, hot' # "off" => inUse' # Missing,
             inUse' # Missing => Config!Builds(inUse')
      PROVE  ReloadInv'
  BY <1>2 DEF ReloadInv, Clear, Config!Builds, Config!Parses, Config!Loads, Config!Resolvable,
     Config!References, Config!Overridden
<1>3. ASSUME UNCHANGED Hot, appFile' \in Apps,
             watch' \in {"store", "notify"} => loading' \in Apps /\ Config!Loads(loading'),
             Clear(cfg'), Clear(told')
      PROVE  ReloadInv'
  BY <1>3 DEF ReloadInv, Clear, Config!Builds, Config!Parses, Config!Loads, Config!Resolvable,
     Config!References, Config!Overridden
<1> USE DEF Config!hotVars, Config!watchVars
<1>4. ASSUME NEW p \in Pipelines, Config!WritePipeline(p) PROVE ReloadInv'
  BY <1>2, <1>4 DEF Config!WritePipeline, ReloadInv
<1>5. CASE Config!StartHot
  BY <1>2, <1>5 DEF Config!StartHot, ReloadInv, Configurable
<1>6. CASE Config!Rebuild
  BY <1>2, <1>6 DEF Config!Rebuild, ReloadInv, Configurable
<1>7. CASE Config!HashFile \/ Config!RebuildFails \/ Config!WatchEnds \/ Config!StopHot
  BY <1>2, <1>7 DEF Config!HashFile, Config!RebuildFails, Config!WatchEnds, Config!StopHot, ReloadInv
<1>8. ASSUME NEW a \in Apps, Config!WriteApp(a) PROVE ReloadInv'
  BY <1>3, <1>8 DEF Config!WriteApp, ReloadInv
<1>9. CASE Config!LoadFirst
  <2>1. Clear(Config!Loaded(appFile))
    BY <1>9, LoadedIsClear DEF Config!LoadFirst, ReloadInv
  <2> QED BY <1>3, <1>9, <2>1 DEF Config!LoadFirst, ReloadInv
<1>10. CASE Config!StartWatch \/ Config!StatNewer \/ Config!StopWatch
  BY <1>3, <1>10 DEF Config!StartWatch, Config!StatNewer, Config!StopWatch, ReloadInv
<1>11. CASE Config!Load \/ Config!LoadFails
  BY <1>3, <1>11 DEF Config!Load, Config!LoadFails, ReloadInv
<1>12. CASE Config!Store \/ Config!Notify
  <2>1. loading \in Apps /\ Config!Loads(loading)
    BY <1>12 DEF Config!Store, Config!Notify, ReloadInv
  <2>2. Clear(Config!Loaded(loading))
    BY <2>1, LoadedIsClear
  <2> QED BY <1>3, <1>12, <2>1, <2>2 DEF Config!Store, Config!Notify, ReloadInv
<1>13. CASE UNCHANGED Config!vars
  BY <1>1, <1>13 DEF Config!vars
<1> QED BY <1>4, <1>5, <1>6, <1>7, <1>8, <1>9, <1>10, <1>11, <1>12, <1>13
        DEF Config!Next, Config!HotReload, Config!ConfigWatcher, Config!HotNext, Config!WatchNext

\* For any files that others write at any moment, between the two reads too: a pipeline
\* that runs was built from a complete file of registered steps, and neither Get nor a
\* callback sees a reference in place of its secret (watch, buildFromFile, LoadFromFile).
THEOREM ReloadsAreSound ==
    ASSUME Configurable
    PROVE  Config!Spec => [](Config!RunsWhatBuilds /\ Config!SecretsAreResolved)
<1>1. Config!Init => ReloadInv
  BY DEF Config!Init, ReloadInv, Clear
<1>2. ReloadInv /\ [Config!Next]_(Config!vars) => ReloadInv'
  BY ReloadStep
<1>3. ReloadInv => Config!RunsWhatBuilds
  <2> SUFFICES ASSUME ReloadInv, inUse # Missing
               PROVE  Config!PipelineErrors(inUse) \subseteq {"name"} \X DOMAIN inUse.steps
    BY DEF ReloadInv, Config!RunsWhatBuilds
  <2>1. Config!Parses(inUse)
    BY DEF ReloadInv, Config!Builds
  <2> DEFINE Unnamed == {<<"name", i>> : i \in {j \in DOMAIN inUse.steps : inUse.steps[j].name = ""}}
             Untyped == {j \in DOMAIN inUse.steps :
                            inUse.steps[j].type \notin Config!AllowedStepTypes}
  <2>2. Untyped = {}
    BY <2>1 DEF Config!Parses
  <2>3. Config!PipelineErrors(inUse) = Unnamed \cup {<<"type", i>> : i \in Untyped}
    BY <2>1 DEF Config!Parses, Config!PipelineErrors
  <2>4. Unnamed \subseteq {"name"} \X DOMAIN inUse.steps
    <3>1. ASSUME NEW e \in Unnamed PROVE e \in {"name"} \X DOMAIN inUse.steps
      <4>1. PICK i \in DOMAIN inUse.steps : e = <<"name", i>>
        OBVIOUS
      <4> HIDE DEF Unnamed
      <4> QED BY <4>1
    <3> HIDE DEF Unnamed
    <3> QED BY <3>1
  <2> QED BY <2>2, <2>3, <2>4
<1>4. ReloadInv => Config!SecretsAreResolved
  BY DEF ReloadInv, Clear, Config!SecretsAreResolved
<1> QED BY <1>1, <1>2, <1>3, <1>4, PTL DEF Config!Spec
-----------------------------------------------------------------------------
(* Which of two versions is newer. *)

Below(S, n) == {e \in S : e < n}

\* The least of some numbers.
LEMMA Least ==
    ASSUME NEW n \in Nat, NEW S \in SUBSET (1 .. n), S # {}
    PROVE  \E k \in S : \A e \in S : k =< e
<1> DEFINE T == {Below(S, k) : k \in S}
<1>1. IsFiniteSet(S)
  <2>1. IsFiniteSet(1 .. n)
    BY FS_Interval
  <2> QED BY <2>1, FS_Subset
<1>2. T \subseteq FiniteSubsetsOf(S) /\ T # {}
  <2>1. ASSUME NEW k \in S PROVE Below(S, k) \in FiniteSubsetsOf(S)
    <3>1. Below(S, k) \subseteq S
      BY DEF Below
    <3>2. IsFiniteSet(Below(S, k))
      BY <1>1, <3>1, FS_Subset
    <3> QED BY <3>1, <3>2 DEF FiniteSubsetsOf
  <2> QED BY <2>1
<1>3. PICK B \in T : \A C \in T : ~ (<<C, B>> \in StrictSubsetOrdering(S))
  <2> HIDE DEF T
  <2> QED BY <1>1, <1>2, FS_StrictSubsetOrderingWellFounded, WFMin
<1>4. PICK k \in S : B = Below(S, k)
  OBVIOUS
<1>5. ASSUME NEW e \in S, e < k PROVE FALSE
  <2>1. Below(S, e) \in T /\ Below(S, e) \in FiniteSubsetsOf(S) /\ B \in FiniteSubsetsOf(S)
    BY <1>2, <1>3
  <2>2. Below(S, e) \subseteq B
    <3>1. ASSUME NEW f \in Below(S, e) PROVE f \in B
      <4>1. f \in S /\ f < e /\ f \in Int /\ e \in Int /\ k \in Int
        BY DEF Below
      <4>2. f < k
        BY <1>5, <4>1
      <4> QED BY <1>4, <4>1, <4>2 DEF Below
    <3> QED BY <3>1
  <2>3. e \in B /\ e \notin Below(S, e)
    BY <1>4, <1>5 DEF Below
  <2> HIDE DEF T
  <2>4. <<Below(S, e), B>> \in StrictSubsetOrdering(S)
    BY <2>1, <2>2, <2>3 DEF StrictSubsetOrdering, FiniteSubsetsOf
  <2> QED BY <1>3, <2>1, <2>4
<1> QED BY <1>5

\* v is above w in a component, and they agree in those before it.
Beyond(v, w, i) ==
    /\ Command!Component(v, i) > Command!Component(w, i)
    /\ \A j \in 1 .. i - 1 : Command!Component(v, j) = Command!Component(w, j)

LEMMA ComponentsAreNumbers ==
    ASSUME NEW v \in Seq(Int), NEW i \in Nat \ {0}
    PROVE  Command!Component(v, i) \in Int
<1>1. i =< Len(v) => v[i] \in Int
  BY ElementOfSeq
<1> QED BY <1>1 DEF Command!Component

\* compareVersions finds the first component that differs.
LEMMA FirstDifference ==
    ASSUME NEW v \in Seq(Int), NEW w \in Seq(Int)
    PROVE  \/ /\ Command!CompareVersions(v, w) = 0
              /\ \A i \in Nat \ {0} : Command!Component(v, i) = Command!Component(w, i)
           \/ /\ Command!CompareVersions(v, w) = 1
              /\ \E i \in Nat \ {0} : Beyond(v, w, i)
           \/ /\ Command!CompareVersions(v, w) = 0 - 1
              /\ \E i \in Nat \ {0} : Beyond(w, v, i)
<1> DEFINE n == Command!Longest(v, w)
           differ == {i \in 1 .. n : Command!Component(v, i) # Command!Component(w, i)}
           first == CHOOSE i \in differ : \A j \in differ : i =< j
<1>1. n \in Nat /\ \A i \in Nat \ {0} : i > n => i > Len(v) /\ i > Len(w)
  BY DEF Command!Longest
<1>2. \A i \in Nat \ {0} : i > n => Command!Component(v, i) = Command!Component(w, i)
  BY <1>1 DEF Command!Component
<1>3. Command!CompareVersions(v, w) =
         IF differ = {} THEN 0
         ELSE IF Command!Component(v, first) > Command!Component(w, first) THEN 1 ELSE -1
  BY DEF Command!CompareVersions
<1> HIDE DEF n
<1>4. CASE differ = {}
  <2>1. ASSUME NEW i \in Nat \ {0} PROVE Command!Component(v, i) = Command!Component(w, i)
    <3>1. i =< n => i \in 1 .. n
      BY <1>1
    <3> QED BY <1>1, <1>2, <1>4, <3>1
  <2> QED BY <1>3, <1>4, <2>1
<1>5. CASE differ # {}
  <2>1. differ \in SUBSET (1 .. n)
    OBVIOUS
  <2>2. \E i \in differ : \A j \in differ : i =< j
    <3> HIDE DEF differ
    <3> QED BY <1>1, <1>5, <2>1, Least
  <2>3. first \in differ /\ \A j \in differ : first =< j
    <3> HIDE DEF differ
    <3> QED BY <2>2
  <2> HIDE DEF first
  <2>4. first \in Nat \ {0} /\ first =< n
        /\ Command!Component(v, first) # Command!Component(w, first)
    BY <1>1, <2>3
  <2>5. ASSUME NEW j \in 1 .. first - 1 PROVE Command!Component(v, j) = Command!Component(w, j)
    <3>1. j \in 1 .. n /\ ~ (first =< j)
      BY <1>1, <2>4
    <3> QED BY <2>3, <3>1
  <2>6. Command!Component(v, first) \in Int /\ Command!Component(w, first) \in Int
    BY <2>4, ComponentsAreNumbers
  <2>7. CASE Command!Component(v, first) > Command!Component(w, first)
    <3>1. Beyond(v, w, first)
      BY <2>5, <2>7 DEF Beyond
    <3>2. Command!CompareVersions(v, w) = 1
      <4> HIDE DEF differ
      <4> QED BY <1>3, <1>5, <2>7
    <3> QED BY <2>4, <3>1, <3>2
  <2>8. CASE ~ (Command!Component(v, first) > Command!Component(w, first))
    <3>1. Beyond(w, v, first)
      BY <2>4, <2>5, <2>6, <2>8 DEF Beyond
    <3>2. Command!CompareVersions(v, w) = -1
      <4> HIDE DEF differ
      <4> QED BY <1>3, <1>5, <2>8
    <3> QED BY <2>4, <3>1, <3>2
  <2> QED BY <2>7, <2>8
<1> QED BY <1>4, <1>5

\* There is one first difference.
LEMMA OneFirst ==
    ASSUME NEW v \in Seq(Int), NEW w \in Seq(Int), NEW u \in Seq(Int),
           NEW i \in Nat \ {0}, NEW k \in Nat \ {0}, Beyond(v, w, i), Beyond(w, u, k)
    PROVE  \E j \in Nat \ {0} : Beyond(v, u, j)
<1>1. PICK j \in {i, k} : j =< i /\ j =< k
  OBVIOUS
<1>2. \A m \in Nat \ {0} : /\ Command!Component(v, m) \in Int /\ Command!Component(w, m) \in Int
                           /\ Command!Component(u, m) \in Int
  BY ComponentsAreNumbers
<1>3. ASSUME NEW m \in 1 .. j - 1 PROVE Command!Component(v, m) = Command!Component(u, m)
  <2>1. m \in 1 .. i - 1 /\ m \in 1 .. k - 1
    BY <1>1
  <2> QED BY <2>1 DEF Beyond
<1>4. Command!Component(v, j) > Command!Component(u, j)
  <2>1. Command!Component(v, j) >= Command!Component(w, j)
    <3>1. CASE j = i
      BY <1>2, <3>1 DEF Beyond
    <3>2. CASE j # i
      <4>1. j \in 1 .. i - 1 /\ j \in Nat \ {0}
        BY <1>1, <3>2
      <4> QED BY <1>2, <4>1 DEF Beyond
    <3> QED BY <3>1, <3>2
  <2>2. Command!Component(w, j) >= Command!Component(u, j)
    <3>1. CASE j = k
      BY <1>2, <3>1 DEF Beyond
    <3>2. CASE j # k
      <4>1. j \in 1 .. k - 1 /\ j \in Nat \ {0}
        BY <1>1, <3>2
      <4> QED BY <1>2, <4>1 DEF Beyond
    <3> QED BY <3>1, <3>2
  <2>3. j = i => Command!Component(v, j) > Command!Component(w, j)
    BY DEF Beyond
  <2>4. j = k => Command!Component(w, j) > Command!Component(u, j)
    BY DEF Beyond
  <2> QED BY <1>1, <1>2, <2>1, <2>2, <2>3, <2>4
<1> QED BY <1>1, <1>3, <1>4 DEF Beyond

LEMMA NotItself ==
    ASSUME NEW v \in Seq(Int), NEW i \in Nat \ {0}
    PROVE  ~Beyond(v, v, i)
BY ComponentsAreNumbers DEF Beyond

\* Versions of any lengths are ordered: which is newer does not depend on the order in
\* which they are given; a newer one than a newer one is newer; two are equal only if all
\* components are, a missing one counting as 0 (compareVersions).
THEOREM VersionsAreCompared ==
    ASSUME NEW v \in Seq(Int), NEW w \in Seq(Int), NEW u \in Seq(Int)
    PROVE  /\ Command!CompareVersions(v, w) = 0 - Command!CompareVersions(w, v)
           /\ Command!CompareVersions(v, w) > 0 /\ Command!CompareVersions(w, u) > 0 =>
                 Command!CompareVersions(v, u) > 0
           /\ Command!CompareVersions(v, w) = 0 <=>
                 \A i \in Nat \ {0} : Command!Component(v, i) = Command!Component(w, i)
<1>1. ASSUME NEW x \in Seq(Int), NEW y \in Seq(Int), NEW i \in Nat \ {0}, Beyond(x, y, i)
      PROVE  Command!CompareVersions(x, y) = 1
  <2>1. Command!Component(x, i) # Command!Component(y, i)
    <3>1. Command!Component(x, i) \in Int /\ Command!Component(y, i) \in Int
      BY ComponentsAreNumbers
    <3> QED BY <1>1, <3>1 DEF Beyond
  <2>2. ~ (\E k \in Nat \ {0} : Beyond(y, x, k))
    BY <1>1, OneFirst, NotItself
  <2> QED BY <2>1, <2>2, FirstDifference
<1>2. Command!CompareVersions(v, w) = 0 - Command!CompareVersions(w, v)
  <2>1. CASE \E i \in Nat \ {0} : Beyond(v, w, i)
    <3>1. ~ (\E k \in Nat \ {0} : Beyond(w, v, k))
      BY <2>1, OneFirst, NotItself
    <3>2. Command!CompareVersions(v, w) = 1
      BY <1>1, <2>1
    <3>3. ~ (\A i \in Nat \ {0} : Command!Component(w, i) = Command!Component(v, i))
      BY <2>1, ComponentsAreNumbers DEF Beyond
    <3>4. Command!CompareVersions(w, v) = 0 - 1
      BY <3>1, <3>3, FirstDifference
    <3> QED BY <3>2, <3>4
  <2>2. CASE \E i \in Nat \ {0} : Beyond(w, v, i)
    <3>1. ~ (\E k \in Nat \ {0} : Beyond(v, w, k))
      BY <2>2, OneFirst, NotItself
    <3>2. Command!CompareVersions(w, v) = 1
      BY <1>1, <2>2
    <3>3. ~ (\A i \in Nat \ {0} : Command!Component(v, i) = Command!Component(w, i))
      BY <2>2, ComponentsAreNumbers DEF Beyond
    <3>4. Command!CompareVersions(v, w) = 0 - 1
      BY <3>1, <3>3, FirstDifference
    <3> QED BY <3>2, <3>4
  <2>3. CASE ~ (\E i \in Nat \ {0} : Beyond(v, w, i) \/ Beyond(w, v, i))
    <3>1. Command!CompareVersions(v, w) = 0 /\ Command!CompareVersions(w, v) = 0
      BY <2>3, FirstDifference
    <3> QED BY <3>1
  <2> QED BY <2>1, <2>2, <2>3
<1>3. ASSUME Command!CompareVersions(v, w) > 0, Command!CompareVersions(w, u) > 0
      PROVE  Command!CompareVersions(v, u) > 0
  <2>1. PICK i \in Nat \ {0} : Beyond(v, w, i)
    BY <1>3, FirstDifference
  <2>2. PICK k \in Nat \ {0} : Beyond(w, u, k)
    BY <1>3, FirstDifference
  <2>3. PICK j \in Nat \ {0} : Beyond(v, u, j)
    BY <2>1, <2>2, OneFirst
  <2> QED BY <1>1, <2>3
<1>4. Command!CompareVersions(v, w) = 0 <=>
         \A i \in Nat \ {0} : Command!Component(v, i) = Command!Component(w, i)
  <2>1. ASSUME \A i \in Nat \ {0} : Command!Component(v, i) = Command!Component(w, i)
        PROVE  Command!CompareVersions(v, w) = 0
    <3>1. ~ (\E i \in Nat \ {0} : Beyond(v, w, i) \/ Beyond(w, v, i))
      BY <2>1, ComponentsAreNumbers DEF Beyond
    <3> QED BY <3>1, FirstDifference
  <2> QED BY <2>1, FirstDifference
<1> QED BY <1>2, <1>3, <1>4

-----------------------------------------------------------------------------
(* What upgrades leave of the executable. *)

Releases == [release : Int, whole : BOOLEAN, mixed : BOOLEAN]
UpgradeSteps == {"check", "findAsset", "create", "copy", "chmod", "findDownload", "install",
                 "replace", "removeOld"}
Successions == {<<"check", "findAsset">>, <<"findAsset", "create">>, <<"create", "copy">>,
                <<"copy", "chmod">>, <<"chmod", "install">>, <<"findDownload", "install">>,
                <<"replace", "removeOld">>}
Ordered(steps) ==
    /\ \A i \in 1 .. Len(steps) - 1 : <<steps[i], steps[i + 1]>> \in Successions
    /\ steps # <<>> => steps[Len(steps)] # "create"

\* A file that is not there is neither a release nor a place; releases are numbered.
Installable ==
    NoDocument \notin Releases \cup {"download", "exe", "gone"} /\ MaxRelease \in Int

UpgradeTypes ==
    /\ windows \in BOOLEAN /\ latest \in Int
    /\ {exe, backup, download} \subseteq Releases \cup {NoDocument}
    /\ remaining \in [Processes -> Seq(UpgradeSteps)]
    /\ \A p \in Processes : Ordered(remaining[p])
    /\ runs \in [Processes -> Int] /\ wants \in [Processes -> Int]
    /\ writes \in [Processes -> {NoDocument, "download", "exe", "gone"}]

\* What is written is there: where two renames are needed no file in use is renamed.
Written ==
    \A p \in Processes : /\ writes[p] = "download" => download # NoDocument
                         /\ writes[p] = "exe" => ~windows

\* Where it takes two renames the executable is away between them, or after an accident.
SomewhereElse ==
    exe = NoDocument => /\ windows
                        /\ \/ accidents \cap {"replace", "rollback", "overlap"} # {}
                           \/ \E p \in Processes : Command!At(p, "replace")

\* No commands have overlapped, and no copy was interrupted.
Undisturbed == accidents \cap {"copy", "overlap"} = {}

\* What p's command has left, where it writes, and what it found.
Engaged(p) ==
    /\ IF Command!At(p, "copy")
       THEN /\ writes[p] = "download" /\ download # NoDocument
            /\ ~download.mixed /\ download.release = wants[p]
       ELSE writes[p] = NoDocument
    /\ Command!At(p, "create") \/ Command!At(p, "copy") => Command!Newer(wants[p], runs[p])
    /\ \/ remaining[p] = <<>> \/ Command!At(p, "removeOld")
       \/ /\ Command!At(p, "replace") /\ exe = NoDocument /\ backup # NoDocument
          /\ download # NoDocument => Command!Newer(download.release, backup.release)
       \/ ~Command!At(p, "replace") /\ exe # NoDocument /\ exe.release = runs[p]

\* Then one command at most is under way; the files are whole but for a download that is
\* being copied; what is downloaded is newer than the executable, or than the one that is
\* put aside; and the executable is the one that the command was started from.
Upgrading ==
    /\ \A p \in Processes : remaining[p] # <<>> =>
          \A q \in Processes \ {p} : remaining[q] = <<>>
    /\ exe # NoDocument => exe.whole
    /\ backup # NoDocument => backup.whole
    /\ download # NoDocument /\ ~download.whole => \E p \in Processes : Command!At(p, "copy")
    /\ download # NoDocument /\ exe # NoDocument => Command!Newer(download.release, exe.release)
    /\ "older" \notin accidents
    /\ \A p \in Processes : Engaged(p)

UpgradeInv == UpgradeTypes /\ Written /\ SomewhereElse /\ (Undisturbed => Upgrading)

UpgradeSpec == Command!UpgradeInit /\ [][Command!UpgradeNext]_(Command!upgradeVars)

\* What is left after a step are steps in order, the next of which follows it.
LEMMA StepsLeft ==
    ASSUME NEW steps \in Seq(UpgradeSteps), steps # <<>>, Ordered(steps)
    PROVE  /\ Tail(steps) \in Seq(UpgradeSteps) /\ Ordered(Tail(steps))
           /\ Head(steps) \in UpgradeSteps
           /\ Tail(steps) # <<>> => <<Head(steps), Head(Tail(steps))>> \in Successions
           /\ Head(steps) = "create" => Tail(steps) # <<>>
<1>1. /\ Len(steps) \in Nat \ {0} /\ Head(steps) = steps[1]
      /\ Tail(steps) \in Seq(UpgradeSteps) /\ Len(Tail(steps)) = Len(steps) - 1
      /\ \A i \in 1 .. Len(steps) - 1 : Tail(steps)[i] = steps[i + 1]
  OBVIOUS
<1>2. \A i \in 1 .. Len(Tail(steps)) - 1 : <<Tail(steps)[i], Tail(steps)[i + 1]>> \in Successions
  <2> SUFFICES ASSUME NEW i \in 1 .. Len(Tail(steps)) - 1
               PROVE  <<Tail(steps)[i], Tail(steps)[i + 1]>> \in Successions
    BY DEF Ordered
  <2>1. Tail(steps)[i] = steps[i + 1] /\ Tail(steps)[i + 1] = steps[(i + 1) + 1]
    BY <1>1
  <2>2. i + 1 \in 1 .. Len(steps) - 1
    BY <1>1
  <2> QED BY <2>1, <2>2 DEF Ordered
<1>5. Tail(steps) # <<>> => Tail(steps)[Len(Tail(steps))] # "create"
  <2> SUFFICES ASSUME Tail(steps) # <<>> PROVE Tail(steps)[Len(steps) - 1] # "create"
    BY <1>1
  <2>1. Len(steps) - 1 \in 1 .. Len(steps) - 1
    BY <1>1
  <2>2. Tail(steps)[Len(steps) - 1] = steps[(Len(steps) - 1) + 1] /\ (Len(steps) - 1) + 1 = Len(steps)
    BY <1>1, <2>1
  <2> QED BY <2>2 DEF Ordered
<1>6. Head(steps) = "create" => Tail(steps) # <<>>
  <2> SUFFICES ASSUME Tail(steps) = <<>> PROVE steps[1] # "create"
    BY <1>1
  <2>1. Len(Tail(steps)) = 0
    BY <1>1, EmptySeq
  <2>2. Len(steps) = 1
    BY <1>1, <2>1
  <2> QED BY <2>2 DEF Ordered
<1>3. Tail(steps) # <<>> => <<Head(steps), Head(Tail(steps))>> \in Successions
  <2> SUFFICES ASSUME Tail(steps) # <<>> PROVE <<Head(steps), Head(Tail(steps))>> \in Successions
    OBVIOUS
  <2>1. Head(Tail(steps)) = Tail(steps)[1] /\ Len(steps) - 1 >= 1
    BY <1>1
  <2>2. Tail(steps)[1] = steps[2] /\ 1 \in 1 .. Len(steps) - 1
    BY <1>1, <2>1
  <2>3. <<steps[1], steps[1 + 1]>> \in Successions
    BY <2>2 DEF Ordered
  <2> QED BY <1>1, <2>1, <2>2, <2>3
<1>4. steps[1] \in UpgradeSteps
  BY <1>1, ElementOfSeq
<1> QED BY <1>1, <1>2, <1>3, <1>4, <1>5, <1>6 DEF Ordered

\* A step before others, and a step after others.
LEMMA StepBefore ==
    ASSUME NEW step \in UpgradeSteps, NEW steps \in Seq(UpgradeSteps), steps # <<>>, Ordered(steps),
           <<step, steps[1]>> \in Successions
    PROVE  LET all == <<step>> \o steps
           IN  all \in Seq(UpgradeSteps) /\ Ordered(all) /\ all # <<>> /\ Head(all) = step
               /\ all[Len(all)] = steps[Len(steps)]
<1> DEFINE all == <<step>> \o steps
<1>1. /\ all \in Seq(UpgradeSteps) /\ Len(all) = Len(steps) + 1 /\ all[1] = step
      /\ \A i \in 1 .. Len(steps) : all[i + 1] = steps[i]
      /\ Len(steps) \in Nat \ {0}
  OBVIOUS
<1> HIDE DEF all
<1>2. ASSUME NEW i \in 1 .. Len(all) - 1 PROVE <<all[i], all[i + 1]>> \in Successions
  <2>1. CASE i = 1
    BY <1>1, <2>1
  <2>2. CASE i > 1
    <3>1. i - 1 \in 1 .. Len(steps) - 1 /\ i - 1 \in 1 .. Len(steps)
      BY <1>1, <2>2
    <3>2. all[i] = steps[i - 1] /\ all[i + 1] = steps[(i - 1) + 1]
      BY <1>1, <2>2, <3>1
    <3> QED BY <3>1, <3>2 DEF Ordered
  <2> QED BY <2>1, <2>2
<1>3. all[Len(all)] = steps[Len(steps)] /\ all # <<>> /\ Head(all) = step
  BY <1>1
<1> QED BY <1>1, <1>2, <1>3 DEF Ordered, all

LEMMA StepAfter ==
    ASSUME NEW step \in UpgradeSteps, NEW steps \in Seq(UpgradeSteps), steps # <<>>, Ordered(steps),
           <<steps[Len(steps)], step>> \in Successions, step # "create"
    PROVE  LET all == steps \o <<step>>
           IN  all \in Seq(UpgradeSteps) /\ Ordered(all) /\ all # <<>> /\ Head(all) = Head(steps)
<1> DEFINE all == steps \o <<step>>
<1>1. /\ all \in Seq(UpgradeSteps) /\ Len(all) = Len(steps) + 1 /\ all[Len(steps) + 1] = step
      /\ \A i \in 1 .. Len(steps) : all[i] = steps[i]
      /\ Len(steps) \in Nat \ {0} /\ Head(steps) = steps[1]
  OBVIOUS
<1> HIDE DEF all
<1>2. ASSUME NEW i \in 1 .. Len(all) - 1 PROVE <<all[i], all[i + 1]>> \in Successions
  <2>1. CASE i = Len(steps)
    BY <1>1, <2>1
  <2>2. CASE i < Len(steps)
    <3>1. i \in 1 .. Len(steps) - 1 /\ i \in 1 .. Len(steps) /\ i + 1 \in 1 .. Len(steps)
      BY <1>1, <2>2
    <3>2. all[i] = steps[i] /\ all[i + 1] = steps[i + 1]
      BY <1>1, <2>2, <3>1
    <3> QED BY <3>1, <3>2 DEF Ordered
  <2> QED BY <1>1, <2>1, <2>2
<1>3. all # <<>> /\ Head(all) = Head(steps) /\ all[Len(all)] = step
  BY <1>1
<1> QED BY <1>1, <1>2, <1>3 DEF Ordered, all

\* The commands have their steps in this order.
LEMMA CommandsInOrder ==
    ASSUME NEW steps \in Command!CmdUpgrade
    PROVE  steps \in Seq(UpgradeSteps) /\ Ordered(steps) /\ steps # <<>>
           /\ Head(steps) \in {"check", "findDownload", "install"}
<1> DEFINE fetch == Command!CmdUpgradeDownload
<1>0. PICK perform : perform = Command!PerformUpgrade
  OBVIOUS
<1>1. perform \in Seq(UpgradeSteps) /\ Len(perform) = 4 /\ perform[1] = "findAsset"
      /\ perform[2] = "create" /\ perform[3] = "copy" /\ perform[4] = "chmod"
  BY <1>0 DEF Command!PerformUpgrade, UpgradeSteps
<1>2. Ordered(perform)
  <2>1. ASSUME NEW i \in 1 .. Len(perform) - 1
        PROVE  <<perform[i], perform[i + 1]>> \in Successions
    <3>1. i = 1 \/ i = 2 \/ i = 3
      BY <1>1
    <3> QED BY <1>1, <3>1 DEF Successions
  <2> QED BY <1>1, <2>1 DEF Ordered
<1>3. fetch = <<"check">> \o perform
  BY <1>0 DEF Command!CmdUpgradeDownload
<1>4. fetch \in Seq(UpgradeSteps) /\ Ordered(fetch) /\ fetch # <<>> /\ Head(fetch) = "check"
      /\ fetch[Len(fetch)] = "chmod"
  <2> HIDE DEF fetch
  <2>1. perform # <<>> /\ <<"check", perform[1]>> \in Successions /\ "check" \in UpgradeSteps
    BY <1>1 DEF Successions, UpgradeSteps
  <2> QED BY <1>1, <1>2, <1>3, <2>1, StepBefore
<1>5. LET all == fetch \o <<"install">>
      IN  all \in Seq(UpgradeSteps) /\ Ordered(all) /\ all # <<>> /\ Head(all) = "check"
  <2> HIDE DEF fetch
  <2>1. <<fetch[Len(fetch)], "install">> \in Successions /\ "install" \in UpgradeSteps /\ "install" # "create"
    BY <1>4 DEF Successions, UpgradeSteps
  <2>2. fetch \in Seq(UpgradeSteps) /\ fetch # <<>> /\ Ordered(fetch)
    BY <1>4
  <2> QED BY <1>4, <2>1, <2>2, StepAfter
<1>6. LET one == <<"install">>
      IN  one \in Seq(UpgradeSteps) /\ Ordered(one) /\ one # <<>> /\ Head(one) = "install"
  BY DEF UpgradeSteps, Ordered
<1>7. LET two == <<"findDownload", "install">>
      IN  two \in Seq(UpgradeSteps) /\ Ordered(two) /\ two # <<>> /\ Head(two) = "findDownload"
  <2>0. PICK two : two = <<"findDownload", "install">>
    OBVIOUS
  <2>1. two \in Seq(UpgradeSteps) /\ Len(two) = 2 /\ two[1] = "findDownload" /\ two[2] = "install"
        /\ two # <<>> /\ Head(two) = "findDownload"
    BY <2>0 DEF UpgradeSteps
  <2>2. ASSUME NEW i \in 1 .. Len(two) - 1 PROVE <<two[i], two[i + 1]>> \in Successions
    <3>1. i = 1
      BY <2>1
    <3> QED BY <2>1, <3>1 DEF Successions
  <2>3. two[Len(two)] # "create"
    BY <2>1
  <2> QED BY <2>0, <2>1, <2>2, <2>3 DEF Ordered
<1>8. \/ steps = fetch \o <<"install">> \/ steps = fetch
      \/ steps = <<"findDownload", "install">> \/ steps = <<"install">>
  BY DEF Command!CmdUpgrade, Command!CmdUpgradeInstall
<1> HIDE DEF fetch
<1> QED BY <1>4, <1>5, <1>6, <1>7, <1>8

\* Undisturbed, a step of p is the only one, and what it leaves need be looked at for p alone.
LEMMA OnlyOne ==
    ASSUME Installable, UpgradeInv, Undisturbed, NEW p \in Processes, remaining[p] # <<>>
    PROVE  Upgrading /\ \A q \in Processes \ {p} : remaining[q] = <<>> /\ writes[q] = NoDocument
BY DEF UpgradeInv, Upgrading, Engaged, Command!At

LEMMA ActorKeeps ==
    ASSUME NEW p \in Processes,
           \A q \in Processes \ {p} : remaining'[q] = <<>> /\ writes'[q] = NoDocument,
           exe' # NoDocument => exe'.whole, backup' # NoDocument => backup'.whole,
           download' # NoDocument /\ ~download'.whole => Command!At(p, "copy")',
           download' # NoDocument /\ exe' # NoDocument =>
              Command!Newer(download'.release, exe'.release),
           "older" \notin accidents', Engaged(p)'
    PROVE  Upgrading'
<1>1. ASSUME NEW q \in Processes PROVE Engaged(q)'
  <2>1. CASE q = p
    BY <2>1
  <2>2. CASE q # p
    <3>1. remaining'[q] = <<>> /\ writes'[q] = NoDocument
      BY <2>2
    <3> QED BY <3>1 DEF Engaged, Command!At
  <2> QED BY <2>1, <2>2
<1>2. \A r \in Processes : remaining'[r] # <<>> => \A q \in Processes \ {r} : remaining'[q] = <<>>
  OBVIOUS
<1>3. download' # NoDocument /\ ~download'.whole => \E q \in Processes : Command!At(q, "copy")'
  OBVIOUS
<1> QED BY <1>1, <1>2, <1>3 DEF Upgrading, Command!Newer

\* The executable does not go away, but where it is put aside or after an accident.
LEMMA NotAway ==
    ASSUME UpgradeInv, NEW p \in Processes, windows' = windows, accidents \subseteq accidents',
           \A q \in Processes \ {p} : remaining'[q] = remaining[q],
           exe' = NoDocument =>
              \/ exe = NoDocument /\ ~Command!At(p, "replace")
              \/ accidents' \cap {"replace", "rollback"} # {} /\ windows
              \/ windows /\ Command!At(p, "replace")'
    PROVE  SomewhereElse'
<1> SUFFICES ASSUME exe' = NoDocument
             PROVE  /\ windows'
                    /\ \/ accidents' \cap {"replace", "rollback", "overlap"} # {}
                       \/ \E q \in Processes : Command!At(q, "replace")'
  BY DEF SomewhereElse
<1>1. CASE exe = NoDocument /\ ~Command!At(p, "replace")
  <2>1. windows /\ (\/ accidents \cap {"replace", "rollback", "overlap"} # {}
                    \/ \E q \in Processes : Command!At(q, "replace"))
    BY <1>1 DEF UpgradeInv, SomewhereElse
  <2>2. ASSUME NEW q \in Processes, Command!At(q, "replace") PROVE Command!At(q, "replace")'
    <3>1. q # p
      BY <1>1, <2>2
    <3> QED BY <2>2, <3>1 DEF Command!At
  <2> QED BY <2>1, <2>2
<1> QED BY <1>1

\* What the executable and the other files may be; the rest of a step is this.
LEMMA TypesOfStep ==
    ASSUME UpgradeTypes, NEW p \in Processes, NEW steps \in Seq(UpgradeSteps), Ordered(steps),
           NEW place \in {NoDocument, "download", "exe", "gone"}, NEW wanted \in Int,
           remaining' = [remaining EXCEPT ![p] = steps],
           writes' = [writes EXCEPT ![p] = place], wants' = [wants EXCEPT ![p] = wanted],
           {exe', backup', download'} \subseteq Releases \cup {NoDocument},
           UNCHANGED <<windows, latest, runs>>
    PROVE  /\ UpgradeTypes'
           /\ remaining'[p] = steps /\ writes'[p] = place /\ wants'[p] = wanted
           /\ \A q \in Processes \ {p} : /\ remaining'[q] = remaining[q]
                                         /\ writes'[q] = writes[q] /\ wants'[q] = wants[q]
<1>1. /\ remaining' \in [Processes -> Seq(UpgradeSteps)] /\ remaining'[p] = steps
      /\ \A q \in Processes \ {p} : remaining'[q] = remaining[q]
  BY DEF UpgradeTypes
<1>2. /\ writes' \in [Processes -> {NoDocument, "download", "exe", "gone"}] /\ writes'[p] = place
      /\ \A q \in Processes \ {p} : writes'[q] = writes[q]
  BY DEF UpgradeTypes
<1>3. /\ wants' \in [Processes -> Int] /\ wants'[p] = wanted
      /\ \A q \in Processes \ {p} : wants'[q] = wants[q]
  BY DEF UpgradeTypes
<1>4. \A q \in Processes : Ordered(remaining'[q])
  BY <1>1 DEF UpgradeTypes
<1> QED BY <1>1, <1>2, <1>3, <1>4 DEF UpgradeTypes

\* A step that leaves the files alone.
LEMMA LooksKeep ==
    ASSUME Installable, UpgradeInv, NEW p \in Processes,
           \/ Command!CheckUpgrade(p) \/ Command!FindAsset(p) \/ Command!FindDownload(p)
           \/ Command!GiveUp(p) \/ Command!Chmod(p)
    PROVE  UpgradeInv'
<1> DEFINE left == Tail(remaining[p])
           here == Head(remaining[p])
<1>1. UpgradeTypes /\ remaining[p] \in Seq(UpgradeSteps) /\ Ordered(remaining[p])
  BY DEF UpgradeInv, UpgradeTypes
<1>2. /\ remaining[p] # <<>>
      /\ here \in {"check", "findAsset", "findDownload", "create", "chmod", "install"}
      /\ UNCHANGED <<windows, latest, exe, backup, download, runs, writes, accidents>>
      /\ \/ remaining' = [remaining EXCEPT ![p] = <<>>] /\ UNCHANGED wants
         \/ /\ remaining' = [remaining EXCEPT ![p] = left]
            /\ \/ here \in {"check", "findDownload", "chmod"} /\ UNCHANGED wants
               \/ /\ here = "findAsset" /\ wants' = [wants EXCEPT ![p] = latest]
                  /\ Command!Newer(latest, runs[p])
  BY DEF Command!CheckUpgrade, Command!FindAsset, Command!FindDownload, Command!GiveUp,
         Command!Chmod, Command!At, Command!Goes, Command!GoesOn, Command!Available
<1>3. left \in Seq(UpgradeSteps) /\ Ordered(left)
      /\ (left # <<>> => <<here, Head(left)>> \in Successions)
  BY <1>1, <1>2, StepsLeft
<1> HIDE DEF left, here
<1>4. PICK steps \in Seq(UpgradeSteps), wanted \in Int :
         /\ Ordered(steps) /\ remaining' = [remaining EXCEPT ![p] = steps]
         /\ wants' = [wants EXCEPT ![p] = wanted]
         /\ \/ steps = <<>>
            \/ /\ Head(steps) \in {"findAsset", "create", "install"}
               /\ Head(steps) = "create" => Command!Newer(wanted, runs[p])
  <2>1. wants \in [Processes -> Int] /\ wants[p] \in Int /\ latest \in Int
    BY <1>1 DEF UpgradeTypes
  <2>2. UNCHANGED wants => wants' = [wants EXCEPT ![p] = wants[p]]
    BY <2>1
  <2>3. CASE remaining' = [remaining EXCEPT ![p] = <<>>] /\ UNCHANGED wants
    <3>1. <<>> \in Seq(UpgradeSteps) /\ Ordered(<<>>)
      BY DEF Ordered
    <3> QED BY <2>1, <2>2, <2>3, <3>1
  <2>4. CASE /\ remaining' = [remaining EXCEPT ![p] = left]
             /\ here \in {"check", "findDownload", "chmod"} /\ UNCHANGED wants
    <3>1. left = <<>> \/ Head(left) \in {"findAsset", "install"}
      BY <1>3, <2>4 DEF Successions
    <3> QED BY <1>3, <2>1, <2>2, <2>4, <3>1
  <2>5. CASE /\ remaining' = [remaining EXCEPT ![p] = left]
             /\ here = "findAsset" /\ wants' = [wants EXCEPT ![p] = latest]
             /\ Command!Newer(latest, runs[p])
    <3>1. left = <<>> \/ Head(left) = "create"
      BY <1>3, <2>5 DEF Successions
    <3> QED BY <1>3, <2>1, <2>5, <3>1
  <2> QED BY <1>2, <2>3, <2>4, <2>5
<1>5. writes' = [writes EXCEPT ![p] = writes[p]]
      /\ writes[p] \in {NoDocument, "download", "exe", "gone"}
      /\ {exe', backup', download'} \subseteq Releases \cup {NoDocument}
  BY <1>1, <1>2 DEF UpgradeTypes
<1>6. /\ UpgradeTypes'
      /\ remaining'[p] = steps /\ writes'[p] = writes[p] /\ wants'[p] = wanted
      /\ \A q \in Processes \ {p} : remaining'[q] = remaining[q] /\ writes'[q] = writes[q]
  BY <1>1, <1>2, <1>4, <1>5, TypesOfStep
<1>7. SomewhereElse'
  <2>1. ~Command!At(p, "replace")
    BY <1>2 DEF Command!At, here
  <2> QED BY <1>2, <1>6, <2>1, NotAway
<1>8. ASSUME Undisturbed' PROVE Upgrading'
  <2>1. Undisturbed
    BY <1>2, <1>8 DEF Undisturbed
  <2>2. Upgrading /\ \A q \in Processes \ {p} : remaining[q] = <<>> /\ writes[q] = NoDocument
    BY <1>2, <2>1, OnlyOne
  <2>3. ~Command!At(p, "copy") /\ ~Command!At(p, "replace") /\ ~Command!At(p, "removeOld")
    BY <1>2 DEF Command!At, here
  <2>4. writes[p] = NoDocument /\ exe # NoDocument /\ exe.release = runs[p]
    BY <1>2, <2>2, <2>3 DEF Upgrading, Engaged
  <2>5. \A q \in Processes : ~Command!At(q, "copy")
    BY <2>2, <2>3 DEF Command!At
  <2>6. /\ ~Command!At(p, "copy")' /\ ~Command!At(p, "replace")'
        /\ Command!At(p, "create")' => Command!Newer(wants'[p], runs'[p])
    BY <1>2, <1>4, <1>6 DEF Command!At
  <2>7. Engaged(p)'
    BY <1>2, <1>6, <2>4, <2>6 DEF Engaged
  <2>8. /\ exe' # NoDocument => exe'.whole
        /\ backup' # NoDocument => backup'.whole
        /\ ~(download' # NoDocument /\ ~download'.whole)
        /\ download' # NoDocument /\ exe' # NoDocument =>
              Command!Newer(download'.release, exe'.release)
        /\ "older" \notin accidents'
    BY <1>2, <2>2, <2>5 DEF Upgrading
  <2>9. \A q \in Processes \ {p} : remaining'[q] = <<>> /\ writes'[q] = NoDocument
    BY <1>6, <2>2
  <2> QED BY <2>7, <2>8, <2>9, ActorKeeps
<1>9. Written'
  BY <1>2 DEF UpgradeInv, Written
<1> QED BY <1>6, <1>7, <1>8, <1>9 DEF UpgradeInv

\* The download is created: it is that of the release that was found.
LEMMA CreateKeeps ==
    ASSUME Installable, UpgradeInv, NEW p \in Processes, Command!CreateDownload(p)
    PROVE  UpgradeInv'
<1> DEFINE left == Tail(remaining[p])
           here == Head(remaining[p])
<1>1. UpgradeTypes /\ remaining[p] \in Seq(UpgradeSteps) /\ Ordered(remaining[p])
      /\ wants[p] \in Int /\ wants \in [Processes -> Int]
  BY DEF UpgradeInv, UpgradeTypes
<1>2. /\ remaining[p] # <<>> /\ here = "create"
      /\ download' = Command!File(wants[p], FALSE,
                                  \E q \in Command!Writing("download") : wants[q] # wants[p])
      /\ writes' = [writes EXCEPT ![p] = "download"] /\ remaining' = [remaining EXCEPT ![p] = left]
      /\ UNCHANGED <<windows, latest, exe, backup, runs, wants, accidents>>
  BY DEF Command!CreateDownload, Command!At, Command!Goes, Command!GoesOn
<1>3. left \in Seq(UpgradeSteps) /\ Ordered(left) /\ left # <<>> /\ Head(left) = "copy"
  BY <1>1, <1>2, StepsLeft DEF Successions
<1> HIDE DEF left, here
<1>4. PICK mixed \in BOOLEAN :
         /\ mixed <=> \E q \in Command!Writing("download") : wants[q] # wants[p]
         /\ download' = [release |-> wants[p], whole |-> FALSE, mixed |-> mixed]
  <2>1. CASE \E q \in Command!Writing("download") : wants[q] # wants[p]
    BY <1>2, <2>1, Zenon DEF Command!File
  <2>2. CASE ~\E q \in Command!Writing("download") : wants[q] # wants[p]
    BY <1>2, <2>2, Zenon DEF Command!File
  <2> QED BY <2>1, <2>2
<1>5. /\ download' \in Releases /\ download' # NoDocument /\ download'.release = wants[p]
      /\ download'.mixed = mixed /\ download'.whole = FALSE
  <2>1. PICK image : image = [release |-> wants[p], whole |-> FALSE, mixed |-> mixed]
    OBVIOUS
  <2>2. image \in Releases /\ image.release = wants[p] /\ image.mixed = mixed /\ image.whole = FALSE
    BY <1>1, <2>1 DEF Releases
  <2> QED BY <1>4, <2>1, <2>2 DEF Installable
<1>6. /\ UpgradeTypes'
      /\ remaining'[p] = left /\ writes'[p] = "download" /\ wants'[p] = wants[p]
      /\ \A q \in Processes \ {p} : remaining'[q] = remaining[q] /\ writes'[q] = writes[q]
  <2>1. wants' = [wants EXCEPT ![p] = wants[p]]
    BY <1>1, <1>2
  <2>2. {exe', backup', download'} \subseteq Releases \cup {NoDocument}
    BY <1>1, <1>2, <1>5 DEF UpgradeTypes
  <2> QED BY <1>1, <1>2, <1>3, <2>1, <2>2, TypesOfStep
<1>7. SomewhereElse'
  <2>1. ~Command!At(p, "replace")
    BY <1>2 DEF Command!At, here
  <2> QED BY <1>2, <1>6, <2>1, NotAway
<1>8. Written'
  BY <1>2, <1>5, <1>6 DEF UpgradeInv, Written
<1>9. ASSUME Undisturbed' PROVE Upgrading'
  <2>1. Undisturbed
    BY <1>2, <1>9 DEF Undisturbed
  <2>2. Upgrading /\ \A q \in Processes \ {p} : remaining[q] = <<>> /\ writes[q] = NoDocument
    BY <1>2, <2>1, OnlyOne
  <2>3. Command!At(p, "create") /\ ~Command!At(p, "copy") /\ ~Command!At(p, "replace")
        /\ ~Command!At(p, "removeOld")
    BY <1>2 DEF Command!At, here
  <2>4. writes[p] = NoDocument /\ exe # NoDocument /\ exe.release = runs[p]
        /\ Command!Newer(wants[p], runs[p])
    BY <1>2, <2>2, <2>3 DEF Upgrading, Engaged
  <2>5. mixed = FALSE
    BY <1>4, <2>2, <2>4 DEF Command!Writing, Installable
  <2>6. Command!At(p, "copy")' /\ ~Command!At(p, "replace")' /\ ~Command!At(p, "create")'
    BY <1>3, <1>6 DEF Command!At
  <2>7. Engaged(p)'
    BY <1>2, <1>5, <1>6, <2>4, <2>5, <2>6 DEF Engaged, Command!Newer
  <2>8. /\ exe' # NoDocument => exe'.whole
        /\ backup' # NoDocument => backup'.whole
        /\ download' # NoDocument /\ exe' # NoDocument =>
              Command!Newer(download'.release, exe'.release)
        /\ "older" \notin accidents'
    BY <1>2, <1>5, <2>2, <2>4 DEF Upgrading
  <2>9. \A q \in Processes \ {p} : remaining'[q] = <<>> /\ writes'[q] = NoDocument
    BY <1>6, <2>2
  <2> QED BY <2>6, <2>7, <2>8, <2>9, ActorKeeps
<1> QED BY <1>6, <1>7, <1>8, <1>9 DEF UpgradeInv

\* A command is killed, or its copy fails: what it was doing is an accident.
LEMMA KilledKeeps ==
    ASSUME Installable, UpgradeInv, NEW p \in Processes, Command!Kill(p) \/ Command!CopyFails(p)
    PROVE  UpgradeInv'
<1> DEFINE here == Head(remaining[p])
<1>1. UpgradeTypes /\ wants[p] \in Int /\ wants \in [Processes -> Int]
  BY DEF UpgradeInv, UpgradeTypes
<1>2. /\ remaining[p] # <<>>
      /\ remaining' = [remaining EXCEPT ![p] = <<>>]
      /\ writes' = [writes EXCEPT ![p] = NoDocument]
      /\ accidents' = accidents \cup ({here} \cap {"copy", "replace"})
      /\ UNCHANGED <<windows, latest, exe, backup, download, runs, wants>>
  BY DEF Command!Kill, Command!CopyFails, Command!At, Command!Goes, Command!Happens
<1> HIDE DEF here
<1>3. /\ UpgradeTypes'
      /\ remaining'[p] = <<>> /\ writes'[p] = NoDocument
      /\ \A q \in Processes \ {p} : remaining'[q] = remaining[q] /\ writes'[q] = writes[q]
  <2>1. wants' = [wants EXCEPT ![p] = wants[p]]
    BY <1>1, <1>2
  <2>2. {exe', backup', download'} \subseteq Releases \cup {NoDocument}
    BY <1>1, <1>2 DEF UpgradeTypes
  <2>3. PICK none \in Seq(UpgradeSteps) : none = <<>> /\ Ordered(none)
    <3>1. <<>> \in Seq(UpgradeSteps) /\ Ordered(<<>>)
      BY DEF Ordered
    <3> QED BY <3>1
  <2>4. PICK place \in {NoDocument, "download", "exe", "gone"} : place = NoDocument
    OBVIOUS
  <2>5. /\ remaining' = [remaining EXCEPT ![p] = none]
        /\ writes' = [writes EXCEPT ![p] = place] /\ UNCHANGED <<windows, latest, runs>>
    BY <1>2, <2>3, <2>4
  <2> QED BY <1>1, <2>1, <2>2, <2>3, <2>4, <2>5, TypesOfStep
<1>4. SomewhereElse'
  <2>1. Command!At(p, "replace") => "replace" \in accidents'
    BY <1>2 DEF Command!At, here
  <2>2. exe = NoDocument => windows
    BY DEF UpgradeInv, SomewhereElse
  <2> QED BY <1>2, <1>3, <2>1, <2>2, NotAway
<1>5. Written'
  BY <1>2, <1>3 DEF UpgradeInv, Written, Installable
<1>6. ASSUME Undisturbed' PROVE Upgrading'
  <2>1. Undisturbed /\ here # "copy"
    BY <1>2, <1>6 DEF Undisturbed
  <2>2. Upgrading /\ \A q \in Processes \ {p} : remaining[q] = <<>> /\ writes[q] = NoDocument
    BY <1>2, <2>1, OnlyOne
  <2>3. \A q \in Processes : ~Command!At(q, "copy")
    BY <2>1, <2>2 DEF Command!At, here
  <2>4. Engaged(p)'
    BY <1>3 DEF Engaged, Command!At
  <2>5. /\ exe' # NoDocument => exe'.whole
        /\ backup' # NoDocument => backup'.whole
        /\ ~(download' # NoDocument /\ ~download'.whole)
        /\ download' # NoDocument /\ exe' # NoDocument =>
              Command!Newer(download'.release, exe'.release)
        /\ "older" \notin accidents'
    BY <1>2, <2>2, <2>3 DEF Upgrading
  <2>6. \A q \in Processes \ {p} : remaining'[q] = <<>> /\ writes'[q] = NoDocument
    BY <1>3, <2>2
  <2> QED BY <2>4, <2>5, <2>6, ActorKeeps
<1> QED BY <1>3, <1>4, <1>5, <1>6 DEF UpgradeInv

\* A copy ends: alone, it leaves a whole file.
LEMMA CopiedKeeps ==
    ASSUME Installable, UpgradeInv, NEW p \in Processes, Command!CopyEnds(p)
    PROVE  UpgradeInv'
<1> DEFINE left == Tail(remaining[p])
           here == Head(remaining[p])
<1>1. UpgradeTypes /\ remaining[p] \in Seq(UpgradeSteps) /\ Ordered(remaining[p])
      /\ wants[p] \in Int /\ wants \in [Processes -> Int]
  BY DEF UpgradeInv, UpgradeTypes
<1>2. /\ remaining[p] # <<>> /\ here = "copy"
      /\ download' = IF writes[p] = "download" THEN Command!Completed(p, download) ELSE download
      /\ exe' = IF writes[p] = "exe" THEN Command!Completed(p, exe) ELSE exe
      /\ writes' = [writes EXCEPT ![p] = NoDocument] /\ remaining' = [remaining EXCEPT ![p] = left]
      /\ UNCHANGED <<windows, latest, backup, runs, wants, accidents>>
  BY DEF Command!CopyEnds, Command!At, Command!Goes, Command!GoesOn
<1>3. left \in Seq(UpgradeSteps) /\ Ordered(left) /\ (left # <<>> => Head(left) = "chmod")
  BY <1>1, <1>2, StepsLeft DEF Successions
<1> HIDE DEF left, here
<1>4. /\ writes[p] = "download" => download # NoDocument
      /\ writes[p] = "exe" => exe # NoDocument
  BY DEF UpgradeInv, Written, SomewhereElse
<1>5. ASSUME NEW image \in Releases
      PROVE  LET made == Command!Completed(p, image)
             IN  /\ made \in Releases /\ made # NoDocument
                 /\ made.release = image.release /\ made.mixed = image.mixed
                 /\ made.whole <=> /\ Command!Writing(writes[p]) = {p}
                                   /\ image.release = wants[p] /\ ~image.mixed
  <2>1. PICK whole \in BOOLEAN :
           /\ whole <=> /\ Command!Writing(writes[p]) = {p}
                        /\ image.release = wants[p] /\ ~image.mixed
           /\ Command!Completed(p, image) = [image EXCEPT !.whole = whole]
    <3>1. CASE Command!Writing(writes[p]) = {p} /\ image.release = wants[p] /\ ~image.mixed
      BY <3>1, Zenon DEF Command!Completed
    <3>2. CASE ~(Command!Writing(writes[p]) = {p} /\ image.release = wants[p] /\ ~image.mixed)
      BY <3>2, Zenon DEF Command!Completed
    <3> QED BY <3>1, <3>2
  <2>2. LET made == [image EXCEPT !.whole = whole]
        IN  made \in Releases /\ made.release = image.release /\ made.mixed = image.mixed
            /\ made.whole = whole
    BY DEF Releases
  <2> QED BY <2>1, <2>2 DEF Installable
<1>6. /\ {exe', backup', download'} \subseteq Releases \cup {NoDocument}
      /\ exe' # NoDocument <=> exe # NoDocument
      /\ download' # NoDocument <=> download # NoDocument
  <2>1. {exe, backup, download} \subseteq Releases \cup {NoDocument}
    BY <1>1 DEF UpgradeTypes
  <2>2. exe' \in Releases \cup {NoDocument} /\ (exe' # NoDocument <=> exe # NoDocument)
    BY <1>2, <1>4, <1>5, <2>1
  <2>3. download' \in Releases \cup {NoDocument}
        /\ (download' # NoDocument <=> download # NoDocument)
    BY <1>2, <1>4, <1>5, <2>1
  <2> QED BY <1>2, <2>1, <2>2, <2>3
<1>7. /\ UpgradeTypes'
      /\ remaining'[p] = left /\ writes'[p] = NoDocument
      /\ \A q \in Processes \ {p} : remaining'[q] = remaining[q] /\ writes'[q] = writes[q]
  <2>1. wants' = [wants EXCEPT ![p] = wants[p]]
    BY <1>1, <1>2
  <2>2. PICK place \in {NoDocument, "download", "exe", "gone"} : place = NoDocument
    OBVIOUS
  <2>3. /\ remaining' = [remaining EXCEPT ![p] = left]
        /\ writes' = [writes EXCEPT ![p] = place] /\ UNCHANGED <<windows, latest, runs>>
    BY <1>2, <2>2
  <2> QED BY <1>1, <1>3, <1>6, <2>1, <2>2, <2>3, TypesOfStep
<1>8. SomewhereElse'
  <2>1. ~Command!At(p, "replace")
    BY <1>2 DEF Command!At, here
  <2> QED BY <1>2, <1>6, <1>7, <2>1, NotAway
<1>9. Written'
  BY <1>2, <1>6, <1>7 DEF UpgradeInv, Written, Installable
<1>10. ASSUME Undisturbed' PROVE Upgrading'
  <2>1. Undisturbed
    BY <1>2, <1>10 DEF Undisturbed
  <2>2. Upgrading /\ \A q \in Processes \ {p} : remaining[q] = <<>> /\ writes[q] = NoDocument
    BY <1>2, <2>1, OnlyOne
  <2>3. Command!At(p, "copy") /\ ~Command!At(p, "replace") /\ ~Command!At(p, "removeOld")
    BY <1>2 DEF Command!At, here
  <2>4. /\ writes[p] = "download" /\ download # NoDocument /\ ~download.mixed
        /\ download.release = wants[p] /\ exe # NoDocument /\ exe.release = runs[p]
    BY <1>2, <2>2, <2>3 DEF Upgrading, Engaged
  <2>5. exe' = exe
    BY <1>2, <2>4
  <2>6. Command!Writing(writes[p]) = {p}
    BY <2>2, <2>4 DEF Command!Writing, Installable
  <2>7. download'.whole /\ download'.release = download.release /\ download \in Releases
    <3>1. download \in Releases
      BY <1>1, <2>4 DEF UpgradeTypes
    <3>2. download' = Command!Completed(p, download)
      BY <1>2, <2>4
    <3> QED BY <1>5, <2>4, <2>6, <3>1, <3>2
  <2>8. ~Command!At(p, "copy")' /\ ~Command!At(p, "replace")' /\ ~Command!At(p, "create")'
    BY <1>3, <1>7 DEF Command!At
  <2>9. Engaged(p)'
    BY <1>2, <1>7, <2>4, <2>5, <2>8 DEF Engaged
  <2>10. /\ exe' # NoDocument => exe'.whole
         /\ backup' # NoDocument => backup'.whole
         /\ ~(download' # NoDocument /\ ~download'.whole)
         /\ download' # NoDocument /\ exe' # NoDocument =>
               Command!Newer(download'.release, exe'.release)
         /\ "older" \notin accidents'
    BY <1>2, <2>2, <2>4, <2>5, <2>7 DEF Upgrading
  <2>11. \A q \in Processes \ {p} : remaining'[q] = <<>> /\ writes'[q] = NoDocument
    BY <1>7, <2>2
  <2> QED BY <2>9, <2>10, <2>11, ActorKeeps
<1> QED BY <1>7, <1>8, <1>9, <1>10 DEF UpgradeInv

LEMMA TypesOfRename ==
    ASSUME UpgradeTypes, NEW p \in Processes, NEW steps \in Seq(UpgradeSteps), Ordered(steps),
           remaining' = [remaining EXCEPT ![p] = steps],
           writes' \in [Processes -> {NoDocument, "download", "exe", "gone"}],
           {exe', backup', download'} \subseteq Releases \cup {NoDocument},
           UNCHANGED <<windows, latest, runs, wants>>
    PROVE  /\ UpgradeTypes' /\ remaining'[p] = steps
           /\ \A q \in Processes \ {p} : remaining'[q] = remaining[q]
<1>1. /\ remaining' \in [Processes -> Seq(UpgradeSteps)] /\ remaining'[p] = steps
      /\ \A q \in Processes \ {p} : remaining'[q] = remaining[q]
  BY DEF UpgradeTypes
<1>2. \A q \in Processes : Ordered(remaining'[q])
  BY <1>1 DEF UpgradeTypes
<1> QED BY <1>1, <1>2 DEF UpgradeTypes

\* One rename replaces the executable, by a newer one.
LEMMA InstallKeeps ==
    ASSUME Installable, UpgradeInv, NEW p \in Processes, Command!InstallUpgrade(p)
    PROVE  UpgradeInv'
<1> DEFINE here == Head(remaining[p])
<1>1. UpgradeTypes /\ Written
  BY DEF UpgradeInv
<1>2. /\ ~windows /\ remaining[p] # <<>> /\ here = "install" /\ download # NoDocument
      /\ exe' = download /\ download' = NoDocument /\ writes' = Command!Moved
      /\ accidents' = accidents \cup Command!Older(download, exe)
      /\ remaining' = [remaining EXCEPT ![p] = <<>>]
      /\ UNCHANGED <<windows, latest, backup, runs, wants>>
  BY DEF Command!InstallUpgrade, Command!At, Command!Goes
<1> HIDE DEF here
<1>3. /\ writes' \in [Processes -> {NoDocument, "download", "exe", "gone"}]
      /\ \A q \in Processes : /\ writes'[q] # "download"
                              /\ writes[q] = NoDocument => writes'[q] = NoDocument
  <2>1. ASSUME NEW q \in Processes
        PROVE  writes[q] \in {NoDocument, "download", "exe", "gone"}
    BY <1>1 DEF UpgradeTypes
  <2> QED BY <1>2, <2>1 DEF Command!Moved, Installable
<1>4. /\ UpgradeTypes' /\ remaining'[p] = <<>>
      /\ \A q \in Processes \ {p} : remaining'[q] = remaining[q]
  <2>1. PICK none \in Seq(UpgradeSteps) : none = <<>> /\ Ordered(none)
    <3>1. <<>> \in Seq(UpgradeSteps) /\ Ordered(<<>>)
      BY DEF Ordered
    <3> QED BY <3>1
  <2>2. {exe', backup', download'} \subseteq Releases \cup {NoDocument}
    BY <1>1, <1>2 DEF UpgradeTypes
  <2>3. remaining' = [remaining EXCEPT ![p] = none] /\ UNCHANGED <<windows, latest, runs, wants>>
    BY <1>2, <2>1
  <2> QED BY <1>1, <1>3, <2>1, <2>2, <2>3, TypesOfRename
<1>5. SomewhereElse'
  BY <1>2 DEF SomewhereElse
<1>6. Written'
  BY <1>2, <1>3 DEF Written
<1>7. ASSUME Undisturbed' PROVE Upgrading'
  <2>1. Undisturbed
    BY <1>2, <1>7 DEF Undisturbed
  <2>2. Upgrading /\ \A q \in Processes \ {p} : remaining[q] = <<>> /\ writes[q] = NoDocument
    BY <1>2, <2>1, OnlyOne
  <2>3. ~Command!At(p, "copy") /\ ~Command!At(p, "replace") /\ ~Command!At(p, "removeOld")
    BY <1>2 DEF Command!At, here
  <2>4. writes[p] = NoDocument /\ exe # NoDocument
    BY <1>2, <2>2, <2>3 DEF Upgrading, Engaged
  <2>5. download.whole
    BY <1>2, <2>2, <2>3 DEF Upgrading, Command!At
  <2>6. Command!Older(download, exe) = {}
    BY <1>2, <2>2, <2>4 DEF Upgrading, Command!Older
  <2>7. Engaged(p)'
    BY <1>3, <1>4, <2>4 DEF Engaged, Command!At
  <2>8. /\ exe' # NoDocument => exe'.whole
        /\ backup' # NoDocument => backup'.whole
        /\ download' = NoDocument
        /\ "older" \notin accidents'
    BY <1>2, <2>2, <2>5, <2>6 DEF Upgrading
  <2>9. \A q \in Processes \ {p} : remaining'[q] = <<>> /\ writes'[q] = NoDocument
    BY <1>3, <1>4, <2>2
  <2> QED BY <2>7, <2>8, <2>9, ActorKeeps
<1> QED BY <1>4, <1>5, <1>6, <1>7 DEF UpgradeInv

\* Where it takes two, the first leaves no executable, and the command at the second.
LEMMA PutAsideKeeps ==
    ASSUME Installable, UpgradeInv, NEW p \in Processes, Command!PutAside(p)
    PROVE  UpgradeInv'
<1> DEFINE here == Head(remaining[p])
<1>1. UpgradeTypes /\ Written
  BY DEF UpgradeInv
<1>2. /\ windows /\ remaining[p] # <<>> /\ here = "install" /\ exe # NoDocument
      /\ backup' = exe /\ exe' = NoDocument
      /\ remaining' = [remaining EXCEPT ![p] = <<"replace", "removeOld">>]
      /\ UNCHANGED <<windows, latest, download, runs, wants, writes, accidents>>
  BY DEF Command!PutAside, Command!At, Command!Goes
<1> HIDE DEF here
<1>3. PICK two \in Seq(UpgradeSteps) :
         two = <<"replace", "removeOld">> /\ Ordered(two) /\ two # <<>> /\ Head(two) = "replace"
  <2>1. PICK two : two = <<"replace", "removeOld">>
    OBVIOUS
  <2>2. two \in Seq(UpgradeSteps) /\ Len(two) = 2 /\ two[1] = "replace" /\ two[2] = "removeOld"
        /\ two # <<>> /\ Head(two) = "replace"
    BY <2>1 DEF UpgradeSteps
  <2>3. ASSUME NEW i \in 1 .. Len(two) - 1 PROVE <<two[i], two[i + 1]>> \in Successions
    <3>1. i = 1
      BY <2>2
    <3> QED BY <2>2, <3>1 DEF Successions
  <2>4. two[Len(two)] # "create"
    BY <2>2
  <2> QED BY <2>1, <2>2, <2>3, <2>4 DEF Ordered
<1>4. /\ UpgradeTypes' /\ remaining'[p] = two
      /\ \A q \in Processes \ {p} : remaining'[q] = remaining[q]
  <2>1. {exe', backup', download'} \subseteq Releases \cup {NoDocument}
        /\ writes' \in [Processes -> {NoDocument, "download", "exe", "gone"}]
    BY <1>1, <1>2 DEF UpgradeTypes
  <2>2. remaining' = [remaining EXCEPT ![p] = two] /\ UNCHANGED <<windows, latest, runs, wants>>
    BY <1>2, <1>3
  <2> QED BY <1>1, <1>3, <2>1, <2>2, TypesOfRename
<1>5. Command!At(p, "replace")' /\ ~Command!At(p, "copy")' /\ ~Command!At(p, "create")'
  BY <1>3, <1>4 DEF Command!At
<1>6. SomewhereElse'
  BY <1>2, <1>5 DEF SomewhereElse
<1>7. Written'
  BY <1>1, <1>2 DEF Written
<1>8. ASSUME Undisturbed' PROVE Upgrading'
  <2>1. Undisturbed
    BY <1>2, <1>8 DEF Undisturbed
  <2>2. Upgrading /\ \A q \in Processes \ {p} : remaining[q] = <<>> /\ writes[q] = NoDocument
    BY <1>2, <2>1, OnlyOne
  <2>3. ~Command!At(p, "copy")
    BY <1>2 DEF Command!At, here
  <2>4. writes[p] = NoDocument
    BY <2>2, <2>3 DEF Upgrading, Engaged
  <2>5. \A q \in Processes : ~Command!At(q, "copy")
    BY <2>2, <2>3 DEF Command!At
  <2>6. download' # NoDocument => Command!Newer(download'.release, backup'.release)
    BY <1>2, <2>2 DEF Upgrading
  <2>7. Engaged(p)'
    BY <1>2, <1>5, <2>4, <2>6 DEF Engaged, Command!Newer
  <2>8. /\ exe' = NoDocument
        /\ backup' # NoDocument => backup'.whole
        /\ ~(download' # NoDocument /\ ~download'.whole)
        /\ "older" \notin accidents'
    BY <1>2, <2>2, <2>5 DEF Upgrading
  <2>9. \A q \in Processes \ {p} : remaining'[q] = <<>> /\ writes'[q] = NoDocument
    BY <1>2, <1>4, <2>2
  <2> QED BY <2>7, <2>8, <2>9, ActorKeeps
<1> QED BY <1>4, <1>6, <1>7, <1>8 DEF UpgradeInv

\* The second puts the new one there, a newer one than that put aside; or the old one goes back.
LEMMA ReplaceKeeps ==
    ASSUME Installable, UpgradeInv, NEW p \in Processes,
           Command!Replace(p) \/ Command!PutBack(p)
    PROVE  UpgradeInv'
<1> DEFINE left == Tail(remaining[p])
           here == Head(remaining[p])
           Newcomer == /\ download # NoDocument /\ Command!Writing("download") = {}
                       /\ exe' = download /\ download' = NoDocument
                       /\ accidents' = accidents \cup Command!Older(download, backup)
                       /\ remaining' = [remaining EXCEPT ![p] = left] /\ UNCHANGED backup
           Former == /\ \/ /\ backup # NoDocument /\ exe' = backup /\ backup' = NoDocument
                           /\ UNCHANGED accidents
                        \/ accidents' = accidents \cup {"rollback"} /\ UNCHANGED <<exe, backup>>
                     /\ remaining' = [remaining EXCEPT ![p] = <<>>] /\ UNCHANGED download
<1>1. UpgradeTypes /\ Written /\ remaining[p] \in Seq(UpgradeSteps) /\ Ordered(remaining[p])
  BY DEF UpgradeInv, UpgradeTypes
<1>2. /\ remaining[p] # <<>> /\ here = "replace"
      /\ Newcomer \/ Former
      /\ UNCHANGED <<windows, latest, runs, wants, writes>>
  BY DEF Command!Replace, Command!PutBack, Command!At, Command!Goes, Command!GoesOn,
         Command!Happens
<1>3. left \in Seq(UpgradeSteps) /\ Ordered(left) /\ (left # <<>> => Head(left) = "removeOld")
  BY <1>1, <1>2, StepsLeft DEF Successions
<1> HIDE DEF left, here
<1>4. PICK steps \in Seq(UpgradeSteps) :
         /\ Ordered(steps) /\ remaining' = [remaining EXCEPT ![p] = steps]
         /\ steps # <<>> => Head(steps) = "removeOld"
  <2>1. <<>> \in Seq(UpgradeSteps) /\ Ordered(<<>>)
    BY DEF Ordered
  <2> QED BY <1>2, <1>3, <2>1
<1>5. /\ UpgradeTypes' /\ remaining'[p] = steps
      /\ \A q \in Processes \ {p} : remaining'[q] = remaining[q]
  <2>1. {exe', backup', download'} \subseteq Releases \cup {NoDocument}
        /\ writes' \in [Processes -> {NoDocument, "download", "exe", "gone"}]
    BY <1>1, <1>2 DEF UpgradeTypes
  <2>2. UNCHANGED <<windows, latest, runs, wants>>
    BY <1>2
  <2> QED BY <1>1, <1>4, <2>1, <2>2, TypesOfRename
<1>6. SomewhereElse'
  <2>1. exe' = NoDocument => exe = NoDocument /\ "rollback" \in accidents'
    BY <1>2
  <2>2. exe = NoDocument => windows
    BY DEF UpgradeInv, SomewhereElse
  <2> QED BY <1>2, <2>1, <2>2 DEF SomewhereElse
<1>7. Written'
  <2>1. CASE Newcomer
    BY <1>1, <1>2, <2>1 DEF Written, Command!Writing
  <2>2. CASE Former
    BY <1>1, <1>2, <2>2 DEF Written
  <2> QED BY <1>2, <2>1, <2>2
<1>8. ASSUME Undisturbed' PROVE Upgrading'
  <2>1. Undisturbed
    BY <1>2, <1>8 DEF Undisturbed
  <2>2. Upgrading /\ \A q \in Processes \ {p} : remaining[q] = <<>> /\ writes[q] = NoDocument
    BY <1>2, <2>1, OnlyOne
  <2>3. Command!At(p, "replace") /\ ~Command!At(p, "copy") /\ ~Command!At(p, "removeOld")
    BY <1>2 DEF Command!At, here
  <2>4. /\ writes[p] = NoDocument /\ exe = NoDocument /\ backup # NoDocument
        /\ download # NoDocument => Command!Newer(download.release, backup.release)
    BY <1>2, <2>2, <2>3 DEF Upgrading, Engaged
  <2>5. \A q \in Processes : ~Command!At(q, "copy")
    BY <2>2, <2>3 DEF Command!At
  <2>6. ~Command!At(p, "copy")' /\ ~Command!At(p, "create")'
        /\ (remaining'[p] = <<>> \/ Command!At(p, "removeOld")')
    BY <1>4, <1>5 DEF Command!At
  <2>7. Engaged(p)'
    BY <1>2, <2>4, <2>6 DEF Engaged
  <2>8. /\ exe' # NoDocument => exe'.whole
        /\ backup' # NoDocument => backup'.whole
        /\ ~(download' # NoDocument /\ ~download'.whole)
        /\ download' # NoDocument /\ exe' # NoDocument =>
              Command!Newer(download'.release, exe'.release)
        /\ "older" \notin accidents'
    <3>1. CASE Newcomer
      <4>1. Command!Older(download, backup) = {}
        BY <2>4, <3>1 DEF Command!Older
      <4> QED BY <2>2, <2>5, <3>1, <4>1 DEF Upgrading
    <3>2. CASE Former
      BY <2>2, <2>4, <2>5, <3>2 DEF Upgrading
    <3> QED BY <1>2, <3>1, <3>2
  <2>9. \A q \in Processes \ {p} : remaining'[q] = <<>> /\ writes'[q] = NoDocument
    BY <1>2, <1>5, <2>2
  <2> QED BY <2>7, <2>8, <2>9, ActorKeeps
<1> QED BY <1>5, <1>6, <1>7, <1>8 DEF UpgradeInv

\* What was put aside is removed, or stays.
LEMMA RemoveKeeps ==
    ASSUME Installable, UpgradeInv, NEW p \in Processes, Command!RemoveOld(p)
    PROVE  UpgradeInv'
<1> DEFINE here == Head(remaining[p])
<1>1. UpgradeTypes /\ Written
  BY DEF UpgradeInv
<1>2. /\ remaining[p] # <<>> /\ here = "removeOld" /\ backup' \in {NoDocument, backup}
      /\ remaining' = [remaining EXCEPT ![p] = <<>>]
      /\ UNCHANGED <<windows, latest, exe, download, runs, wants, writes, accidents>>
  BY DEF Command!RemoveOld, Command!At, Command!Goes
<1> HIDE DEF here
<1>3. /\ UpgradeTypes' /\ remaining'[p] = <<>>
      /\ \A q \in Processes \ {p} : remaining'[q] = remaining[q]
  <2>1. PICK none \in Seq(UpgradeSteps) : none = <<>> /\ Ordered(none)
    <3>1. <<>> \in Seq(UpgradeSteps) /\ Ordered(<<>>)
      BY DEF Ordered
    <3> QED BY <3>1
  <2>2. {exe', backup', download'} \subseteq Releases \cup {NoDocument}
        /\ writes' \in [Processes -> {NoDocument, "download", "exe", "gone"}]
    BY <1>1, <1>2 DEF UpgradeTypes
  <2>3. remaining' = [remaining EXCEPT ![p] = none] /\ UNCHANGED <<windows, latest, runs, wants>>
    BY <1>2, <2>1
  <2> QED BY <1>1, <2>1, <2>2, <2>3, TypesOfRename
<1>4. ~Command!At(p, "replace") /\ ~Command!At(p, "copy")
  BY <1>2 DEF Command!At, here
<1>5. SomewhereElse'
  BY <1>2, <1>3, <1>4, NotAway
<1>6. Written'
  BY <1>1, <1>2 DEF Written
<1>7. ASSUME Undisturbed' PROVE Upgrading'
  <2>1. Undisturbed
    BY <1>2, <1>7 DEF Undisturbed
  <2>2. Upgrading /\ \A q \in Processes \ {p} : remaining[q] = <<>> /\ writes[q] = NoDocument
    BY <1>2, <2>1, OnlyOne
  <2>3. writes[p] = NoDocument /\ \A q \in Processes : ~Command!At(q, "copy")
    BY <1>4, <2>2 DEF Upgrading, Engaged, Command!At
  <2>4. Engaged(p)'
    BY <1>2, <1>3, <2>3 DEF Engaged, Command!At
  <2>5. /\ exe' # NoDocument => exe'.whole
        /\ backup' # NoDocument => backup'.whole
        /\ ~(download' # NoDocument /\ ~download'.whole)
        /\ download' # NoDocument /\ exe' # NoDocument =>
              Command!Newer(download'.release, exe'.release)
        /\ "older" \notin accidents'
    BY <1>2, <2>2, <2>3 DEF Upgrading
  <2>6. \A q \in Processes \ {p} : remaining'[q] = <<>> /\ writes'[q] = NoDocument
    BY <1>2, <1>3, <2>2
  <2> QED BY <2>4, <2>5, <2>6, ActorKeeps
<1> QED BY <1>3, <1>5, <1>6, <1>7 DEF UpgradeInv

\* A command starts: another one at work makes them overlap.
LEMMA StartKeeps ==
    ASSUME Installable, UpgradeInv, NEW p \in Processes, NEW steps \in Command!CmdUpgrade,
           Command!Start(p, steps)
    PROVE  UpgradeInv'
<1>1. UpgradeTypes /\ Written
  BY DEF UpgradeInv
<1>2. /\ remaining[p] = <<>> /\ exe # NoDocument
      /\ remaining' = [remaining EXCEPT ![p] = steps]
      /\ runs' = [runs EXCEPT ![p] = exe.release]
      /\ IF \E q \in Processes \ {p} : remaining[q] # <<>>
         THEN accidents' = accidents \cup {"overlap"} ELSE UNCHANGED accidents
      /\ UNCHANGED <<windows, latest, exe, backup, download, wants, writes>>
  BY DEF Command!Start, Command!Goes, Command!Happens
<1>3. steps \in Seq(UpgradeSteps) /\ Ordered(steps) /\ steps # <<>>
      /\ Head(steps) \in {"check", "findDownload", "install"}
  BY CommandsInOrder
<1>4. /\ remaining' \in [Processes -> Seq(UpgradeSteps)] /\ remaining'[p] = steps
      /\ \A q \in Processes \ {p} : remaining'[q] = remaining[q]
  BY <1>1, <1>2, <1>3 DEF UpgradeTypes
<1>5. runs' \in [Processes -> Int] /\ runs'[p] = exe.release
  <2>1. exe.release \in Int
    BY <1>1, <1>2 DEF UpgradeTypes, Releases
  <2> QED BY <1>1, <1>2, <2>1 DEF UpgradeTypes
<1>6. UpgradeTypes'
  <2>1. \A q \in Processes : Ordered(remaining'[q])
    BY <1>1, <1>3, <1>4 DEF UpgradeTypes
  <2> QED BY <1>1, <1>2, <1>4, <1>5, <2>1 DEF UpgradeTypes
<1>7. SomewhereElse' /\ Written'
  BY <1>1, <1>2 DEF SomewhereElse, Written
<1>8. ASSUME Undisturbed' PROVE Upgrading'
  <2>1. Undisturbed /\ \A q \in Processes \ {p} : remaining[q] = <<>>
    BY <1>2, <1>8 DEF Undisturbed
  <2>2. Upgrading
    BY <2>1 DEF UpgradeInv
  <2>3. \A q \in Processes : ~Command!At(q, "copy") /\ writes[q] = NoDocument
    BY <1>2, <2>1, <2>2 DEF Upgrading, Engaged, Command!At
  <2>4. /\ ~Command!At(p, "copy")' /\ ~Command!At(p, "create")'
        /\ ~Command!At(p, "replace")' /\ ~Command!At(p, "removeOld")'
    BY <1>3, <1>4 DEF Command!At
  <2>5. Engaged(p)'
    BY <1>2, <1>5, <2>3, <2>4 DEF Engaged
  <2>6. /\ exe' # NoDocument => exe'.whole
        /\ backup' # NoDocument => backup'.whole
        /\ ~(download' # NoDocument /\ ~download'.whole)
        /\ download' # NoDocument /\ exe' # NoDocument =>
              Command!Newer(download'.release, exe'.release)
        /\ "older" \notin accidents'
    BY <1>2, <2>1, <2>2, <2>3 DEF Upgrading
  <2>7. \A q \in Processes \ {p} : remaining'[q] = <<>> /\ writes'[q] = NoDocument
    BY <1>2, <1>4, <2>1, <2>3
  <2> QED BY <2>5, <2>6, <2>7, ActorKeeps
<1> QED BY <1>6, <1>7, <1>8 DEF UpgradeInv

LEMMA UpgradeInitially ==
    ASSUME Installable, Command!UpgradeInit
    PROVE  UpgradeInv
<1>1. PICK image : image = [release |-> 1, whole |-> TRUE, mixed |-> FALSE]
  OBVIOUS
<1>2. image \in Releases /\ image # NoDocument /\ image.release = 1 /\ image.whole = TRUE
  <2>1. image \in Releases /\ image.release = 1 /\ image.whole = TRUE
    BY <1>1 DEF Releases
  <2> QED BY <2>1 DEF Installable
<1>3. /\ exe = image /\ backup = NoDocument /\ download = NoDocument /\ accidents = {}
      /\ remaining = [p \in Processes |-> <<>>] /\ runs = [p \in Processes |-> 1]
      /\ wants = [p \in Processes |-> 1] /\ writes = [p \in Processes |-> NoDocument]
      /\ windows \in BOOLEAN /\ latest \in Int
  BY <1>1 DEF Command!UpgradeInit, Command!File, Installable
<1>4. <<>> \in Seq(UpgradeSteps) /\ Ordered(<<>>)
  BY DEF Ordered
<1>5. UpgradeTypes
  BY <1>2, <1>3, <1>4 DEF UpgradeTypes
<1>6. SomewhereElse /\ Written
  BY <1>2, <1>3 DEF SomewhereElse, Written, Installable
<1>7. \A p \in Processes : Engaged(p)
  BY <1>3 DEF Engaged, Command!At
<1>8. Upgrading
  BY <1>2, <1>3, <1>7 DEF Upgrading
<1> QED BY <1>5, <1>6, <1>8 DEF UpgradeInv

LEMMA UpgradeStep ==
    ASSUME Installable, UpgradeInv, [Command!UpgradeNext]_(Command!upgradeVars)
    PROVE  UpgradeInv'
<1>1. CASE Command!NewRelease
  <2>1. /\ latest' = latest + 1
        /\ UNCHANGED <<windows, exe, backup, download, remaining, runs, wants, writes, accidents>>
    BY <1>1 DEF Command!NewRelease
  <2>2. UpgradeTypes'
    BY <2>1 DEF UpgradeInv, UpgradeTypes
  <2>3. SomewhereElse' /\ Written' /\ (Undisturbed' => Upgrading')
    BY <2>1 DEF UpgradeInv, SomewhereElse, Written, Undisturbed, Upgrading, Engaged, Command!At,
                Command!Newer
  <2> QED BY <2>2, <2>3 DEF UpgradeInv
<1>2. CASE UNCHANGED Command!upgradeVars
  BY <1>2 DEF Command!upgradeVars, UpgradeInv, UpgradeTypes, SomewhereElse, Written, Undisturbed,
              Upgrading, Engaged, Command!At, Command!Newer
<1>3. CASE Command!Broken
  <2>1. UNCHANGED Command!upgradeVars
    BY <1>3 DEF Command!Broken, Command!upgradeVars
  <2> QED BY <1>2, <2>1
<1>4. ASSUME NEW p \in Processes, NEW steps \in Command!CmdUpgrade, Command!Start(p, steps)
      PROVE  UpgradeInv'
  BY <1>4, StartKeeps
<1>5. ASSUME NEW p \in Processes,
             \/ Command!CheckUpgrade(p) \/ Command!FindAsset(p) \/ Command!FindDownload(p)
             \/ Command!GiveUp(p) \/ Command!Chmod(p)
      PROVE  UpgradeInv'
  BY <1>5, LooksKeep
<1>6. ASSUME NEW p \in Processes, Command!CreateDownload(p) PROVE UpgradeInv'
  BY <1>6, CreateKeeps
<1>7. ASSUME NEW p \in Processes, Command!CopyFails(p) \/ Command!Kill(p) PROVE UpgradeInv'
  BY <1>7, KilledKeeps
<1>8. ASSUME NEW p \in Processes, Command!CopyEnds(p) PROVE UpgradeInv'
  BY <1>8, CopiedKeeps
<1>9. ASSUME NEW p \in Processes, Command!InstallUpgrade(p) PROVE UpgradeInv'
  BY <1>9, InstallKeeps
<1>10. ASSUME NEW p \in Processes, Command!PutAside(p) PROVE UpgradeInv'
  BY <1>10, PutAsideKeeps
<1>11. ASSUME NEW p \in Processes, Command!Replace(p) \/ Command!PutBack(p) PROVE UpgradeInv'
  BY <1>11, ReplaceKeeps
<1>12. ASSUME NEW p \in Processes, Command!RemoveOld(p) PROVE UpgradeInv'
  BY <1>12, RemoveKeeps
<1> QED BY <1>1, <1>2, <1>3, <1>4, <1>5, <1>6, <1>7, <1>8, <1>9, <1>10, <1>11, <1>12
        DEF Command!UpgradeNext

\* Whatever is killed and whatever comes together, the executable can be run unless a copy
\* was interrupted before, commands ran at the same time or, where it takes two renames, a
\* process died between them or neither file could be put there; and as long as commands
\* run one after the other and no copy is interrupted, it is only replaced by a newer one
\* (PerformUpgrade and InstallUpgrade).
THEOREM UpgradesAreSafe ==
    ASSUME Installable
    PROVE  UpgradeSpec => [](Command!ExecutableRuns /\ Command!NeverOlder)
<1>1. Command!UpgradeInit => UpgradeInv
  BY UpgradeInitially
<1>2. UpgradeInv /\ [Command!UpgradeNext]_(Command!upgradeVars) => UpgradeInv'
  BY UpgradeStep
<1>3. UpgradeInv => Command!ExecutableRuns /\ Command!NeverOlder
  <2> SUFFICES ASSUME UpgradeInv PROVE Command!ExecutableRuns /\ Command!NeverOlder
    OBVIOUS
  <2>1. CASE Undisturbed
    BY <2>1 DEF UpgradeInv, Upgrading, SomewhereElse, Undisturbed, Command!ExecutableRuns,
                Command!NeverOlder
  <2>2. CASE ~Undisturbed
    BY <2>2 DEF UpgradeInv, SomewhereElse, Undisturbed, Command!ExecutableRuns,
                Command!NeverOlder
  <2> QED BY <2>1, <2>2
<1> QED BY <1>1, <1>2, <1>3, PTL DEF UpgradeSpec
=============================================================================
