----------------------------- MODULE CommandLine -----------------------------
(***************************************************************************)
(* What several processes of the command lines do to files they share:     *)
(* `arch upgrade` to the executable and the download beside it, its        *)
(* `check` to the state file (go-core/arch/upgrade.go,                     *)
(* cmd/arch-cli/upgrade.go), and `progress` to the project file and its    *)
(* Markdown, which another process watches (cmd/progress).                 *)
(*                                                                         *)
(* A process may be killed between any two system calls.  os.WriteFile     *)
(* truncates and then writes; a rename is atomic.  Nothing locks.          *)
(***************************************************************************)
EXTENDS Integers, Sequences, FiniteSets, FiniteSetsExt

CONSTANTS
    Processes,
    MaxVersion,   \* bounds the releases
    Interval,     \* CheckInterval
    MaxClock,     \* bounds the clock of the checks
    TaskIDs,
    MaxUpdates,   \* bounds the commands of progress
    EventCap,     \* how many events a document keeps
    None,         \* there is no file
    EmptyFile,    \* it is truncated
    MixedFile     \* two wrote it at the same time

-----------------------------------------------------------------------------
(* compareVersions: components from the left, missing ones are 0. *)

Component(v, i) == IF i <= Len(v) THEN v[i] ELSE 0
Longest(v, w) == IF Len(v) > Len(w) THEN Len(v) ELSE Len(w)

\* A mutant: the components that both have are compared.
CompareCommon(v, w) ==
    LET differ == {i \in 1..Longest(v, w) : i <= Len(v) /\ i <= Len(w) /\ v[i] # w[i]}
        first == CHOOSE i \in differ : \A j \in differ : i <= j
    IN  IF differ = {} THEN 0 ELSE IF v[first] > w[first] THEN 1 ELSE -1

CompareVersions(v, w) ==
    LET differ == {i \in 1..Longest(v, w) : Component(v, i) # Component(w, i)}
        first == CHOOSE i \in differ : \A j \in differ : i <= j
    IN  IF differ = {} THEN 0
        ELSE IF Component(v, first) > Component(w, first) THEN 1 ELSE -1

\* The releases.
Release == <<<<1>>, <<1, 0, 1>>, <<1, 1>>, <<1, 1, 1>>>>

Newer(r, s) == CompareVersions(Release[r], Release[s]) > 0

-----------------------------------------------------------------------------
(* arch upgrade *)

VARIABLES
    windows,    \* it runs on Windows
    latest,     \* the latest release
    exe,        \* the file at the executable's path
    backup,     \* the one that Windows has put aside, .old
    download,   \* the file in the temporary directory: the name is the asset's
    todo,       \* todo[p]: the steps that p's command has left, <<>> without one
    runs,       \* runs[p]: the release p was started from
    wants,      \* wants[p]: the release that its last check found
    fd,         \* fd[p]: where the file is that p writes
    accidents   \* what has happened (for the properties)

upgradeVars == <<windows, latest, exe, backup, download, todo, runs, wants, fd, accidents>>

\* mixed: two releases are written into it.
File(r, whole, mixed) == [release |-> r, whole |-> whole, mixed |-> mixed]

UpgradeInit ==
    /\ windows \in BOOLEAN
    /\ latest \in 1..MaxVersion
    /\ exe = File(1, TRUE, FALSE) /\ backup = None /\ download = None
    /\ todo = [p \in Processes |-> <<>>]
    /\ runs = [p \in Processes |-> 1]
    /\ wants = [p \in Processes |-> 1]
    /\ fd = [p \in Processes |-> None]
    /\ accidents = {}

NewRelease ==
    /\ latest < MaxVersion
    /\ latest' = latest + 1
    /\ UNCHANGED <<windows, exe, backup, download, todo, runs, wants, fd, accidents>>

At(p, step) == todo[p] # <<>> /\ Head(todo[p]) = step
Goes(p, steps) == todo' = [todo EXCEPT ![p] = steps]
GoesOn(p) == Goes(p, Tail(todo[p]))
Happens(what) == accidents' = accidents \cup {what}

\* PerformUpgrade checks, downloads in two steps, and makes the file executable.
PerformUpgrade == <<"findAsset", "create", "copy", "chmod">>

\* arch upgrade download: it checks, then performs, which checks again.
CmdUpgradeDownload == <<"check">> \o PerformUpgrade

\* arch upgrade install looks for the download, unless it is given a path.
CmdUpgradeInstall == {<<"findDownload", "install">>, <<"install">>}

\* arch upgrade, and its subcommands but for check.
CmdUpgrade == {CmdUpgradeDownload \o <<"install">>, CmdUpgradeDownload} \cup CmdUpgradeInstall

Start(p, steps) ==
    /\ todo[p] = <<>> /\ exe # None /\ exe.whole
    /\ Goes(p, steps)
    /\ runs' = [runs EXCEPT ![p] = exe.release]
    /\ IF \E q \in Processes \ {p} : todo[q] # <<>>
       THEN Happens("overlap") ELSE UNCHANGED accidents
    /\ UNCHANGED <<windows, latest, exe, backup, download, wants, fd>>

\* CheckUpgrade says that the latest release is newer than the running one.  Otherwise,
\* when the server does not answer, or not with 200, the command ends.
Available(p) == Newer(latest, runs[p])

CheckUpgrade(p) ==
    /\ At(p, "check") /\ Available(p)
    /\ GoesOn(p)
    /\ UNCHANGED <<windows, latest, exe, backup, download, runs, wants, fd, accidents>>

\* Which asset fits the system is left out: there is one or the command ends.
FindAsset(p) ==
    /\ At(p, "findAsset") /\ Available(p)
    /\ GoesOn(p)
    /\ wants' = [wants EXCEPT ![p] = latest]
    /\ UNCHANGED <<windows, latest, exe, backup, download, runs, fd, accidents>>

\* install finds the download by the asset's name.
FindDownload(p) ==
    /\ At(p, "findDownload") /\ Available(p) /\ download # None
    /\ GoesOn(p)
    /\ UNCHANGED <<windows, latest, exe, backup, download, runs, wants, fd, accidents>>

\* A step that changes nothing before it fails ends the command, as does an answer
\* that there is nothing newer.
GiveUp(p) ==
    /\ \E step \in {"check", "findAsset", "findDownload", "create", "chmod", "install"} :
            At(p, step)
    /\ Goes(p, <<>>)
    /\ UNCHANGED <<windows, latest, exe, backup, download, runs, wants, fd, accidents>>

Writing(where) == {q \in Processes : fd[q] = where}

\* DownloadAsset: os.Create truncates the file that is there, with whoever writes it still.
CreateDownload(p) ==
    /\ At(p, "create")
    /\ download' = File(wants[p], FALSE, \E q \in Writing("download") : wants[q] # wants[p])
    /\ fd' = [fd EXCEPT ![p] = "download"]
    /\ GoesOn(p)
    /\ UNCHANGED <<windows, latest, exe, backup, runs, wants, accidents>>

\* A mutant: the error of the copy is dropped.
CopyErrorIgnored(p) ==
    /\ At(p, "copy")
    /\ fd' = [fd EXCEPT ![p] = None]
    /\ GoesOn(p)
    /\ UNCHANGED <<windows, latest, exe, backup, download, runs, wants, accidents>>

\* io.Copy fails: what is written stays.
CopyFails(p) ==
    /\ At(p, "copy")
    /\ fd' = [fd EXCEPT ![p] = None]
    /\ Goes(p, <<>>)
    /\ Happens("copy")
    /\ UNCHANGED <<windows, latest, exe, backup, download, runs, wants>>

\* The file is whole when nobody else writes it, or has written another release into it.
Completed(p, file) ==
    [file EXCEPT !.whole = Writing(fd[p]) = {p} /\ file.release = wants[p] /\ ~file.mixed]

CopyEnds(p) ==
    /\ At(p, "copy")
    /\ download' = IF fd[p] = "download" THEN Completed(p, download) ELSE download
    /\ exe' = IF fd[p] = "exe" THEN Completed(p, exe) ELSE exe
    /\ fd' = [fd EXCEPT ![p] = None]
    /\ GoesOn(p)
    /\ UNCHANGED <<windows, latest, backup, runs, wants, accidents>>

\* Windows has no such permission.
Chmod(p) ==
    /\ At(p, "chmod") /\ (windows \/ download # None)
    /\ GoesOn(p)
    /\ UNCHANGED <<windows, latest, exe, backup, download, runs, wants, fd, accidents>>

\* The files that are renamed take their writers along.
Moved == [q \in Processes |->
            CASE fd[q] = "download" -> "exe" [] fd[q] = "exe" -> "gone" [] OTHER -> fd[q]]

Older(new, old) == IF old # None /\ ~Newer(new.release, old.release) THEN {"older"} ELSE {}

\* Elsewhere one rename replaces the executable.
InstallUpgrade(p) ==
    /\ ~windows
    /\ At(p, "install") /\ download # None
    /\ exe' = download
    /\ download' = None
    /\ fd' = Moved
    /\ accidents' = accidents \cup Older(download, exe)
    /\ Goes(p, <<>>)
    /\ UNCHANGED <<windows, latest, backup, runs, wants>>

\* Windows: first the executable is put aside.
PutAside(p) ==
    /\ windows
    /\ At(p, "install") /\ exe # None
    /\ backup' = exe /\ exe' = None
    /\ Goes(p, <<"replace", "removeOld">>)
    /\ UNCHANGED <<windows, latest, download, runs, wants, fd, accidents>>

\* A file that somebody writes cannot be renamed there.
Replace(p) ==
    /\ At(p, "replace") /\ download # None /\ Writing("download") = {}
    /\ exe' = download /\ download' = None
    /\ accidents' = accidents \cup Older(download, backup)
    /\ GoesOn(p)
    /\ UNCHANGED <<windows, latest, backup, runs, wants, fd>>

\* A mutant: the old executable is not put back.
NotPutBack(p) ==
    /\ At(p, "replace")
    /\ Goes(p, <<>>)
    /\ UNCHANGED <<windows, latest, exe, backup, download, runs, wants, fd, accidents>>

\* When that fails the old one is put back, and the error of this is dropped.
PutBack(p) ==
    /\ At(p, "replace")
    /\ \/ backup # None /\ exe' = backup /\ backup' = None /\ UNCHANGED accidents
       \/ Happens("rollback") /\ UNCHANGED <<exe, backup>>
    /\ Goes(p, <<>>)
    /\ UNCHANGED <<windows, latest, download, runs, wants, fd>>

\* It is removed unless a process still runs it.
RemoveOld(p) ==
    /\ At(p, "removeOld")
    /\ backup' \in {None, backup}
    /\ Goes(p, <<>>)
    /\ UNCHANGED <<windows, latest, exe, download, runs, wants, fd, accidents>>

Kill(p) ==
    /\ todo[p] # <<>>
    /\ Goes(p, <<>>)
    /\ fd' = [fd EXCEPT ![p] = None]
    /\ accidents' = accidents \cup ({Head(todo[p])} \cap {"copy", "replace"})
    /\ UNCHANGED <<windows, latest, exe, backup, download, runs, wants>>

\* What cannot be run upgrades nothing.
Broken ==
    /\ ~(exe # None /\ exe.whole)
    /\ UNCHANGED <<windows, latest, exe, backup, download, todo, runs, wants, fd, accidents>>

UpgradeNext ==
    \/ NewRelease \/ Broken
    \/ \E p \in Processes :
        \/ \E steps \in CmdUpgrade : Start(p, steps)
        \/ CheckUpgrade(p) \/ FindAsset(p) \/ FindDownload(p) \/ GiveUp(p)
        \/ CreateDownload(p) \/ CopyFails(p) \/ CopyEnds(p) \/ Chmod(p)
        \/ InstallUpgrade(p) \/ PutAside(p) \/ Replace(p) \/ PutBack(p) \/ RemoveOld(p)
        \/ Kill(p)

UpgradeTypeOK ==
    /\ latest \in 1..MaxVersion
    /\ exe = None \/ exe.release \in 1..MaxVersion
    /\ \A p \in Processes : fd[p] \in {None, "download", "exe", "gone"}

\* The executable can be run unless a copy was interrupted before, commands ran at
\* the same time, or, where it takes two renames, a process died between them or
\* neither the new file nor the old one could be put there.
ExecutableRuns ==
    \/ exe # None /\ exe.whole
    \/ exe # None /\ accidents \cap {"copy", "overlap"} # {}
    \/ exe = None /\ windows
       /\ \/ accidents \cap {"replace", "rollback", "overlap"} # {}
          \/ \E p \in Processes : At(p, "replace")

\* As long as commands run one after the other and no copy is interrupted, the
\* executable is only replaced by a newer one, though install does not look at what
\* it installs.
NeverOlder == "older" \in accidents => accidents \cap {"copy", "overlap"} # {}

\* compareVersions orders the versions.
VersionsAreOrdered ==
    \A r, s, t \in DOMAIN Release :
        /\ CompareVersions(Release[r], Release[s]) = 0 - CompareVersions(Release[s], Release[r])
        /\ Newer(r, s) /\ Newer(s, t) => Newer(r, t)
        /\ r > s => Newer(r, s)
-----------------------------------------------------------------------------
(* The checks for a new release.  arch upgrade check asks the server, unless the last *)
(* answer is younger than an interval; so does, in the background, every command but *)
(* serve when it starts.  Both goroutines of a process use one UpgradeState. *)

VARIABLES
    stateFile,  \* what a file may be, or an UpgradeState
    clock,
    memory,     \* memory[p]: the UpgradeState that p has cached
    checking,   \* checking[t]: where goroutine t is
    caches,     \* caches[t]: its UpgradeState is the one in memory, not one of its own
    answer,     \* answer[t]: what t is about to keep
    shown,      \* what a check has just shown instead of asking, and when
    raced       \* goroutines of a process have met in its UpgradeState (for the properties)

checkVars == <<stateFile, clock, memory, checking, caches, answer, shown, raced>>

\* The command of a process, and the goroutine that checks in the background.
Goroutines == Processes \X {"main", "auto"}
Main(p) == <<p, "main">>
Auto(p) == <<p, "auto">>
Other(t) == IF t[2] = "main" THEN Auto(t[1]) ELSE Main(t[1])

\* LastCheckTime and, of LastCheckResult, when the server gave it.
UpgradeState(time, result) == [time |-> time, result |-> result]

CheckInit ==
    /\ stateFile = None /\ clock = Interval
    /\ memory = [p \in Processes |-> None]
    /\ checking = [t \in Goroutines |-> "idle"]
    /\ caches = [t \in Goroutines |-> FALSE]
    /\ answer = [t \in Goroutines |-> None]
    /\ shown = None /\ raced = FALSE

Unreadable == {None, EmptyFile, MixedFile}

Tick ==
    /\ clock < MaxClock
    /\ clock' = clock + 1
    /\ shown' = None
    /\ UNCHANGED <<stateFile, memory, checking, caches, answer, raced>>

\* loadUpgradeState: what is cached, or what can be read; else an empty state, which
\* is not cached, and a check that never was.
LoadUpgradeState(p) ==
    IF memory[p] # None THEN memory[p]
    ELSE IF stateFile \in Unreadable THEN None ELSE stateFile

Recent(state) == state # None /\ clock - state.time < Interval

\* When p ends its goroutines do.
Exit(p) ==
    /\ memory' = [memory EXCEPT ![p] = None]
    /\ checking' = [checking EXCEPT ![Main(p)] = "idle", ![Auto(p)] = "idle"]
    /\ caches' = [caches EXCEPT ![Main(p)] = FALSE, ![Auto(p)] = FALSE]
    /\ answer' = [answer EXCEPT ![Main(p)] = None, ![Auto(p)] = None]

\* A command starts, with the check in the background.
AutoCheckUpgrade(p) ==
    /\ checking[Main(p)] = "idle"
    /\ memory' = [memory EXCEPT ![p] = LoadUpgradeState(p)]
    /\ caches' = [caches EXCEPT ![Auto(p)] = memory'[p] # None]
    /\ checking' = [checking EXCEPT ![Main(p)] = "started",
                        ![Auto(p)] = IF Recent(memory'[p]) THEN "idle" ELSE "asking"]
    /\ shown' = None
    /\ UNCHANGED <<stateFile, clock, answer, raced>>

\* The command is upgrade check.  It shows what it finds, and ends, or asks.
CmdUpgradeCheck(p, force) ==
    /\ checking[Main(p)] = "started"
    /\ LET state == LoadUpgradeState(p)
       IN  IF ~force /\ Recent(state)
           THEN /\ shown' = [at |-> clock, state |-> state]
                /\ raced' = (raced \/ (checking[Auto(p)] = "storing" /\ caches[Auto(p)]))
                /\ Exit(p)
           ELSE /\ checking' = [checking EXCEPT ![Main(p)] = "asking"]
                /\ memory' = [memory EXCEPT ![p] = state]
                /\ caches' = [caches EXCEPT ![Main(p)] = state # None]
                /\ shown' = None
                /\ UNCHANGED <<answer, raced>>
    /\ UNCHANGED <<stateFile, clock>>

\* CheckUpgrade has an answer, whatever its status, and LastCheckTime is set.
Answers(t) ==
    /\ checking[t] = "asking"
    /\ answer' = [answer EXCEPT ![t] = clock]
    /\ memory' = IF caches[t] THEN [memory EXCEPT ![t[1]].time = clock] ELSE memory
    /\ checking' = [checking EXCEPT ![t] = "storing"]
    /\ shown' = None
    /\ UNCHANGED <<stateFile, clock, caches, raced>>

\* LastCheckResult is set, the state is cached, and what is in it is to be written:
\* the other goroutine may have set its time in it.  A state of its own replaces the
\* cached one, which the other goroutine keeps.
Store(t) ==
    /\ checking[t] = "storing"
    /\ LET state == UpgradeState(IF caches[t] THEN memory[t[1]].time ELSE answer[t], answer[t])
       IN  /\ memory' = [memory EXCEPT ![t[1]] = state]
           /\ answer' = [answer EXCEPT ![t] = state]
    /\ caches' = IF caches[t] THEN caches ELSE [caches EXCEPT ![Other(t)] = FALSE]
    /\ raced' = (raced \/ (caches[t] /\ caches[Other(t)] /\ checking[Other(t)] = "storing"))
    /\ checking' = [checking EXCEPT ![t] = "truncate"]
    /\ shown' = None
    /\ UNCHANGED <<stateFile, clock>>

\* A mutant: a check that fails is kept as well.
FailureKept(t) ==
    /\ checking[t] = "asking"
    /\ answer' = [answer EXCEPT ![t] = UpgradeState(clock, None)]
    /\ checking' = [checking EXCEPT ![t] = "truncate"]
    /\ shown' = None
    /\ UNCHANGED <<stateFile, clock, memory, caches, raced>>

\* The command ends; the background gives up.
CheckFails(t) ==
    /\ checking[t] = "asking"
    /\ IF t[2] = "main" THEN Exit(t[1])
       ELSE /\ checking' = [checking EXCEPT ![t] = "idle"]
            /\ UNCHANGED <<memory, caches, answer>>
    /\ shown' = None
    /\ UNCHANGED <<stateFile, clock, raced>>

\* os.WriteFile: what another process has written since the truncation is written over.
Over(file, new) == IF file \in {EmptyFile, new} THEN {new} ELSE {new, MixedFile}

SaveUpgradeState(t) ==
    /\ checking[t] \in {"truncate", "write"}
    /\ IF checking[t] = "truncate"
       THEN /\ stateFile' = EmptyFile /\ checking' = [checking EXCEPT ![t] = "write"]
            /\ UNCHANGED <<memory, caches, answer>>
       ELSE /\ stateFile' \in Over(stateFile, answer[t])
            /\ IF t[2] = "main" THEN Exit(t[1])
               ELSE /\ checking' = [checking EXCEPT ![t] = "idle"]
                    /\ answer' = [answer EXCEPT ![t] = None]
                    /\ UNCHANGED <<memory, caches>>
    /\ shown' = None
    /\ UNCHANGED <<clock, raced>>

\* A process is killed; or its command was another one and ends.
Ends(p) ==
    /\ checking[Main(p)] # "idle"
    /\ Exit(p)
    /\ shown' = None
    /\ UNCHANGED <<stateFile, clock, raced>>

CheckNext ==
    \/ Tick
    \/ \E p \in Processes :
        \/ AutoCheckUpgrade(p) \/ Ends(p)
        \/ \E force \in BOOLEAN : CmdUpgradeCheck(p, force)
    \/ \E t \in Goroutines :
        Answers(t) \/ CheckFails(t) \/ Store(t) \/ SaveUpgradeState(t)

\* Whatever is interrupted or overlaps, what a check shows without asking was an
\* answer of the server, to a check less than an interval ago: unless two goroutines
\* of a process stored their answers at the same time.
ShownIsRecent ==
    shown # None /\ ~raced =>
        shown.state.result # None /\ shown.at - shown.state.result < Interval
-----------------------------------------------------------------------------
(* progress: commands read the project file, change a task, write the file and *)
(* render it to Markdown; another process watches the file and renders it too. *)

VARIABLES
    project,    \* the project file: what a file may be, or a document
    unseen,     \* its modification time is not the one that the watcher remembers, if any
    markdown,   \* the Markdown: what a file may be, or the document it shows
    phase,      \* phase[p]: where p's command is
    holds,      \* holds[p]: the document p has in memory
    update,     \* update[p]: the number of p's command
    commands,   \* how many there were
    done,       \* the commands that have written their document
    mishaps     \* what has happened (for the properties)

projectVars == <<project, unseen, markdown, phase, holds, update, commands, done, mishaps>>

Watcher == "watcher"

NewTask == [status |-> "pending", progress |-> 0, started |-> FALSE, completed |-> FALSE]

NewProject == [tasks |-> [t \in TaskIDs |-> NewTask], events |-> {}]

StartTask(task) == [task EXCEPT !.status = "in_progress", !.progress = 10, !.started = TRUE]

CompleteTask(task) ==
    [task EXCEPT !.status = "completed", !.progress = 100, !.completed = TRUE]

SetProgress(task, pct) ==
    CASE pct = 100 -> CompleteTask(task)
      [] pct \in 1..99 ->
            [task EXCEPT !.status = "in_progress", !.progress = pct, !.started = TRUE]
      [] OTHER -> [task EXCEPT !.progress = pct]

\* What the commands make of a task; note only adds an event.
Changes(task) ==
    {StartTask(task), CompleteTask(task), task}
        \cup {SetProgress(task, pct) : pct \in {0, 50, 100}}

Missing == {None, EmptyFile, MixedFile}

\* addEvent: the last EventCap (500) of a document's events are kept.
AddEvent(events, n) ==
    LET all == events \cup {n}
    IN  {e \in all : Cardinality({f \in all : f > e}) < EventCap}

\* The panel of cmdRender and cmdStatus: how many tasks there are of a status, and the
\* progress of all.
WithStatus(document, status) == {id \in TaskIDs : document.tasks[id].status = status}
Overall(document) ==
    MapThenSumSet(LAMBDA id : document.tasks[id].progress, TaskIDs) \div Cardinality(TaskIDs)

\* There is no file, or one that an earlier command has written, with its event.
ProjectInit ==
    /\ project \in {None, [NewProject EXCEPT !.tasks = [t \in TaskIDs |-> StartTask(NewTask)],
                                            !.events = {0}]}
    /\ unseen = (project # None) /\ markdown = project
    /\ phase = [p \in Processes \cup {Watcher} |-> "idle"]
    /\ holds = [p \in Processes \cup {Watcher} |-> None]
    /\ update = [p \in Processes |-> 0]
    /\ commands = 0 /\ done = {} /\ mishaps = {}

\* p begins command number commands + 1 with the document that it will write.
Begins(p, document) ==
    /\ phase[p] = "idle" /\ commands < MaxUpdates
    /\ commands' = commands + 1
    /\ update' = [update EXCEPT ![p] = commands + 1]
    /\ phase' = [phase EXCEPT ![p] = "truncate project"]
    /\ holds' = [holds EXCEPT ![p] =
                    [document EXCEPT !.events = AddEvent(@, commands + 1)]]
    /\ mishaps' = IF \E q \in Processes \ {p} : phase[q] # "idle"
                  THEN mishaps \cup {"overlap"} ELSE mishaps
    /\ UNCHANGED <<project, unseen, markdown, done>>

\* A mutant: it does not look whether there is a file.
InitAgain(p) == Begins(p, NewProject)

CmdInit(p) == project = None /\ Begins(p, NewProject)

\* cmdStart, cmdComplete, cmdNote, cmdSetProgress: without a readable document they fail.
ChangeTask(p) ==
    /\ project \notin Missing
    /\ \E id \in TaskIDs :
        \E task \in Changes(project.tasks[id]) :
            Begins(p, [project EXCEPT !.tasks[id] = task])

\* Two modifications have different times.
WriteProject(p) ==
    /\ phase[p] \in {"truncate project", "write project"}
    /\ unseen' = TRUE
    /\ IF phase[p] = "truncate project"
       THEN /\ project' = EmptyFile
            /\ phase' = [phase EXCEPT ![p] = "write project"]
            /\ UNCHANGED <<holds, update, done>>
       ELSE /\ project' \in Over(project, holds[p])
            /\ phase' = [phase EXCEPT ![p] = "render"]
            /\ holds' = [holds EXCEPT ![p] = None]
            /\ update' = [update EXCEPT ![p] = 0]
            /\ done' = done \cup {update[p]}
    /\ UNCHANGED <<markdown, commands, mishaps>>

\* cmdRender reads the file and fails when it cannot.
RenderReads(p) ==
    /\ phase[p] = "render"
    /\ IF project \in Missing
       THEN phase' = [phase EXCEPT ![p] = "idle"] /\ UNCHANGED holds
       ELSE /\ phase' = [phase EXCEPT ![p] = "truncate markdown"]
            /\ holds' = [holds EXCEPT ![p] = project]
    /\ UNCHANGED <<project, unseen, markdown, update, commands, done, mishaps>>

RenderWrites(p) ==
    /\ phase[p] \in {"truncate markdown", "write markdown"}
    /\ IF phase[p] = "truncate markdown"
       THEN /\ markdown' = EmptyFile
            /\ phase' = [phase EXCEPT ![p] = "write markdown"]
            /\ UNCHANGED holds
       ELSE /\ markdown' \in Over(markdown, holds[p])
            /\ phase' = [phase EXCEPT ![p] = "idle"]
            /\ holds' = [holds EXCEPT ![p] = None]
    /\ UNCHANGED <<project, unseen, update, commands, done, mishaps>>

\* init finds a file, or the command is render.
CmdRender(p) ==
    /\ phase[p] = "idle" /\ commands < MaxUpdates /\ project # None
    /\ commands' = commands + 1
    /\ phase' = [phase EXCEPT ![p] = "render"]
    /\ mishaps' = IF \E q \in Processes \ {p} : phase[q] # "idle"
                  THEN mishaps \cup {"overlap"} ELSE mishaps
    /\ UNCHANGED <<project, unseen, markdown, holds, update, done>>

\* The watcher looks every two seconds and remembers the time before it renders.
WatchSees ==
    /\ phase[Watcher] = "idle" /\ project # None /\ unseen
    /\ unseen' = FALSE
    /\ phase' = [phase EXCEPT ![Watcher] = "render"]
    /\ UNCHANGED <<project, markdown, holds, update, commands, done, mishaps>>

\* A command is killed, or ends because it cannot write; so does the watcher's render.
CommandKilled(p) ==
    /\ phase[p] # "idle"
    /\ mishaps' = mishaps \cup ({phase[p]} \cap {"write project", "write markdown"})
                          \cup (IF p = Watcher THEN {"watcher"} ELSE {})
    /\ phase' = [phase EXCEPT ![p] = "idle"]
    /\ holds' = [holds EXCEPT ![p] = None]
    /\ update' = IF p = Watcher THEN update ELSE [update EXCEPT ![p] = 0]
    /\ UNCHANGED <<project, unseen, markdown, commands, done>>

CmdWatch == WatchSees \/ RenderReads(Watcher) \/ RenderWrites(Watcher)

Exhausted ==
    /\ commands = MaxUpdates
    /\ UNCHANGED <<project, unseen, markdown, phase, holds, update, commands, done, mishaps>>

ProjectNext ==
    \/ \E p \in Processes :
        \/ CmdInit(p) \/ ChangeTask(p) \/ WriteProject(p)
        \/ CmdRender(p) \/ RenderReads(p) \/ RenderWrites(p)
    \/ CmdWatch
    \/ \E p \in DOMAIN phase : CommandKilled(p)
    \/ Exhausted

MakesSense(document) ==
    \A id \in TaskIDs : LET task == document.tasks[id]
        IN  /\ task.status = "in_progress" => task.started
            /\ task.progress = 100 => task.status = "completed"
            /\ task.status = "completed" => task.completed
            /\ task.status = "pending" => task = NewTask

\* The panel has every task under one of its statuses, and says 100 only of a document
\* whose tasks are all completed.
PanelFits(document) ==
    /\ UNION {WithStatus(document, status) : status \in {"pending", "in_progress", "completed"}}
          = TaskIDs
    /\ Overall(document) = 100 => WithStatus(document, "completed") = TaskIDs

\* What there is on disk, in memory or shown.
Documents == ({project, markdown} \cup {holds[p] : p \in DOMAIN holds}) \ Missing

\* Every document makes sense.  A task under way has a start, one at 100 is completed
\* (the converse is not so: set 0 leaves a completed task completed), a completed one
\* has an end, a pending one nothing.
TasksMakeSense == \A document \in Documents : MakesSense(document)

\* So it does, and what is shown of it in the panel fits it.
DocumentsMakeSense == TasksMakeSense /\ \A document \in Documents : PanelFits(document)

\* Unless commands overlap or one is killed while it writes, the file holds every
\* update that is done, but for the oldest: no command writes back an older file, init
\* replaces none.
UpdatesStand ==
    mishaps \cap {"overlap", "write project"} = {} =>
        /\ project \in Missing =>
              done = {} \/ \E p \in Processes : phase[p] = "write project"
        /\ project \notin Missing =>
              \A n \in done \ project.events :
                  Cardinality({e \in project.events : e > n}) >= EventCap

\* When all have ended, the Markdown shows the file, though a command and the watcher
\* may have rendered at the same time.
MarkdownShows ==
    (\A p \in DOMAIN phase : phase[p] = "idle") /\ ~unseen /\ project # None =>
        \/ markdown = project
        \/ mishaps \cap {"overlap", "write project", "write markdown", "watcher"} # {}
=============================================================================
