----------------------------- MODULE Dashboard ------------------------------
(* What the dashboard server keeps up to date (cmd/arch-cli): watchFiles      *)
(* polls the source files, rebuilds the architecture data and tells it to the *)
(* subscribers of two event buses (sse.go), and every change goes into a log  *)
(* in memory and in one file a day (arch_changelog.go), which a restart reads *)
(* again. Versions stand for time stamps and contents of files: 0 is no file. *)
(* cmdServe as it is starts the log and its handlers but not watchFiles.      *)
(*                                                                            *)
(* The architecture data of a project and the rules that are checked against  *)
(* it (cmd/arch-cli/builder.go, parser_ast.go, primitives.go, violations.go,  *)
(* violations_rules.go and health.go). A project is the sequence of its       *)
(* files in the order of their names; a file is a record of what the rules    *)
(* tell apart, and several files may have one name. Messages are left out.    *)
EXTENDS Integers, Sequences, FiniteSets, SequencesExt

CONSTANTS
    FileCount,   \* Files are numbered in the order of their paths.
    MaxEdits,    \* Bound: edits and removals of files.
    Breaks,      \* Versions that violate a rule.
    Room,        \* Places of a subscriber's channel (64 and 32).
    MaxMem,      \* Entries kept in memory (1000).
    MaxEntries,  \* Bound: numbers of entries, and lines of the log.
    MaxDays      \* Bound: days.

Files == 1 .. FileCount

VARIABLES
    disk,       \* The version of each file.
    edits,      \* Edits so far, each makes a new version.
    watched,    \* fileHashes, 0 for a path it does not hold.
    watcher,    \* Where watchFiles is.
    at,         \* The next file of its scan.
    found,      \* What the scan found: files seen, new, changed.
    met,        \* Versions that a scan has met.
    todo,       \* What the watcher has yet to tell.
    build,      \* What its buildArchData has read.
    archData,   \* The data that the handlers serve.
    seqNo, mem, \* The log in memory: its last number and its newest entries.
    days,       \* The lines of each day's file.
    acked,      \* Numbers of the entries whose Append returned no error.
    glued,      \* Of these, the ones written behind an unfinished line.
    loaded,     \* A restart has just read the log.
    stream,     \* A subscriber: what waits in its channels, the last build it was
                \* told of, the numbers it got, and whether it missed anything.
    up          \* The process runs.

watchVars == <<disk, edits, watched, watcher, at, found, met, todo, build, archData>>
logVars == <<seqNo, mem, days, acked, glued, loaded>>
vars == <<watchVars, logVars, stream, up>>

Nothing == [seen |-> {}, new |-> <<>>, changed |-> <<>>]
NoBuild == [f \in Files |-> -1]  \* No file read yet.
Quiet == [dev |-> <<>>, log |-> <<>>, build |-> -1, numbers |-> <<>>, missed |-> FALSE]
Present(served) == {f \in Files : served[f] > 0}
Newest(s) == IF Len(s) > MaxMem THEN SubSeq(s, Len(s) - MaxMem + 1, Len(s)) ELSE s

-----------------------------------------------------------------------------
\* The log.

NoEntry == [seq |-> 0, kind |-> "", file |-> 0]

\* A full channel drops what is published.
Published(s, bus, e) ==
    IF Len(s[bus]) < Room THEN [s EXCEPT ![bus] = Append(@, e)] ELSE [s EXCEPT !.missed = TRUE]

\* The lines of a day after a write of the entry e: a line that was left unfinished
\* swallows what is appended, and the write itself may fail before or in the line.
Written(lines, e, outcome) ==
    LET behind == lines # <<>> /\ ~Last(lines).ended
        kept == IF behind THEN Front(lines) ELSE lines
        line == IF behind THEN NoEntry ELSE e
    IN  CASE outcome = "written" -> Append(kept, [entry |-> line, ended |-> TRUE])
          [] outcome = "refused" -> lines
          [] outcome = "cut" -> Append(kept, [entry |-> NoEntry, ended |-> FALSE])
          [] outcome = "unended" -> Append(kept, [entry |-> line, ended |-> FALSE])

\* Append: numbered and kept in memory whatever becomes of it on disk, published only
\* when it is there.
AppendEntry(kind, f, outcome, s) ==
    LET e == [seq |-> seqNo + 1, kind |-> kind, file |-> f]
        lines == Last(days)
    IN  /\ seqNo' = seqNo + 1
        /\ mem' = Newest(Append(mem, e))
        /\ days' = Append(Front(days), Written(lines, e, outcome))
        /\ IF outcome = "written"
           THEN /\ acked' = acked \cup {e.seq}
                /\ glued' = IF lines # <<>> /\ ~Last(lines).ended THEN glued \cup {e.seq} ELSE glued
                /\ stream' = Published(s, "log", e.seq)
           ELSE stream' = s /\ UNCHANGED <<acked, glued>>
        /\ loaded' = FALSE

Outcomes == {"written", "refused", "cut", "unended"}

\* handleArchChangelogCreate.
Create(outcome) ==
    /\ up /\ seqNo < MaxEntries /\ Len(FlattenSeq(days)) < MaxEntries
    /\ AppendEntry("manual", 0, outcome, stream)
    /\ UNCHANGED <<watchVars, up>>

NextDay ==
    /\ up /\ Len(days) < MaxDays
    /\ days' = Append(days, <<>>)
    /\ UNCHANGED <<watchVars, seqNo, mem, acked, glued, loaded, stream, up>>

Crash ==
    /\ up /\ up' = FALSE
    /\ UNCHANGED <<watchVars, logVars, stream>>

Readable(lines) ==
    LET whole == SelectSeq(lines, LAMBDA l : l.entry # NoEntry)
    IN  [i \in DOMAIN whole |-> whole[i].entry]

\* loadRecent: the newest day first, and no further day once there is enough.
Recent == FoldRight(LAMBDA lines, acc : IF Len(acc) >= MaxMem THEN acc ELSE acc \o Readable(lines),
                    days, <<>>)

\* A mutant: the last entry read is taken for the newest.
LastRead(entries) == IF entries = <<>> THEN 0 ELSE Last(entries).seq

Greatest(entries) == FoldLeft(LAMBDA n, e : IF e.seq > n THEN e.seq ELSE n, 0, entries)

\* NewArchChangelogStore of the next process.
Restart ==
    /\ ~up /\ up' = TRUE
    /\ mem' = Newest(Recent)
    /\ seqNo' = Greatest(Recent)
    /\ loaded' = TRUE
    /\ stream' = Quiet
    /\ UNCHANGED <<watchVars, days, acked, glued>>

\* A subscriber's handler takes an event of either bus.
ReceiveDev ==
    /\ up /\ stream.dev # <<>>
    /\ stream' = [stream EXCEPT !.dev = Tail(@),
                     !.build = IF Head(stream.dev).type = "build_done" /\ Head(stream.dev).files >= 0
                               THEN Head(stream.dev).files ELSE @]
    /\ UNCHANGED <<watchVars, logVars, up>>

ReceiveLog ==
    /\ up /\ stream.log # <<>>
    /\ stream' = [stream EXCEPT !.log = Tail(@), !.numbers = Append(@, Head(stream.log))]
    /\ UNCHANGED <<watchVars, logVars, up>>

\* A mutant: the limit counts what is passed over.
QueryOfNewest(kind, f, limit) ==
    SelectSeq(Reverse(IF limit = 0 \/ limit > Len(mem) THEN mem ELSE SubSeq(mem, Len(mem) - limit + 1, Len(mem))),
              LAMBDA e : kind \in {"", e.kind} /\ f \in {0, e.file})

\* Query: what is asked for, the last kept first, and no more than the limit if there
\* is one.  The Offset of a filter is read by the handler and used by nobody.
Query(kind, f, limit) ==
    LET all == SelectSeq(Reverse(mem), LAMBDA e : kind \in {"", e.kind} /\ f \in {0, e.file})
    IN  IF limit = 0 \/ limit > Len(all) THEN all ELSE SubSeq(all, 1, limit)

\* handleArchChangelog: a limit that is missing or no positive number is 100.
Listed(kind, f, limit) == Query(kind, f, IF limit > 0 THEN limit ELSE 100)

\* The handler of the export knows three formats.
Exported(format) ==
    IF format \in {"", "json", "md", "csv"} THEN Query("", 0, 0) ELSE <<>>

Stats ==
    [total |-> Len(mem), last |-> IF mem = <<>> THEN NoEntry ELSE Last(mem),
     byKind |-> [k \in {e.kind : e \in Range(mem)} |-> Cardinality({i \in DOMAIN mem : mem[i].kind = k})]]

-----------------------------------------------------------------------------
\* The watcher.

Event(type, n) == [type |-> type, files |-> n]

Write(f) ==
    /\ edits < MaxEdits
    /\ edits' = edits + 1
    /\ disk' = [disk EXCEPT ![f] = edits + 1]
    /\ UNCHANGED <<watched, watcher, at, found, met, todo, build, archData, logVars, stream, up>>

Unlink(f) ==
    /\ edits < MaxEdits /\ disk[f] # 0
    /\ edits' = edits + 1
    /\ disk' = [disk EXCEPT ![f] = 0]
    /\ UNCHANGED <<watched, watcher, at, found, met, todo, build, archData, logVars, stream, up>>

Tick ==
    /\ watcher = "waiting" /\ watcher' = "scanning"
    /\ at' = 1 /\ found' = Nothing
    /\ UNCHANGED <<disk, edits, watched, met, todo, build, archData, logVars, stream, up>>

\* The walk meets a file.
Scan ==
    /\ watcher = "scanning" /\ at \in Files
    /\ at' = at + 1
    /\ met' = met \cup {disk[at]}
    /\ IF disk[at] = 0
       THEN UNCHANGED <<watched, found>>
       ELSE /\ watched' = [watched EXCEPT ![at] = disk[at]]
            /\ found' = [seen |-> found.seen \cup {at},
                         new |-> IF watched[at] = 0 THEN Append(found.new, at) ELSE found.new,
                         changed |-> IF watched[at] \notin {0, disk[at]}
                                     THEN Append(found.changed, at) ELSE found.changed]
    /\ UNCHANGED <<disk, edits, watcher, todo, build, archData, logVars, stream, up>>

Tidings(kind, files) == [i \in DOMAIN files |-> [kind |-> kind, file |-> files[i]]]

\* A mutant: what the scan did not meet is looked at again.
LookedAtAgain(gone) == disk

\* The hashes without those of the files that are gone.
Without(gone) == [f \in Files |-> IF f \in gone THEN 0 ELSE watched[f]]

\* The files it knew and did not meet, in the order of a map.
ScanEnds ==
    /\ watcher = "scanning" /\ at \notin Files
    /\ LET gone == Present(watched) \ found.seen IN
       \E deleted \in SetToSeqs(gone) :
          /\ watched' = Without(gone)
          /\ todo' = Tidings("file_add", found.new) \o Tidings("file_modify", found.changed)
                       \o Tidings("file_delete", deleted)
          /\ watcher' = IF todo' = <<>> THEN "waiting" ELSE "telling"
    /\ at' = 1 /\ found' = Nothing
    /\ UNCHANGED <<disk, edits, met, build, archData, logVars, stream, up>>

\* Each change to the bus and then to the log; the watcher ignores Append's error.
TellChange(outcome) ==
    /\ watcher = "telling" /\ todo # <<>>
    /\ todo' = Tail(todo)
    /\ AppendEntry(Head(todo).kind, Head(todo).file, outcome,
                   Published(stream, "dev", Event("file_changed", Head(todo).file)))
    /\ UNCHANGED <<disk, edits, watched, watcher, at, found, met, build, archData, up>>

BuildStarts ==
    /\ watcher = "telling" /\ todo = <<>>
    /\ watcher' = "building" /\ build' = NoBuild
    /\ stream' = Published(stream, "dev", Event("build_start", 0))
    /\ UNCHANGED <<disk, edits, watched, at, found, met, todo, archData, logVars, up>>

\* The goroutines of buildArchData parse the files in any order.
BuildReads(f) ==
    /\ watcher = "building" /\ build[f] = -1
    /\ build' = [build EXCEPT ![f] = disk[f]]
    /\ UNCHANGED <<disk, edits, watched, watcher, at, found, met, todo, archData, logVars, stream, up>>

\* A directory that cannot be walked: the change counts as seen all the same.
BuildFails ==
    /\ watcher = "building"
    /\ watcher' = "waiting" /\ build' = NoBuild
    /\ stream' = Published(stream, "dev", Event("build_done", -1))
    /\ UNCHANGED <<disk, edits, watched, at, found, met, todo, archData, logVars, up>>

Violators(served) == SelectSeq([i \in 1 .. FileCount |-> i], LAMBDA f : served[f] \in Breaks)

\* The data is swapped, the end of the build told and the rules are checked.
BuildEnds ==
    /\ watcher = "building" /\ \A f \in Files : build[f] # -1
    /\ archData' = build /\ build' = NoBuild
    /\ LET bad == Violators(build)
           done == Published(stream, "dev", Event("build_done", Len(SelectSeq(build, LAMBDA v : v > 0))))
       IN  /\ stream' = IF bad = <<>> THEN done
                        ELSE Published(done, "dev", Event("violation_found", Len(bad)))
           /\ todo' = Tidings("violation_add", bad)
    /\ watcher' = "reporting"
    /\ UNCHANGED <<disk, edits, watched, at, found, met, logVars, up>>

TellViolation(outcome) ==
    /\ watcher = "reporting" /\ todo # <<>>
    /\ todo' = Tail(todo)
    /\ AppendEntry(Head(todo).kind, Head(todo).file, outcome, stream)
    /\ UNCHANGED <<disk, edits, watched, watcher, at, found, met, build, archData, up>>

ReportEnds ==
    /\ watcher = "reporting" /\ todo = <<>>
    /\ watcher' = "waiting"
    /\ UNCHANGED <<disk, edits, watched, at, found, met, todo, build, archData, logVars, stream, up>>

Watch(outcome) ==
    \/ Tick \/ Scan \/ ScanEnds \/ TellChange(outcome) \/ BuildStarts
    \/ \E f \in Files : BuildReads(f)
    \/ BuildEnds \/ TellViolation(outcome) \/ ReportEnds

-----------------------------------------------------------------------------

\* The watcher starts on files whose data has been built.
Init ==
    /\ disk \in [Files -> 0 .. 1] /\ edits = 1
    /\ watched = disk /\ archData = disk
    /\ watcher = "waiting" /\ at = 1 /\ found = Nothing /\ met = {0, 1}
    /\ todo = <<>> /\ build = NoBuild
    /\ seqNo = 0 /\ mem = <<>> /\ days = <<<<>>>>
    /\ acked = {} /\ glued = {} /\ loaded = FALSE
    /\ stream = [Quiet EXCEPT !.build = Len(SelectSeq(disk, LAMBDA v : v > 0))] /\ up = TRUE

LogNext ==
    \/ \E outcome \in Outcomes : Create(outcome)
    \/ NextDay \/ Crash \/ Restart \/ ReceiveLog

WatchNext ==
    \/ \E f \in Files : Write(f) \/ Unlink(f)
    \/ \E outcome \in {"written", "refused"} : Watch(outcome)
    \/ BuildFails \/ ReceiveDev

Next == LogNext \/ WatchNext

Spec == Init /\ [][Next]_vars

\* time.NewTicker ticks for ever and watchFiles is one goroutine.
FairSpec == Spec /\ WF_vars(\E outcome \in {"written", "refused"} : Watch(outcome))

-----------------------------------------------------------------------------

Log == FlattenSeq([d \in DOMAIN days |-> Readable(days[d])])

TypeOK ==
    /\ watcher \in {"waiting", "scanning", "telling", "building", "reporting"}
    /\ at \in 1 .. FileCount + 1
    /\ seqNo \in Nat /\ Len(mem) <= MaxMem /\ Len(days) \in 1 .. MaxDays
    /\ glued \subseteq acked
    /\ Len(stream.dev) <= Room /\ Len(stream.log) <= Room

\* The numbers of the log rise from line to line and from day to day, through crashes
\* and writes that fail, and a new entry never takes a number that can still be read;
\* what a caller of Append was told is written can be read again, unless it was written
\* behind a line that a failed write left unfinished (ArchChangelogStore).
LogSurvives ==
    /\ \A i, j \in DOMAIN Log : i < j => Log[i].seq < Log[j].seq
    /\ up => \A i \in DOMAIN Log : Log[i].seq <= seqNo
    /\ acked \ glued \subseteq {Log[i].seq : i \in DOMAIN Log}

\* Just after a restart the memory holds the whole log if that fits, and the newest
\* entries of a log of one day (loadRecent). Of a longer log of several days it may
\* hold the older ones.
RestartRemembers ==
    loaded =>
        /\ Len(Log) <= MaxMem => Range(mem) = Range(Log)
        /\ (\A d \in DOMAIN days : Readable(days[d]) # <<>> => Readable(days[d]) = Log)
              => mem = Newest(Log)

\* Subscribers get the entries in the order of their numbers, those and only those
\* that are on disk (Append publishes under its lock).
StreamInOrder ==
    LET got == stream.numbers \o stream.log IN
    /\ \A i, j \in DOMAIN got : i < j => got[i] < got[j]
    /\ Range(got) \subseteq acked

\* Whoever asks the log is told the same (arch_changelog_api.go): a limit keeps the first
\* of what there is without it, nothing that is listed or exported is not in memory, and
\* the statistics count what a query for each kind lists; the newest entry comes first.
QueriesAgree ==
    /\ \A kind \in {"", "manual", "file_modify"}, f \in {0, 1}, limit \in 1 .. 2 :
          LET all == Query(kind, f, 0)
              some == Listed(kind, f, limit)
          IN  /\ IsPrefix(some, all) /\ (Len(some) = limit \/ some = all)
              /\ Listed(kind, f, -1) = all
    /\ Reverse(Exported("csv")) = mem
    /\ Stats.total = Len(Exported("json")) /\ (mem # <<>> => Stats.last = Query("", 0, 1)[1])
    /\ \A kind \in DOMAIN Stats.byKind : Stats.byKind[kind] = Len(Query(kind, 0, 0))

\* The log tells a possible story of each file: it is created when it was not there,
\* and changed or deleted when it was (watchFiles), as long as no entry was trimmed.
StoryIsPossible ==
    \A f \in Files : Len(mem) < MaxMem =>
        LET story == SelectSeq(mem, LAMBDA e : e.file = f /\ e.kind \in {"file_add", "file_modify", "file_delete"})
        IN  \A i \in 1 .. Len(story) - 1 :
                story[i].kind = "file_delete" <=> story[i + 1].kind = "file_add"

\* A client of the event stream that missed nothing knows, between two scans, how many
\* files the served data has (watchFiles, handleDevSSE).
ClientAgrees ==
    watcher \in {"waiting", "scanning"} /\ stream.dev = <<>> /\ ~stream.missed
        => stream.build = Len(SelectSeq(archData, LAMBDA v : v > 0))

\* Once the files are left alone the served data is that of the files, if builds do
\* not fail: an edit during a scan or a build shows at the next tick (watchFiles).
\* Only a file that came and went between two scans, and that a build met, stays.
CatchesUp ==
    <>[](\A f \in Files : archData[f] = disk[f] \/ (disk[f] = 0 /\ archData[f] \notin met))

-----------------------------------------------------------------------------
(* The rules *)

CONSTANTS
    Projects  \* The projects: sequences of files.

VARIABLES
    project,  \* The files on disk.
    data,     \* ArchData: the files that parsed, with DependsOn and DependedBy.
    rule,     \* The next rule of detectViolations, 0 before the build.
    items,    \* The violations so far, each with its place in "where".
    health    \* HealthScoreResponse: the factors and the overall score.

rulesVars == <<project, data, rule, items, health>>

Times(n, v) == [k \in 1 .. n |-> v]
Sum(s) == FoldSeq(LAMBDA x, y : x + y, 0, s)
Names(files) == {files[i].name : i \in DOMAIN files}

-----------------------------------------------------------------------------
\* buildArchData: what a file depends on.

\* The names of the files of a package, empty for a package of another module.
buildImportIndex(files, pkg) == {f.name : f \in {g \in Range(files) : g.pkg = pkg}}

\* The first file that defines the symbol s.
DefinedIn(files, s) ==
    LET first == {i \in DOMAIN files : \E k \in DOMAIN files[i].symbols : files[i].symbols[k].name = s}
    IN  IF first = {} THEN {} ELSE {files[CHOOSE i \in first : \A j \in first : i <= j].name}

\* A mutant: a file depends on what it calls even if that is itself.
DependenciesWithSelf(files, f) ==
    UNION {buildImportIndex(files, pkg) : pkg \in f.imports}
      \cup UNION {DefinedIn(files, s) : s \in f.calls}

\* By imports first, then by the exported functions it calls; never on itself.
Dependencies(files, f) ==
    (UNION {buildImportIndex(files, pkg) : pkg \in f.imports}
       \cup UNION {DefinedIn(files, s) : s \in f.calls}) \ {f.name}

Dependents(files, f) == {g.name : g \in {h \in Range(files) : f.name \in Dependencies(files, h)}}

\* The words that detectByAST, inferPrimitiveByName and inferPrimitiveByPath find.
detectPrimitives(files) ==
    UNION {LET f == files[i] IN
           {<<f.name, assert, "interface_assert">> : assert \in f.source.asserts}
             \cup {<<f.name, f.symbols[k].word, "naming">> :
                      k \in {j \in DOMAIN f.symbols : f.symbols[j].word # ""}}
             \cup (IF f.path # "" /\ f.symbols # <<>> THEN {<<f.name, f.path, "path_based">>} ELSE {})
           : i \in DOMAIN files}

\* Tests and what is below cmd are skipped; a file that does not parse is logged and
\* left out.
buildArchData ==
    LET scanned(f) == "test" \notin f.traits /\ "cmd" \notin f.traits
        files == SelectSeq(project, LAMBDA f : scanned(f) /\ f.source.parses)
    IN  [files |-> [i \in DOMAIN files |->
                      [name |-> files[i].name, on |-> Dependencies(files, files[i]),
                       by |-> Dependents(files, files[i]), of |-> files[i]]],
         layers |-> {f.layer : f \in Range(files)},
         primitives |-> detectPrimitives(files)]

-----------------------------------------------------------------------------
\* The rules. Each gives a file a number of violations.

Violation(id, severity, name, where) ==
    [rule |-> id, severity |-> severity, file |-> name, where |-> where]

Each(Count(_), id, severity) ==
    FlattenSeq([i \in DOMAIN data.files |->
                  Times(Count(data.files[i]), Violation(id, severity, data.files[i].name, <<>>))])

One(condition) == IF condition THEN 1 ELSE 0
CountIn(s, Test(_)) == Len(SelectSeq(s, Test))
Is(f, trait) == trait \in f.of.traits

checkLargeFile == Each(LAMBDA f : One(f.of.lines > 300), "R1", "warning")

checkEmptyFile ==
    Each(LAMBDA f : One(/\ f.of.lines > 10 /\ f.of.symbols = <<>>
                        /\ ~Is(f, "main") /\ ~Is(f, "fallback")
                        /\ ~(f.of.lines < 30 /\ Is(f, "underscore"))),
         "R2", "info")

\* The graph by names: of files with one name the last one's edges count.
Graph == [n \in Names(data.files) |->
             data.files[CHOOSE i \in DOMAIN data.files :
                           /\ data.files[i].name = n
                           /\ \A j \in DOMAIN data.files : data.files[j].name = n => j <= i].on]

Ascending(S) == SelectSeq([k \in 1 .. Max(S \cup {0}) + 1 |-> k - 1], LAMBDA n : n \in S)

\* One call of dfs: its state s has the nodes visited, the path (whose members are
\* those of recStack) and the cycles found.
RECURSIVE Dfs(_, _)

\* A mutant: recStack is not reset.
LeaveMarked(s) == s

Leave(s) == [s EXCEPT !.path = Front(@)]
Look(s, dep) ==
    IF dep \in Names(data.files) /\ dep \notin s.visited THEN Dfs(s, dep)
    ELSE IF dep \in Range(s.path)
         THEN LET from == CHOOSE i \in DOMAIN s.path : s.path[i] = dep
              IN  [s EXCEPT !.cycles = Append(@, SubSeq(s.path, from, Len(s.path)) \o <<dep>>)]
         ELSE s
Dfs(s, node) ==
    LET entered == [s EXCEPT !.visited = @ \cup {node}, !.path = Append(@, node)]
    IN  Leave(FoldLeft(Look, entered, Ascending(Graph[node])))

detectCycles ==
    FoldLeft(LAMBDA s, node : IF node \in s.visited THEN s ELSE Dfs(s, node),
             [visited |-> {}, path |-> <<>>, cycles |-> <<>>], Ascending(Names(data.files))).cycles

packageOfFile(n) ==
    data.files[CHOOSE i \in DOMAIN data.files :
                  /\ data.files[i].name = n
                  /\ \A j \in DOMAIN data.files : data.files[j].name = n => i <= j].of.pkg

\* Each cycle once, unless it stays in one package.
checkCyclicDependency ==
    LET cycles == detectCycles
        isNew(i) == \A j \in 1 .. i - 1 : cycles[j] # cycles[i]
        crosses(c) == \E n \in Range(c) : packageOfFile(n) # packageOfFile(c[1])
        reported == SelectSeq([i \in DOMAIN cycles |-> i], LAMBDA i : isNew(i) /\ crosses(cycles[i]))
    IN  [k \in DOMAIN reported |->
            Violation("R3", "error", cycles[reported[k]][1], cycles[reported[k]])]

\* The gap counts the layers the project has, not the numbers of the layers.
LayerIndex(layer) == Cardinality({l \in data.layers : l < layer})
LayerOf(n) ==
    data.files[CHOOSE i \in DOMAIN data.files :
                  /\ data.files[i].name = n
                  /\ \A j \in DOMAIN data.files : data.files[j].name = n => j <= i].of.layer

checkLayerViolation ==
    FlattenSeq([i \in DOMAIN data.files |->
        LET f == data.files[i]
            far == {n \in f.on : LayerIndex(LayerOf(n)) - LayerIndex(f.of.layer) > 2}
        IN  [k \in DOMAIN Ascending(far) |->
                Violation("R4", "warning", f.name, <<f.of.layer, LayerOf(Ascending(far)[k])>>)]])

checkNoPrimitive ==
    Each(LAMBDA f : One(/\ ~Is(f, "main") /\ ~Is(f, "test")
                        /\ \A p \in data.primitives : p[1] # f.name
                        /\ f.of.layer # 0 /\ f.of.symbols # <<>>
                        /\ Is(f, "hint")),
         "R5", "warning")

\* Rules 6 to 9, 11 and 14 read the file again.
Source(f) == f.of.source

checkLargeFunction ==
    Each(LAMBDA f : CountIn(Source(f).functions, LAMBDA fn : fn.span > 80), "R6", "warning")

checkRawPrint ==
    Each(LAMBDA f : IF Is(f, "main") \/ Is(f, "cli") THEN 0 ELSE Source(f).prints, "R7", "warning")

\* Long literals with a keyword, a port or a duration.
checkHardcodedConfig ==
    Each(LAMBDA f : IF Is(f, "test") THEN 0
                    ELSE CountIn(Source(f).literals, LAMBDA l : l.size > 6 /\ l.hit # ""),
         "R8", "info")

\* One call on the right and nothing but blanks, two at least, on the left.
checkUncheckedError ==
    Each(LAMBDA f : IF Is(f, "test") THEN 0
                    ELSE CountIn(Source(f).assignments,
                                 LAMBDA a : a.call /\ a.left >= 2 /\ a.blanks = a.left),
         "R9", "warning")

checkTooManySymbols == Each(LAMBDA f : One(Len(f.of.symbols) > 15), "R10", "warning")

checkGlobalState ==
    Each(LAMBDA f : One(~Is(f, "test") /\ CountIn(Source(f).globals, LAMBDA g : g.named /\ g.valued) > 3),
         "R11", "warning")

checkLowTestCoverage ==
    Each(LAMBDA f : One(/\ ~Is(f, "test") /\ ~Is(f, "main")
                        /\ \A i \in DOMAIN data.files :
                              data.files[i].of.dir = f.of.dir => ~Is(data.files[i], "test")),
         "R12", "info")

checkMissingDoc ==
    Each(LAMBDA f : IF Is(f, "test") THEN 0 ELSE CountIn(f.of.symbols, LAMBDA s : ~s.doc), "R13", "info")

checkHighCyclomatic ==
    Each(LAMBDA f : CountIn(Source(f).functions, LAMBDA fn : 1 + fn.decisions > 10), "R14", "warning")

checkHighDependencyCentrality == Each(LAMBDA f : One(Cardinality(f.by) > 20), "R15", "warning")

RuleCount == 15
rules == <<checkLargeFile, checkEmptyFile, checkCyclicDependency, checkLayerViolation,
           checkNoPrimitive, checkLargeFunction, checkRawPrint, checkHardcodedConfig,
           checkUncheckedError, checkTooManySymbols, checkGlobalState, checkLowTestCoverage,
           checkMissingDoc, checkHighCyclomatic, checkHighDependencyCentrality>>

-----------------------------------------------------------------------------
\* computeHealthScore, in exact fractions.

Round(a, b) == (2 * a + b) \div (2 * b)  \* math.Round of a / b, neither negative.

\* A mutant: a penalty may exceed what there is.
Unlimited(a) == a

AtLeast0(a) == IF a < 0 THEN 0 ELSE a
Distance(a, b) == IF a < b THEN b - a ELSE a - b

Factors ==
    LET files == data.files
        total == Len(files)
        lines == Sum([i \in DOMAIN files |-> files[i].of.lines])
        linesOf(l) == Sum([i \in DOMAIN files |-> IF files[i].of.layer = l THEN files[i].of.lines ELSE 0])
        layers == Cardinality(data.layers)
        spread == Sum([k \in 1 .. layers |-> Distance(linesOf(Ascending(data.layers)[k]) * layers, lines)])
        symbols == Sum([i \in DOMAIN files |-> Len(files[i].of.symbols)])
        deps == Sum([i \in DOMAIN files |-> Cardinality(files[i].on)])
        kind(S) == Sum([i \in DOMAIN files |-> CountIn(files[i].of.symbols, LAMBDA s : s.kind \in S)])
        types == kind({"type", "interface"})
        interfaces == kind({"interface"})
    IN  [layer_balance |->
            IF layers = 0 THEN 100
            ELSE Round(AtLeast0(100 * lines * layers - 30 * spread), lines * layers),
         file_granularity |->
            IF total = 0 THEN 0
            ELSE IF lines < 100 * total THEN Round(lines, total)
            ELSE IF lines > 800 * total THEN Round(AtLeast0(1800 * total - lines), 10 * total)
            ELSE 100,
         symbol_density |->
            IF total = 0 THEN 0
            ELSE IF symbols < 5 * total THEN Round(20 * symbols, total)
            ELSE IF symbols > 50 * total THEN Round(AtLeast0(200 * total - 2 * symbols), total)
            ELSE 100,
         dependency_depth |->
            IF deps > 10 * total THEN Round(AtLeast0(150 * total - 5 * deps), total) ELSE 100,
         interface_ratio |->
            IF types = 0 THEN 100
            ELSE IF 10 * interfaces < types THEN Round(1000 * interfaces, types)
            ELSE IF 10 * interfaces > 7 * types THEN Round(170 * types - 100 * interfaces, types)
            ELSE 100]

Overall(h) == Round(25 * h.layer_balance + 20 * h.file_granularity + 20 * h.symbol_density
                      + 20 * h.dependency_depth + 15 * h.interface_ratio, 100)

Grade(score) == IF score >= 90 THEN "A+" ELSE IF score >= 80 THEN "A"
                ELSE IF score >= 70 THEN "B" ELSE IF score >= 60 THEN "C" ELSE "D"

computeHealthScore == [factors |-> Factors, overall |-> Overall(Factors), grade |-> Grade(Overall(Factors))]

-----------------------------------------------------------------------------

None == <<>>

RulesInit ==
    /\ project \in Projects
    /\ data = None /\ rule = 0 /\ items = <<>> /\ health = {}

Build == rule = 0 /\ data' = buildArchData /\ rule' = 1 /\ UNCHANGED <<project, items, health>>

Check ==
    /\ rule \in 1 .. RuleCount
    /\ items' = items \o rules[rule]
    /\ rule' = rule + 1
    /\ UNCHANGED <<project, data, health>>

severity(v) == CASE v.severity = "error" -> 0 [] v.severity = "warning" -> 1 [] OTHER -> 2

\* Errors first; within a severity by file, and otherwise as the rules found them.
summarizeViolations ==
    /\ rule = RuleCount + 1
    /\ items' = FlattenSeq([k \in 1 .. 3 |->
                   LET names == Ascending(Names(data.files))
                   IN  FlattenSeq([n \in DOMAIN names |->
                          SelectSeq(items, LAMBDA v : severity(v) = k - 1 /\ v.file = names[n])])])
    /\ rule' = rule + 1
    /\ UNCHANGED <<project, data, health>>

Score ==
    /\ rule > RuleCount + 1 /\ health = {}
    /\ health' = {computeHealthScore}
    /\ UNCHANGED <<project, data, rule, items>>

RulesNext == Build \/ Check \/ summarizeViolations \/ Score

RulesSpec == RulesInit /\ [][RulesNext]_rulesVars

-----------------------------------------------------------------------------

Summarized == rule > RuleCount + 1

\* Files in data; a violation names one of them.
RulesTypeOK ==
    /\ rule \in 0 .. RuleCount + 2
    /\ rule > 0 => \A v \in Range(items) : v.file \in Names(data.files)

Edge(a, b) == \E i \in DOMAIN data.files : data.files[i].name = a /\ b \in data.files[i].on

\* Every cycle that rule R3 reports is one: each file depends on the next, none
\* occurs twice but the one that closes it, and it crosses packages
\* (checkCyclicDependency, detectCycles).
CyclesAreReal ==
    \A v \in Range(items) : v.rule = "R3" =>
        LET c == v.where IN
        /\ Len(c) > 2 /\ c[1] = Last(c)
        /\ \A i \in 1 .. Len(c) - 1 : Edge(c[i], c[i + 1])
        /\ IsInjective(Front(c))
        /\ \E i \in DOMAIN c : packageOfFile(c[i]) # packageOfFile(c[1])

\* Where every file is a package of its own, a project whose files depend on each
\* other in a cycle gets an error; and one without a cycle gets none
\* (checkCyclicDependency).
CyclesAreReported ==
    LET names == Names(data.files)
        onward(S) == {n \in S : \E m \in S : Edge(n, m)}
        trimmed == FoldSeq(LAMBDA k, S : onward(S), names, [k \in 1 .. Len(data.files) |-> k])
        separate == Cardinality({f.of.pkg : f \in Range(data.files)}) = Len(data.files)
        reported == \E v \in Range(items) : v.rule = "R3"
    IN  rule > 3 => /\ reported => trimmed # {}
                    /\ separate /\ Cardinality(names) = Len(data.files) /\ trimmed # {} => reported

\* A dependency that rule R4 reports leads more than two layers up, although the rule
\* counts only the layers that occur (checkLayerViolation).
LayerGapsAreReal ==
    \A v \in Range(items) : v.rule = "R4" => v.where[2] - v.where[1] > 2

\* A file is a dependent of what it depends on and of nothing else, and no file
\* depends on itself (buildArchData).
DependenciesAgree ==
    rule > 0 => \A i, j \in DOMAIN data.files :
        LET f == data.files[i]
            g == data.files[j]
        IN  /\ g.name \in f.on => f.name \in g.by
            /\ f.name \in g.by => Edge(f.name, g.name)
            /\ f.name \notin f.on

\* The summary loses nothing that a rule found: as many violations are left as the
\* rules report, sorted by severity and then by file (summarizeViolations).
SummaryIsComplete ==
    Summarized =>
        /\ Len(items) = Sum([r \in 1 .. RuleCount |-> Len(rules[r])])
        /\ \A i \in 1 .. Len(items) - 1 :
              \/ severity(items[i]) < severity(items[i + 1])
              \/ severity(items[i]) = severity(items[i + 1]) /\ items[i].file <= items[i + 1].file

\* Every factor is a percentage, for an empty project too, and the overall score lies
\* between the worst and the best of them (computeHealthScore).
HealthIsPercentage ==
    \A h \in health :
        LET of == Range(h.factors) IN
        /\ of \subseteq 0 .. 100
        /\ \E low, high \in of : low <= h.overall /\ h.overall <= high
=============================================================================
