----------------------------- MODULE MCResilience -----------------------------
(* Small instances of the circuit breakers and of the chain around one of     *)
(* them, one scenario per behaviour: a breaker called by two goroutines or by *)
(* one, the chain with a fallback that may fail, one that cannot or none, and *)
(* a global breaker used by two instances of a service or by one that never   *)
(* resets it; and of what else stands before a handler: the checks of         *)
(* credentials and permissions, and the audit chain behind them; and of the   *)
(* dashboard server: the rules over the files of small projects, the watcher  *)
(* of those files, its change log over a crash.                               *)
EXTENDS ResilienceChain

CONSTANTS c1, c2, i1, i2, NoHash

VARIABLES
    scenario,
    gState, gFailures, gSuccesses, gCooled, gPc, gAnnounced, gHealthy,
    issued, expired, revoked, aged, forgotten, known, roles, assigned, changes,
    rPc, with, found, user, tooLate, fine,
    entries, root, proofs, damaged,
    project, data, rule, items, health,                               \* violations
    disk, edits, watched, watcher, at, scan, met, todo, build, archData, \* watchFiles
    seqNo, mem, days, acked, glued, loaded, stream, up,               \* its log
    kind, ctx, pipe, did, channel, closed, results, outcome, attempt, timer, tried,
    clock, last, deadline, calls,                                     \* composers
    mPc, target, dir, status, runner, events, heard, inOrder, undone, \* migration sessions,
    log, sealed, left, writing, logFile, alive, report,               \* their log
    function, pattern,                                                \* and functions
    size, resized, shrunk, week, currentTier, history, check, checks, prediction, \* tiers
    from, to, current, flags, done, loop, moves

globalVars == <<gState, gFailures, gSuccesses, gCooled, gPc, gAnnounced, gHealthy>>
accessVars == <<issued, expired, revoked, aged, forgotten, known, roles, assigned, changes,
                rPc, with, found, user, tooLate, fine>>
auditVars == <<entries, root, proofs, damaged>>
ruleVars == <<project, data, rule, items, health>>
boardVars == <<disk, edits, watched, watcher, at, scan, met, todo, build, archData,
               seqNo, mem, days, acked, glued, loaded, stream, up>>
composerVars == <<kind, ctx, pipe, did, channel, closed, results, outcome, attempt, timer, tried,
                  clock, last, deadline, calls>>
sessionVars == <<mPc, target, dir, status, runner, events, heard, inOrder, undone>>
engineVars == <<log, sealed, left, writing, logFile, alive, report>>
classVars == <<function, pattern>>
migrateVars == <<sessionVars, engineVars, classVars>>
monitorVars == <<size, resized, shrunk, week, currentTier, history, check, checks, prediction>>
managerVars == <<from, to, current, flags, done, loop, moves>>
tierVars == <<monitorVars, managerVars>>
kitVars == <<composerVars, migrateVars, tierVars>>
toolVars == <<ruleVars, boardVars, kitVars>>
guardVars == <<accessVars, auditVars>>
mcVars == <<scenario, allVars, globalVars, guardVars, toolVars>>

Two == INSTANCE GlobalCircuitBreaker WITH
    Instances <- {i1, i2}, MinRequestCount <- 2, MaxCount <- 3, Resets <- TRUE,
    state <- gState, failures <- gFailures, successes <- gSuccesses, cooled <- gCooled,
    pc <- gPc, announced <- gAnnounced, healthy <- gHealthy

One == INSTANCE GlobalCircuitBreaker WITH
    Instances <- {i1, i2}, MinRequestCount <- 2, MaxCount <- 3, Resets <- FALSE,
    state <- gState, failures <- gFailures, successes <- gSuccesses, cooled <- gCooled,
    pc <- gPc, announced <- gAnnounced, healthy <- gHealthy

Access == INSTANCE Security WITH
    Requests <- {"r1"}, Tokens <- {"t1"}, Outliving <- {}, Keys <- {"k1", "k2"}, Users <- {"svc"},
    UserOf <- [c \in {"t1", "k1", "k2"} |-> "svc"],
    Roles <- {"admin", "lead"},
    Parents <- [role \in {"admin", "lead"} |-> IF role = "lead" THEN {"admin"} ELSE {}],
    Grants <- {"admin"}, MaxChanges <- 1,
    Contents <- {"a", "b"}, MaxEntries <- 5, Holders <- {"h1"},
    pc <- rPc, seen <- found

Tokens == INSTANCE Security WITH
    Requests <- {"r1"}, Tokens <- {"t1", "t2"}, Outliving <- {"t2"}, Keys <- {}, Users <- {"svc"},
    UserOf <- [c \in {"t1", "t2"} |-> "svc"],
    Roles <- {"admin"}, Parents <- [role \in {"admin"} |-> {}], Grants <- {"admin"}, MaxChanges <- 2,
    Contents <- {"a", "b"}, MaxEntries <- 5, Holders <- {"h1"},
    pc <- rPc, seen <- found

\* The projects of the rules: every dependency graph of three files of one, two or
\* three packages, and some that meet what the rules look for.
Symbol(n) == [name |-> n, kind |-> "func", word |-> "", doc |-> TRUE]
Clean == [parses |-> TRUE, asserts |-> {}, functions |-> <<>>, prints |-> 0, literals |-> <<>>,
          assignments |-> <<>>, globals |-> <<>>]
Plain(n) == [name |-> n, pkg |-> n, dir |-> n, layer |-> n, lines |-> 100, imports |-> {},
             calls |-> {}, symbols |-> <<Symbol(n)>>, traits |-> {}, path |-> "", source |-> Clean]
Dirty == [parses |-> TRUE, asserts |-> {}, prints |-> 2,
          functions |-> <<[span |-> 81, decisions |-> 10], [span |-> 80, decisions |-> 9]>>,
          literals |-> <<[size |-> 7, hit |-> "port"], [size |-> 6, hit |-> "url"], [size |-> 9, hit |-> ""]>>,
          assignments |-> <<[call |-> TRUE, left |-> 2, blanks |-> 2], [call |-> TRUE, left |-> 1, blanks |-> 1]>>,
          globals |-> [k \in 1 .. 4 |-> [named |-> TRUE, valued |-> TRUE]]]

Graphs == {[i \in 1 .. 3 |-> [Plain(i) EXCEPT !.calls = g[i], !.pkg = p[i]]] :
             g \in {h \in [1 .. 3 -> SUBSET (1 .. 3)] : \A k \in 1 .. 3 : k \notin h[k]},
             p \in {<<1, 2, 3>>, <<1, 1, 2>>, <<1, 2, 1>>}}

Empty == <<>>
Broken == <<[Plain(1) EXCEPT !.source.parses = FALSE]>>
Layered == <<[Plain(1) EXCEPT !.layer = 0, !.calls = {2, 3, 4}], Plain(2), Plain(3),
             [Plain(4) EXCEPT !.layer = 7]>>
Gapped == <<[Plain(1) EXCEPT !.layer = 0, !.calls = {2}], [Plain(2) EXCEPT !.layer = 7]>>
Namesakes == <<[Plain(1) EXCEPT !.calls = {2}], [Plain(1) EXCEPT !.pkg = 3, !.symbols = <<>>],
               [Plain(2) EXCEPT !.imports = {1}]>>
Importing == <<[Plain(1) EXCEPT !.imports = {2}], [Plain(2) EXCEPT !.imports = {3}],
               [Plain(3) EXCEPT !.imports = {1, 9}]>>
Offending == <<[Plain(1) EXCEPT !.lines = 2000, !.source = Dirty, !.traits = {"hint"},
                   !.symbols = [k \in 1 .. 60 |-> [Symbol(k) EXCEPT !.kind = "interface", !.doc = FALSE]]],
               [Plain(2) EXCEPT !.traits = {"main", "hint"}, !.source = Dirty],
               [Plain(3) EXCEPT !.traits = {"test"}, !.dir = 1],
               [Plain(4) EXCEPT !.lines = 20, !.symbols = <<>>, !.traits = {"underscore"}],
               [Plain(5) EXCEPT !.lines = 20, !.symbols = <<>>]>>
Primitive == <<[Plain(1) EXCEPT !.symbols = <<[Symbol(1) EXCEPT !.kind = "type", !.word = "Port"]>>,
                   !.path = "Port", !.traits = {"hint"}, !.source.asserts = {"Port"}],
               [Plain(2) EXCEPT !.traits = {"hint"}, !.layer = 0],
               [Plain(3) EXCEPT !.symbols[1].kind = "interface"]>>
Sound == <<[Plain(1) EXCEPT !.symbols = [k \in 1 .. 6 |->
                [Symbol(k) EXCEPT !.kind = IF k = 1 THEN "interface" ELSE "type"]]]>>
Huge == <<[Plain(1) EXCEPT !.lines = 2500]>>
Crowded == [i \in 1 .. 22 |-> [Plain(i) EXCEPT !.layer = 7, !.calls = {1}]]

RuleProjects ==
    Graphs \cup {Empty, Broken, Layered, Gapped, Namesakes, Importing, Offending,
               Primitive, Sound, Huge, Crowded}

Board == INSTANCE Dashboard WITH
    FileCount <- 2, MaxEdits <- 4, Breaks <- {3}, Room <- 2, MaxMem <- 20, MaxEntries <- 0,
    MaxDays <- 1, Projects <- RuleProjects, found <- scan

Journal == INSTANCE Dashboard WITH
    FileCount <- 2, MaxEdits <- 0, Breaks <- {}, Room <- 2, MaxMem <- 2, MaxEntries <- 4,
    MaxDays <- 2, Projects <- RuleProjects, found <- scan

Comp == INSTANCE Composers WITH
    Branches <- 2, StepCount <- 2, MaxAttempts <- 2, Callers <- {"u1", "u2"}, Interval <- 2, MaxClock <- 5,
    answer <- outcome

Dir(markers, parses, files) == [markers |-> markers, parses |-> parses, files |-> files, tests |-> {0}]

Engine == INSTANCE Migration WITH
    Jobs <- {"j1"}, Orders <- {"o1", "o2"}, Room <- 1, Writers <- {"w1", "w2"}, MaxEntries <- 4,
    Dirs <- {Dir({"go", "python"}, TRUE, 4), Dir({"go"}, TRUE, 1), Dir({"go"}, FALSE, 1), Dir({}, TRUE, 0)},
    Bodies <- [statements : SUBSET {"if", "io", "nested io", "go"}, calls : {0, 2, 3},
               words : SUBSET {"port", "adapter"}, parameter : {"plain", "context", "io", "client"},
               error : BOOLEAN],
    pc <- mPc, channel <- events, disk <- logFile

Size(files, more) == [files |-> files, languages |-> more, modules |-> 5, teams |-> 9]

Tier == INSTANCE Tiers WITH
    Projects <- {Size(9, 2), Size(100, 2), Size(1000, 3)},
    Routes <- {r \in (0 .. 5) \X (0 .. 5) : r[1] <= r[2]}, Users <- {"u1", "u2"},
    MaxHistory <- 3, Steady <- 3, Firm <- 4, MaxChecks <- 4, MaxWeeks <- 1, MaxEdits <- 2, MaxCalls <- 4,
    project <- size, edits <- resized, calls <- moves

\* What a scenario does not use stays as it is at first.
KitInit ==
    /\ Comp!Init /\ (scenario = "compose" \/ kind = "parallel")
    /\ Engine!ServerInit
    /\ Engine!LogInit /\ (scenario = "engine" \/ left = [w \in {"w1", "w2"} |-> <<"bad">>])
    /\ IF scenario = "classify" THEN Engine!ClassifyInit ELSE function = "none" /\ pattern = "unknown"
    /\ Tier!MonitorInit /\ (scenario = "drift" \/ (size.files = 9 /\ currentTier = 0))
    /\ IF scenario = "tiers" THEN Tier!ManagerInit
       ELSE /\ from = 0 /\ to = 0 /\ current = 0 /\ flags = {} /\ done = FALSE
            /\ loop = [u \in {"u1", "u2"} |-> "idle"] /\ moves = 0

MCInit ==
    /\ scenario \in {"breaker", "alone", "chain", "global", "one",
                     "access", "tokens", "audit", "rules", "watch", "calm", "log",
                     "compose", "migrate", "engine", "classify", "drift", "tiers"}
    /\ KitInit
    /\ ChainInit /\ (scenario = "chain" \/ fallback = "none")
    /\ Two!Init
    /\ IF scenario = "tokens" THEN Tokens!Init ELSE Access!Init
    /\ Access!AuditInit
    /\ IF scenario = "rules" THEN Board!RulesInit
       ELSE project = Empty /\ data = <<>> /\ rule = 0 /\ items = <<>> /\ health = {}
    /\ Board!Init /\ (scenario \in {"watch", "calm"} \/ disk = <<0, 0>>)

In(s) == scenario = s /\ UNCHANGED scenario

Breaker == In("breaker") /\ Next /\ UNCHANGED <<chainVars, globalVars, guardVars, toolVars>>
Alone ==
    /\ In("alone")
    /\ Run(c1) \/ CooldownPasses
    /\ UNCHANGED <<chainVars, globalVars, guardVars, toolVars>>
Chain == In("chain") /\ ChainNext /\ UNCHANGED <<globalVars, guardVars, toolVars>>
Global == In("global") /\ Two!Next /\ UNCHANGED <<allVars, guardVars, toolVars>>
GlobalAlone ==
    /\ In("one")
    /\ One!Answer(i1) \/ One!Report(i1) \/ One!CooldownPasses \/ One!ServiceRecovers
    /\ UNCHANGED <<allVars, guardVars, toolVars>>
Requesting == UNCHANGED <<allVars, globalVars, auditVars, toolVars>>
Authenticate == In("access") /\ Access!Next /\ Requesting
UseTokens == In("tokens") /\ Tokens!Next /\ Requesting
Record == In("audit") /\ Access!AuditNext /\ UNCHANGED <<allVars, globalVars, accessVars, toolVars>>

CheckRules ==
    /\ In("rules") /\ Board!RulesNext
    /\ UNCHANGED <<allVars, globalVars, guardVars, boardVars, kitVars>>

Served == UNCHANGED <<allVars, globalVars, guardVars, ruleVars, kitVars>>

\* The files change and the watcher follows, with a client and builds that fail or
\* with neither.
WatchFiles ==
    /\ In("watch") /\ Served
    /\ \/ edits < 3 /\ \E f \in 1 .. 2 : Board!Write(f) \/ Board!Unlink(f)
       \/ Board!Watch("written") \/ Board!BuildFails \/ Board!ReceiveDev

CalmWatch == In("calm") /\ Board!Watch("written") /\ Served
CalmFiles ==
    /\ In("calm") /\ Served
    /\ \E f \in 1 .. 2 : Board!Write(f) \/ Board!Unlink(f)

KeepLog == In("log") /\ Journal!LogNext /\ Served

\* The composers, the migration engine and the tiers stand alone.
Others == UNCHANGED <<allVars, globalVars, guardVars, ruleVars, boardVars>>
Composing == In("compose") /\ Others /\ UNCHANGED <<migrateVars, tierVars>>
Migrating == In("migrate") /\ Others /\ UNCHANGED <<composerVars, engineVars, classVars, tierVars>>
Moving == In("tiers") /\ Others /\ UNCHANGED <<composerVars, migrateVars, monitorVars>>

Compose == Composing /\ Comp!Next
Migrate == Migrating /\ Engine!ServerNext
KeepMigrationLog ==
    In("engine") /\ Engine!LogNext /\ Others /\ UNCHANGED <<composerVars, sessionVars, classVars, tierVars>>
Classify ==
    In("classify") /\ Engine!ClassifyNext /\ Others /\ UNCHANGED <<composerVars, sessionVars, engineVars, tierVars>>
Monitor == In("drift") /\ Tier!MonitorNext /\ Others /\ UNCHANGED <<composerVars, migrateVars, managerVars>>
Move == Moving /\ Tier!ManagerNext

\* Requests, entries, rules and calls run out, by the bounds of their modules.
Exhausted ==
    \E s \in {"access", "tokens", "audit", "rules", "log", "compose", "migrate", "engine", "classify", "drift", "tiers"} :
       In(s)

MCNext ==
    \/ Breaker \/ Alone \/ Chain \/ Global \/ GlobalAlone
    \/ Authenticate \/ UseTokens \/ Record
    \/ CheckRules \/ WatchFiles \/ CalmWatch \/ CalmFiles \/ KeepLog
    \/ Compose \/ Migrate \/ KeepMigrationLog \/ Classify \/ Monitor \/ Move
    \/ Exhausted /\ UNCHANGED <<allVars, globalVars, guardVars, toolVars>>

\* The fairness of the FairSpec of CircuitBreaker, GlobalCircuitBreaker, Dashboard and
\* Composers, the ServerFairness of Migration and the ManagerFairness of Tiers. At most
\* three workers each go on by themselves; a scenario never changes, so that the fairness
\* of the first workers of all scenarios together is that of each.
Worker1 ==
    \/ In("breaker") /\ CooldownPasses
    \/ In("global") /\ Two!CooldownPasses
    \/ In("calm") /\ Board!Watch("written")
    \/ In("compose") /\ (Comp!Group \/ Comp!Retry)
    \/ In("migrate") /\ (Engine!Runner("j1") \/ (mPc["j1"] # "ready" /\ Engine!Analyze("j1")))

Worker(c, i, b, q, u) ==
    \/ In("breaker") /\ Run(c)
    \/ In("global") /\ (Two!Answer(i) \/ Two!Report(i))
    \/ In("compose") /\ (Comp!Pipeline(b) \/ Comp!Send(b))
    \/ In("migrate") /\ (Engine!AfterLock(q) \/ Engine!UndoEnds(q))
    \/ In("tiers") /\ ((loop[u] = "reads" /\ Tier!AdvanceAll(u)) \/ Tier!AdvanceInLoop(u))

Worker2 == Worker(c1, i1, 1, "o1", "u1")
Worker3 == Worker(c2, i2, 2, "o2", "u2")

\* What the workers of a scenario change; the rest never changes in it.
Moved ==
    CASE scenario = "breaker" -> vars
      [] scenario = "global" -> globalVars
      [] scenario = "calm" -> boardVars
      [] scenario = "compose" -> composerVars
      [] scenario = "migrate" -> sessionVars
      [] OTHER -> managerVars

Fairness == WF_Moved(Worker1) /\ WF_Moved(Worker2) /\ WF_Moved(Worker3)

MCSpec == MCInit /\ [][MCNext]_mcVars /\ Fairness

-----------------------------------------------------------------------------

\* The type invariants of the breaker, of the chain in the scenarios that run one,
\* of the global breaker, of the requests, of the audit chain, of the dashboard, of the
\* composers, of the migration engine and of the tiers.
TypesOK ==
    /\ scenario = "compose" => Comp!TypeOK
    /\ scenario \in {"migrate", "engine", "classify"} => Engine!TypeOK
    /\ scenario \in {"drift", "tiers"} => Tier!TypeOK
    /\ scenario = "rules" => Board!RulesTypeOK
    /\ scenario = "log" => Journal!TypeOK
    /\ scenario \in {"watch", "calm"} => Board!TypeOK
    /\ scenario = "access" => Access!TypeOK
    /\ scenario = "tokens" => Tokens!TypeOK
    /\ scenario = "audit" => Access!AuditTypeOK
    /\ scenario \in {"breaker", "alone"} => TypeOK
    /\ scenario = "chain" => ChainTypeOK
    /\ scenario \in {"global", "one"} => Two!TypeOK

\* A single user of a circuit meets what its configuration promises: called by one
\* goroutine at a time it opens after Threshold consecutive failures
\* (CircuitBreaker.Run), and the subscribers of the bus know the state of a global
\* circuit that one instance uses and nobody resets (GlobalCircuitBreaker).
SingleUserIsExact ==
    /\ scenario = "alone" => OpensAtThreshold
    /\ scenario = "one" => One!SubscribersInformed

\* A recovered service ends behind a closed circuit (CircuitBreaker.Run), however
\* the calls under way interleave, and behind a closed global circuit, resets
\* included (GlobalCircuitBreaker).
CircuitsClose ==
    /\ scenario = "breaker" => ClosesWhenHealthy
    /\ scenario = "global" => Two!EndsClosed


\* The tools tell the truth.  The dashboard's rules report the dependency cycles and
\* layer gaps that exist, lose nothing in the summary and score in percent
\* (violations_rules.go, health.go); its change log tells a possible story of each file,
\* clients get it in order (sse.go), and a crash or a failing write forgets and renumbers
\* nothing that was logged (arch_changelog.go).  Composers return what was executed, hear
\* of every failure, try again only what may pass and space their calls (composer*.go,
\* patterns_retry.go).  Clients of the migration server and its handlers agree on the
\* sessions, the log of what was done is numbered and read back as it was written, I/O is
\* not taken for pure (cmd/arch-cli/migrate_*.go, go-core/migrate); modules are enabled in
\* order and predictions follow from the last checks (tier_*.go).
ToolsSound ==
    /\ scenario = "rules" =>
          /\ Board!CyclesAreReal /\ Board!CyclesAreReported /\ Board!LayerGapsAreReal
          /\ Board!DependenciesAgree /\ Board!SummaryIsComplete /\ Board!HealthIsPercentage
    /\ scenario \in {"watch", "calm"} =>
          Board!StoryIsPossible /\ Board!ClientAgrees /\ Board!QueriesAgree
    /\ scenario = "log" => Journal!LogSurvives /\ Journal!RestartRemembers /\ Journal!StreamInOrder
    /\ scenario = "compose" => Comp!TraceIsExact /\ Comp!ParallelIsComplete
                                  /\ Comp!RetriesAreJustified /\ Comp!CallsAreSpaced
    /\ scenario = "migrate" => Engine!SessionsAgree /\ Engine!RollbackStands
    /\ scenario = "engine" => Engine!LogIsFaithful /\ Engine!VerdictsAgree
    /\ scenario = "classify" => Engine!ClassesAreSound
    /\ scenario = "drift" => Tier!PredictionsFollow /\ Tier!HistoryIsLatest
    /\ scenario = "tiers" => Tier!TransitionIsExact /\ Tier!BridgesFit

\* Tools settle: once the files are left alone the dashboard serves their last version
\* (watchFiles); branches that run in parallel end although their caller left, and the
\* caller of a composer that tries again gets an answer (RunParallel, WithRetry); a
\* migration and its rollback come to an end and what was sealed stays (migrate_*.go,
\* log_entry.go); and so does a transition of all phases (AdvanceAll).
ToolsSettle ==
    /\ Engine!SealedStays
    /\ scenario = "calm" => Board!CatchesUp
    /\ scenario = "compose" => Comp!BranchesEnd /\ Comp!CallersAnswered
    /\ scenario = "migrate" => Engine!SessionsEnd
    /\ scenario = "tiers" => Tier!AdvanceEnds
=============================================================================
