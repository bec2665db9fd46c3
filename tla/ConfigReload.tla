---------------------------- MODULE ConfigReload ----------------------------
(***************************************************************************)
(* The two configurations that are reloaded while a program runs:          *)
(*                                                                         *)
(*   - HotReload (go-core/config_hotreload.go) polls the hash of a         *)
(*     pipeline configuration and rebuilds the pipeline; the file is read  *)
(*     once for its hash and again for the build;                          *)
(*   - ConfigWatcher (go-core/config_validation_watcher.go) polls the      *)
(*     modification time of the application configuration and has the      *)
(*     ConfigLoader (go-core/config_loader.go) read it.                    *)
(*                                                                         *)
(* Others write the files, and load them, at any moment.                   *)
(***************************************************************************)
EXTENDS Naturals, Sequences, FiniteSets

CONSTANTS
    Pipelines,   \* contents of the pipeline file: [id, steps]
    Registry,    \* adapters of the resolver: name -> kind
    Apps,        \* contents of the application file: field -> value
    Env,         \* environment: field -> value or Unset
    Secrets,     \* references: [of a secret -> its value or Unset]
    Unset, Zero, \* an absent value, the value of an unparsable one
    None,        \* no file, nothing built or loaded
    Numeric,     \* fields that are parsed as numbers or booleans
    Numbers,     \* the values that parse as such
    Confidential,\* fields whose value may be a reference
    MaxWrites,   \* bound on the writes of a file
    MaxErrors    \* bound on the reads of the pipeline file that fail

VARIABLES
    pipeFile, pipeWritten,       \* the pipeline file, and its contents so far
    current, lastHash, hash,     \* HotReload's pipeline, lastHash and currentHash
    hPc,                         \* "off", "tick", "build", "stopped"
    stopping, errors,            \* Stop has been called, reads that failed
    appFile, stamp,              \* the application file and its modification time
    cfg, told,                   \* what Get returns, what the callbacks were given
    modTime, since,              \* the watcher's last Stat and its first
    wPc, loading,                \* and its current Load
    missed                       \* the modification whose Load failed for a reason that passes

hotVars == <<pipeFile, pipeWritten, current, lastHash, hash, hPc, stopping, errors>>
watchVars == <<appFile, stamp, cfg, told, modTime, since, wPc, loading, missed>>
vars == <<hotVars, watchVars>>

AllowedStepTypes == {"atom", "port", "adapter", "composer"}

\* parseConfig: an id, at least one step, and only step types that exist.
Parses(p) ==
    /\ p.id # ""
    /\ p.steps # <<>>
    /\ \A i \in DOMAIN p.steps : p.steps[i].type \in AllowedStepTypes

\* PipelineBuilder.Build: every step's name is registered with the step's type.
Builds(p) ==
    /\ Parses(p)
    /\ \A i \in DOMAIN p.steps :
        /\ p.steps[i].name \in DOMAIN Registry
        /\ Registry[p.steps[i].name] = p.steps[i].type

\* ValidateConfig: all that is wrong with a pipeline, not only the first.
PipelineErrors(p) ==
    (IF p.id = "" THEN {"id"} ELSE {}) \cup (IF p.steps = <<>> THEN {"steps"} ELSE {})
    \cup {<<"name", i>> : i \in {j \in DOMAIN p.steps : p.steps[j].name = ""}}
    \cup {<<"type", i>> : i \in {j \in DOMAIN p.steps :
                                    p.steps[j].type \notin AllowedStepTypes}}

\* ApplyEnvOverrides: a number that cannot be parsed becomes zero.
Overridden(app) ==
    [f \in DOMAIN app |->
        IF Env[f] = Unset THEN app[f]
        ELSE IF f \in Numeric /\ Env[f] \notin Numbers THEN Zero ELSE Env[f]]

\* resolveSecrets: the references among the confidential fields.
References(app) == {f \in Confidential : app[f] \in DOMAIN Secrets}
Resolvable(app) == \A f \in References(app) : Secrets[app[f]] # Unset
Resolved(app) == [f \in DOMAIN app |-> IF f \in References(app) THEN Secrets[app[f]] ELSE app[f]]

\* LoadFromFile without its last assignment.
Loads(app) == Resolvable(Overridden(app))
Loaded(app) == Resolved(Overridden(app))

TypeOK ==
    /\ pipeFile \in Pipelines /\ pipeWritten \in Seq(Pipelines)
    /\ {current, lastHash, hash} \subseteq Pipelines \cup {None}
    /\ hPc \in {"off", "tick", "build", "stopped"} /\ stopping \in BOOLEAN
    /\ errors \in 0..MaxErrors
    /\ appFile \in Apps /\ stamp \in 0..MaxWrites
    /\ since \in 0..modTime /\ modTime \in 0..stamp /\ missed \in 0..modTime
    /\ wPc \in {"off", "tick", "load", "store", "notify", "stopped"}
    /\ loading \in Apps \cup {None}

Init ==
    /\ pipeFile \in Pipelines /\ pipeWritten = <<pipeFile>>
    /\ current = None /\ lastHash = None /\ hash = None
    /\ hPc = "off" /\ stopping = FALSE /\ errors = 0
    /\ appFile \in Apps /\ stamp = 0
    /\ cfg = None /\ told = None
    /\ modTime = 0 /\ since = 0 /\ wPc = "off" /\ loading = None /\ missed = 0

-----------------------------------------------------------------------------
(* HotReload *)

WritePipeline(p) ==
    /\ Len(pipeWritten) =< MaxWrites
    /\ p # pipeFile
    /\ pipeFile' = p /\ pipeWritten' = Append(pipeWritten, p)
    /\ UNCHANGED <<current, lastHash, hash, hPc, stopping, errors, watchVars>>

\* Start: one read gives the pipeline and its hash; the watch begins.
StartHot ==
    /\ hPc = "off" /\ Builds(pipeFile)
    /\ current' = pipeFile /\ lastHash' = pipeFile
    /\ hPc' = "tick"
    /\ UNCHANGED <<pipeFile, pipeWritten, hash, stopping, errors, watchVars>>

\* A tick: computeFileHash, which may fail.  Different contents have different
\* hashes.
HashFile ==
    /\ hPc = "tick" /\ ~stopping
    /\ pipeFile # lastHash
    /\ hash' = pipeFile /\ hPc' = "build"
    /\ UNCHANGED <<pipeFile, pipeWritten, current, lastHash, stopping, errors, watchVars>>

\* Mutant: the hash is remembered although the build failed.
RebuildFailsSeen ==
    /\ hPc = "build"
    /\ hPc' = "tick" /\ lastHash' = hash
    /\ errors < MaxErrors /\ errors' = errors + 1
    /\ UNCHANGED <<pipeFile, pipeWritten, current, hash, stopping, watchVars>>

\* buildFromFile cannot read the file: the next tick tries again.
RebuildFails ==
    /\ hPc = "build"
    /\ hPc' = "tick"
    /\ errors < MaxErrors /\ errors' = errors + 1
    /\ UNCHANGED <<pipeFile, pipeWritten, current, lastHash, hash, stopping, watchVars>>

\* Mutant: what was parsed becomes current without a look at the builder's error.
RebuildUnchecked ==
    /\ hPc = "build"
    /\ hPc' = "tick"
    /\ IF Parses(pipeFile) THEN current' = pipeFile /\ lastHash' = hash
                            ELSE UNCHANGED <<current, lastHash>>
    /\ UNCHANGED <<pipeFile, pipeWritten, hash, stopping, errors, watchVars>>

\* buildFromFile reads the file again; lastHash is the hash of the first read.
Rebuild ==
    /\ hPc = "build"
    /\ hPc' = "tick"
    /\ IF Builds(pipeFile) THEN current' = pipeFile /\ lastHash' = hash
                           ELSE UNCHANGED <<current, lastHash>>
    /\ UNCHANGED <<pipeFile, pipeWritten, hash, stopping, errors, watchVars>>

\* Stop cancels the context and waits for the watch to close done.
StopHot ==
    /\ ~stopping /\ stopping' = TRUE
    /\ UNCHANGED <<pipeFile, pipeWritten, current, lastHash, hash, hPc, errors, watchVars>>

WatchEnds ==
    /\ hPc = "tick" /\ stopping
    /\ hPc' = "stopped"
    /\ UNCHANGED <<pipeFile, pipeWritten, current, lastHash, hash, stopping, errors, watchVars>>

-----------------------------------------------------------------------------
(* ConfigWatcher *)

WriteApp(a) ==
    /\ stamp < MaxWrites
    /\ appFile' = a /\ stamp' = stamp + 1
    /\ UNCHANGED <<hotVars, cfg, told, modTime, since, wPc, loading, missed>>

\* Start remembers the modification time of a file that exists.
StartWatch ==
    /\ wPc = "off"
    /\ modTime' = stamp /\ wPc' = "tick"
    /\ since' = stamp
    /\ UNCHANGED <<hotVars, appFile, stamp, cfg, told, loading, missed>>

\* A tick whose Stat shows a later modification.
StatNewer ==
    /\ wPc = "tick" /\ stamp > modTime
    /\ modTime' = stamp
    /\ wPc' = "load"
    /\ UNCHANGED <<hotVars, appFile, stamp, cfg, told, since, loading, missed>>

\* The caller's own LoadFromFile before it starts the watcher.
LoadFirst ==
    /\ wPc = "off" /\ cfg = None /\ Loads(appFile)
    /\ cfg' = Loaded(appFile)
    /\ UNCHANGED <<hotVars, appFile, stamp, told, modTime, since, wPc, loading, missed>>

\* LoadFromFile; when it fails the old configuration stays, and the modification
\* counts as seen,
Load ==
    /\ wPc = "load"
    /\ IF Loads(appFile) THEN loading' = appFile /\ wPc' = "store"
                         ELSE wPc' = "tick" /\ UNCHANGED loading
    /\ UNCHANGED <<hotVars, appFile, stamp, cfg, told, modTime, since, missed>>

\* also when it is good, but it or the file of a secret cannot be read now.
LoadFails ==
    /\ wPc = "load" /\ wPc' = "tick"
    /\ missed' = modTime
    /\ UNCHANGED <<hotVars, appFile, stamp, cfg, told, modTime, since, loading>>

Store ==
    /\ wPc = "store"
    /\ cfg' = Loaded(loading) /\ wPc' = "notify"
    /\ UNCHANGED <<hotVars, appFile, stamp, told, modTime, since, loading, missed>>

\* reload calls the callbacks with the configuration that was loaded.
Notify ==
    /\ wPc = "notify"
    /\ told' = Loaded(loading) /\ wPc' = "tick"
    /\ UNCHANGED <<hotVars, appFile, stamp, cfg, modTime, since, loading, missed>>

StopWatch ==
    /\ wPc = "tick" /\ wPc' = "stopped"
    /\ UNCHANGED <<hotVars, appFile, stamp, cfg, told, modTime, since, loading, missed>>

HotNext == HashFile \/ Rebuild \/ RebuildFails \/ WatchEnds
WatchNext == StatNewer \/ Load \/ LoadFails \/ Store \/ Notify

HotReload == (\E p \in Pipelines : WritePipeline(p)) \/ StartHot \/ StopHot \/ HotNext
ConfigWatcher ==
    (\E a \in Apps : WriteApp(a)) \/ LoadFirst \/ StartWatch \/ StopWatch \/ WatchNext

Next == HotReload \/ ConfigWatcher

Spec == Init /\ [][Next]_vars /\ WF_vars(HotNext) /\ WF_vars(WatchNext)

-----------------------------------------------------------------------------

\* A pipeline that runs was built from a file that was complete and registered,
\* and a file that cannot be built leaves the old pipeline in place (watch).
RunsWhatBuilds ==
    /\ hPc # "off" => current # None
    /\ current # None =>
        Builds(current) /\ PipelineErrors(current) \subseteq {"name"} \X DOMAIN current.steps

\* Callbacks and Get never see a reference in place of its secret.
SecretsAreResolved ==
    \A c \in {cfg, told} : c # None =>
        \A f \in Confidential : c[f] \notin DOMAIN Secrets

\* "hot-reloading": while the watch runs, a content that stays in the file and can be
\* built ends up as the current pipeline, however the writes interleave with the two
\* reads; but for one that was in the file before, and went and came back around the
\* second read: its hash is then that of the pipeline that was built in between, and no
\* later tick builds it.
CameBack(p) == Cardinality({i \in DOMAIN pipeWritten : pipeWritten[i] = p}) > 1
PipelineCatchesUp ==
    \A p \in {q \in Pipelines : Builds(q)} :
        <>[](pipeFile = p /\ hPc # "off" /\ ~stopping) =>
            <>[](current = p) \/ <>[](CameBack(p) /\ lastHash = p)

\* The same of the application configuration once it was written under the watch,
\* and of what its callbacks know; but for a last modification that could not be read
\* when it was seen.
AppCatchesUp ==
    \A a \in {b \in Apps : Loads(b)} :
        <>[](appFile = a /\ stamp > since /\ wPc \notin {"off", "stopped"}) =>
            <>[](cfg = Loaded(a) /\ told = Loaded(a)) \/ <>[](missed = stamp)

\* Stop of a watch that was started returns.
StopReturns == (stopping /\ hPc # "off") ~> hPc = "stopped"
=============================================================================
