-------------------------------- MODULE Arch --------------------------------
(***************************************************************************)
(* The architecture checks of the command line (go-core/arch: parser.go,   *)
(* analyzer.go, validator.go, guardian.go, migration.go, pipeline.go): a   *)
(* scan of a directory that somebody edits, the layers of its files, the   *)
(* violations, the decision, the drift from a baseline and the next        *)
(* version.                                                                *)
(*                                                                         *)
(* A file is what ParseFile keeps of it.  Scores are in hundredths; where  *)
(* the float is below an exact bound, violations already decide otherwise. *)
(* What a file depends on are package directories, and a node of the graph *)
(* that is searched for cycles is the name of a file: they meet only in a  *)
(* directory that is called like a Go file.                                *)
(***************************************************************************)
EXTENDS Integers, FiniteSets, FiniteSetsExt

CONSTANTS
    Levels,     \* Levels[n]: the layers (0..7) whose pattern is a prefix of name n
    Dotted,     \* names n for which there is a package directory n.go
    Versions,   \* versions a project may be at
    MaxEdits    \* bounds the edits

\* Names, without ".go", of files and of the packages they import, in the order of a
\* walk.
Names == DOMAIN Levels

\* Names are naturals, each of Levels[n] is a set of 0..7, and MaxEdits is a natural.

VARIABLES
    project,    \* the files that are there
    edits,
    todo,       \* what the walk of ParseDirectory has not come to
    open,       \* the file that is parsed and whose lines are not counted yet
    scan,       \* the files it has parsed, each with the level it was given
    steady,     \* nothing has been edited since the walk began
    scanned,    \* the scan is complete
    baseline,   \* an earlier project
    version     \* <<major, minor, patch>>

archVars == <<project, edits, todo, open, scan, steady, scanned, baseline, version>>

NewFile == [lines |-> 100, symbols |-> 1, deps |-> {}, thirdParty |-> FALSE]

ArchInit ==
    /\ project \in {[n \in Names |-> NewFile],
                    [n \in Names |-> [NewFile EXCEPT !.deps = {n + 1} \cap Names]]}
    /\ edits = 0
    /\ todo = {} /\ open = <<>> /\ scan = <<>> /\ steady = FALSE /\ scanned = FALSE
    /\ baseline = project
    /\ version \in Versions

Without(files, n) == [m \in DOMAIN files \ {n} |-> files[m]]
With(files, n, file) == [m \in DOMAIN files \cup {n} |-> IF m = n THEN file ELSE files[m]]

\* The developers: a file comes or goes, or one thing about it changes.
Edit ==
    /\ edits < MaxEdits
    /\ edits' = edits + 1
    /\ \E n \in Names :
        IF n \in DOMAIN project
        THEN \/ project' = Without(project, n)
             \/ project' = [project EXCEPT ![n].lines = 400 - @ + 100]
             \/ project' = [project EXCEPT ![n].symbols = 3 - @]
             \/ project' = [project EXCEPT ![n].thirdParty = ~@]
             \/ \E d \in Names \ project[n].deps :
                    project' = [project EXCEPT ![n].deps = @ \cup {d}]
        ELSE project' = With(project, n, NewFile)
    /\ steady' = FALSE
    /\ UNCHANGED <<todo, open, scan, scanned, baseline, version>>

-----------------------------------------------------------------------------
(* ParseDirectory *)

BeginScan ==
    /\ todo = {} /\ open = <<>> /\ ~scanned
    /\ todo' = DOMAIN project
    /\ scan' = <<>>
    /\ steady' = TRUE
    /\ scanned' = (DOMAIN project = {})
    /\ UNCHANGED <<project, edits, open, baseline, version>>

\* GetLayerInfo walks a map of prefixes and takes the first that matches: of several
\* any.  A file without a pattern is of L7.
Layer(n) == IF Levels[n] = {} THEN {7} ELSE Levels[n]

\* ParseFile of the next one in order; a file that is gone is skipped without an error.
ParseFile(n) ==
    /\ open = <<>>
    /\ n \in todo /\ \A m \in todo : n <= m
    /\ todo' = todo \ {n}
    /\ open' = IF n \in DOMAIN project THEN <<n, project[n]>> ELSE <<>>
    /\ scanned' = (todo' = {} /\ open' = <<>>)
    /\ UNCHANGED <<project, edits, scan, steady, baseline, version>>

\* It reads the file a second time to count its lines: none when it has gone.
CountLines ==
    /\ open # <<>>
    /\ LET n == open[1]
           lines == IF n \in DOMAIN project THEN project[n].lines ELSE 0
       IN  \E level \in Layer(n) :
            scan' = With(scan, n, [file |-> [open[2] EXCEPT !.lines = lines], level |-> level])
    /\ open' = <<>>
    /\ scanned' = (todo = {})
    /\ UNCHANGED <<project, edits, todo, steady, baseline, version>>

-----------------------------------------------------------------------------
(* DetectViolations, over the files of a scan *)

Deps(n) == scan[n].file.deps

\* The edges of the graph that lead to a node.
Nodes(n) == Deps(n) \cap Dotted

\* DFS from start: what it visits, one edge further each time.
Visited(start) ==
    LET after[i \in 0..Cardinality(Names)] ==
            IF i = 0 THEN {start}
            ELSE after[i - 1] \cup UNION {Nodes(n) : n \in after[i - 1] \cap DOMAIN scan}
    IN  after[Cardinality(Names)] \cap DOMAIN scan

\* A mutant: the cycle through a file itself alone is looked for.
SelfCycle(start) == start \in Nodes(start)

\* dfsCycle: a visited file leads back to the start.
DfsCycle(start) == \E n \in Visited(start) : start \in Nodes(n)

\* detectCircularDependencies reports one file of a cycle and stops.
Circular == {[rule |-> "circular", of |-> "project"] : n \in {m \in DOMAIN scan : DfsCycle(m)}}

Edges == {e \in Names \X Names : e[1] \in DOMAIN scan /\ e[2] \in Deps(e[1])}

\* The layer of a dependency is drawn anew each time, from its name with ".go".
DrawnLayer(e, high) ==
    CHOOSE l \in Layer(e[2]) :
        \A k \in Layer(e[2]) : IF e \in high THEN l >= k ELSE l <= k

Reverse(high) ==
    {[rule |-> "reverse", of |-> e] :
        e \in {d \in Edges : scan[d[1]].level < DrawnLayer(d, high)}}

LayerJumps(high) ==
    {[rule |-> "jump", of |-> e] :
        e \in {d \in Edges : DrawnLayer(d, high) - scan[d[1]].level >= 2}}

LongFiles == {[rule |-> "long", of |-> n] : n \in {m \in DOMAIN scan : scan[m].file.lines > 300}}

ThirdParty ==
    {[rule |-> "thirdParty", of |-> n] :
        n \in {m \in DOMAIN scan : scan[m].level <= 3 /\ scan[m].file.thirdParty}}

\* Each rule makes its own draws, which are given by the edges with the higher layer.
Violations(high, higher) ==
    Reverse(high) \cup LayerJumps(higher) \cup LongFiles \cup ThirdParty \cup Circular

\* A mutant: a reverse dependency is a warning.
OnlyCircular(v) == v.rule = "circular"

\* SeverityError; the other rules warn.
IsError(v) == v.rule \in {"reverse", "circular"}

\* computeHealthScore: 0.05 for an error, 0.02 for a warning.
HealthScore(violations) ==
    IF DOMAIN scan = {} THEN 50
    ELSE LET errors == Cardinality({v \in violations : IsError(v)})
             score == 100 - 5 * errors - 2 * (Cardinality(violations) - errors)
         IN  IF score < 0 THEN 0 ELSE score

\* Decide, with DefaultThresholds.  A low score alone never blocks.
Decide(violations) ==
    IF \E v \in violations : IsError(v) THEN "block"
    ELSE IF HealthScore(violations) < 90 \/ violations # {} THEN "warn"
    ELSE "allow"

\* Validate or Guardian has answered.
Answer ==
    /\ scanned
    /\ scanned' = FALSE
    /\ UNCHANGED <<project, edits, todo, open, scan, steady, baseline, version>>

-----------------------------------------------------------------------------
(* DetectDrift and ComputeNextVersion *)

Removed(old, new) == DOMAIN old \ DOMAIN new

\* A mutant: the symbols are not compared.
LongerOrShorter(old, new) ==
    {n \in DOMAIN old \cap DOMAIN new : old[n].lines # new[n].lines}

Modified(old, new) ==
    {n \in DOMAIN old \cap DOMAIN new :
        old[n].lines # new[n].lines \/ old[n].symbols # new[n].symbols}

Total(files) == MapThenSumSet(LAMBDA n : files[n].lines, DOMAIN files)

Size(files) == 100 * Cardinality(DOMAIN files) + Total(files)

Magnitude(old, new) ==
    100 * Cardinality((DOMAIN new \ DOMAIN old) \cup Removed(old, new) \cup Modified(old, new))
    + (IF Total(new) >= Total(old) THEN Total(new) - Total(old) ELSE Total(old) - Total(new))

\* Magnitude over Size of the baseline, at most 1, rounded.
DriftScore(old, new) ==
    LET size == Size(old)
    IN  IF size = 0 THEN 0
        ELSE IF Magnitude(old, new) >= size THEN 100
        ELSE (200 * Magnitude(old, new) + size) \div (2 * size)

\* A mutant: the lower numbers are reset and none is raised.
ResetOnly(v, old, new) == <<v[1], v[2], 0>>

\* ComputeNextVersion; a major version of 0 counts as 1.
NextVersion(v, old, new) ==
    LET major == IF v[1] > 0 THEN v[1] ELSE 1
    IN  IF Cardinality(Removed(old, new)) > 3 \/ DriftScore(old, new) > 50
        THEN <<major + 1, 0, 0>>
        ELSE IF Cardinality(DOMAIN new) # Cardinality(DOMAIN old) \/ DriftScore(old, new) > 10
        THEN <<major, v[2] + 1, 0>>
        ELSE <<major, v[2], v[3] + 1>>

Release ==
    /\ project # baseline
    /\ version' = NextVersion(version, baseline, project)
    /\ baseline' = project
    /\ UNCHANGED <<project, edits, todo, open, scan, steady, scanned>>

ArchNext ==
    \/ Edit \/ BeginScan \/ CountLines \/ Answer \/ Release
    \/ \E n \in Names : ParseFile(n)

-----------------------------------------------------------------------------

ArchTypeOK ==
    /\ DOMAIN project \subseteq Names /\ DOMAIN scan \subseteq Names
    /\ todo \subseteq Names
    /\ \A n \in DOMAIN scan : scan[n].level \in 0..7

\* A scan during which nothing was edited has every file as it is.
ScanIsCurrent ==
    scanned /\ steady =>
        /\ DOMAIN scan = DOMAIN project
        /\ \A n \in DOMAIN scan : scan[n].file = project[n]

\* The one violation that stands for all cycles is there when some files of the scan
\* each depend on one of them, as nodes of the graph.
CycleMeansCycle ==
    scanned =>
        (Circular # {} <=>
            \E S \in SUBSET DOMAIN scan : S # {} /\ \A n \in S : Nodes(n) \cap S # {})

\* The edges to a name with the prefix of several layers; the draws of a name with
\* two of them are all considered.
Ambiguous == {e \in Edges : Cardinality(Layer(e[2])) > 1}

\* Whichever patterns the maps come up with: a project with a dependency on a package
\* above every layer the file's own may be, or with a cycle, is blocked; and one that
\* is allowed has no such dependency, no long file and, below L4, nothing of a third
\* party.
DecisionFits ==
    scanned =>
        \A high, higher \in SUBSET Ambiguous :
            LET decision == Decide(Violations(high, higher))
                cyclic == \E n \in DOMAIN scan : n \in Nodes(n)
                upward == \E e \in Edges : \A l \in Layer(e[1]), k \in Layer(e[2]) : l < k
            IN  /\ cyclic \/ upward => decision = "block"
                /\ decision = "allow" =>
                    /\ ~upward
                    /\ \A n \in DOMAIN scan :
                        /\ scan[n].file.lines <= 300
                        /\ (\A l \in Layer(n) : l <= 3) => ~scan[n].file.thirdParty

\* There is a drift exactly when a file came, went or changed in size: a changed
\* dependency is none.
DriftIsSeen ==
    DOMAIN baseline # {} =>
        (DriftScore(baseline, project) > 0 <=>
            \/ DOMAIN baseline # DOMAIN project
            \/ \E n \in DOMAIN project :
                \/ project[n].lines # baseline[n].lines
                \/ project[n].symbols # baseline[n].symbols)

Older(v, w) ==
    \/ v[1] < w[1]
    \/ v[1] = w[1] /\ v[2] < w[2]
    \/ v[1] = w[1] /\ v[2] = w[2] /\ v[3] < w[3]

\* The version that is suggested is newer than the one before.
NextIsNewer == Older(version, NextVersion(version, baseline, project))
=============================================================================
