------------------------------- MODULE Release -------------------------------
(***************************************************************************)
(* Releases: the ReleaseComposer (go-core/version_composer.go) plans a     *)
(* version from the commits since the last tag (version_git.go,            *)
(* version_commit.go, version_semver.go, version_changelog.go) and         *)
(* executes the plan, while people commit, write change intents            *)
(* (version_change.go) and decision records (version_adr.go).  Each file,  *)
(* and each call of git, is a step.                                        *)
(*                                                                         *)
(* A commit is its type, "other" if it is not conventional, and whether    *)
(* its header or its footer says that it breaks something; the log is      *)
(* asked for in one line a commit, without the footer.  One releaser at a  *)
(* time works on a repository, and nobody else tags it; whoever writes a   *)
(* record lists the others and writes its file in two steps, without a     *)
(* lock.  The formats of versions, messages, records and intents come      *)
(* first.                                                                  *)
(***************************************************************************)
EXTENDS Integers, Sequences, FiniteSets, SequencesExt

CONSTANTS
    Commits,       \* the commits that may be made: [type, bang]
    Numbers,       \* the last three digits of the clock when an intent is named
    Intents,       \* the intents that may be written
    Writers,       \* who writes records, but for the releaser
    FirstLog,      \* the commits that are asked for where there is no tag: 50
    MaxCommits, MaxReleases,
    MaxRecords,    \* the greatest number of a record
    Restarts       \* whether the releaser may die between two steps

VARIABLES
    log,           \* of the commits, HEAD is the last
    tags,          \* in the order of their creation: version, commit
    changes,       \* the files of .arch-change: the intent by the number of its name
    records,       \* the files of docs/adr: number, the version a release's is titled by,
                   \* whether its writer was alone
    drafts,        \* of each writer: the number that its record takes, and whether it
                   \* listed every record and nobody has written one since
    pc, plan, releases,
    changelogs     \* of the versions that were tagged: the tag it starts from, 0 for none,
                   \* whether git describe had failed, and the commits

gitVars == <<log, tags>>
fileVars == <<changes, records, drafts>>
vars == <<gitVars, fileVars, pc, plan, releases, changelogs>>

NoIntent == "none"
NoPlan == [last |-> 0, blind |-> FALSE, commits |-> {}, version |-> <<0, 0, 0>>,
           changes |-> {}, dry |-> TRUE]

Releaser == "releaser"
Authors == Writers \cup {Releaser}
NoDraft == [number |-> 0 - 1, alone |-> FALSE]

TypeOK ==
    /\ Len(log) =< MaxCommits /\ Range(log) \subseteq Commits
    /\ \A i \in DOMAIN tags : tags[i].at \in 0 .. Len(log)
    /\ changes \in [Numbers -> Intents \cup {NoIntent}]
    /\ pc \in {"idle", "commits", "changes", "planned", "record", "tag"}
    /\ releases =< MaxReleases
    /\ \A r \in records : r.number \in 0 .. MaxRecords
    /\ drafts \in [Authors -> [number : 0 - 1 .. MaxRecords, alone : BOOLEAN]]
    /\ pc # "record" => drafts[Releaser] = NoDraft

Init ==
    /\ log = <<>> /\ tags = <<>>
    /\ changes = [n \in Numbers |-> NoIntent]
    /\ records = {} /\ drafts = [a \in Authors |-> NoDraft]
    /\ pc = "idle" /\ plan = NoPlan /\ releases = 0 /\ changelogs = <<>>

-----------------------------------------------------------------------------
(* Versions and messages *)

\* The numbers of two versions.
Less(v, w) ==
    \/ v[1] < w[1]
    \/ v[1] = w[1] /\ v[2] < w[2]
    \/ v[1] = w[1] /\ v[2] = w[2] /\ v[3] < w[3]

\* Some identifiers of prereleases in the order of strings, and those that are numbers.
Identifiers == <<"1", "10", "11", "1a", "9", "alpha">>
Number == "1" :> 1 @@ "9" :> 9 @@ "10" :> 10 @@ "11" :> 11

AsStrings(x, y) == IndexFirstSubSeq(<<x>>, Identifiers) < IndexFirstSubSeq(<<y>>, Identifiers)

\* Numbers are compared as numbers, anything else as strings.
Below(x, y) ==
    IF {x, y} \subseteq DOMAIN Number THEN Number[x] < Number[y] ELSE AsStrings(x, y)

\* comparePrerelease: by the first identifiers that differ; where there are no more,
\* the shorter one is below.
ComparePrerelease(p, q) ==
    LET same == CHOOSE n \in 0 .. Len(p) :
                  /\ n =< Len(q) /\ \A i \in 1 .. n : p[i] = q[i]
                  /\ n = Len(p) \/ n = Len(q) \/ p[n + 1] # q[n + 1]
    IN  CASE p = q -> 0
          [] p # q /\ same = Len(p) -> -1
          [] p # q /\ same = Len(q) -> 1
          [] OTHER -> IF Below(p[same + 1], q[same + 1]) THEN -1 ELSE 1

\* A version is its numbers and the identifiers of its prerelease, if it is one; a
\* release is above its prereleases.
Compare(v, w) ==
    CASE v.numbers # w.numbers -> IF Less(v.numbers, w.numbers) THEN -1 ELSE 1
      [] v.numbers = w.numbers /\ v.pre # <<>> /\ w.pre # <<>> -> ComparePrerelease(v.pre, w.pre)
      [] OTHER -> IF v.pre = w.pre THEN 0 ELSE IF v.pre = <<>> THEN 1 ELSE -1

\* The last identifier is counted up, or followed by a first number.
BumpPrerelease(v) ==
    [v EXCEPT !.pre =
        CASE @ = <<>> -> <<"alpha", "1">>
          [] @ # <<>> /\ Last(@) \in DOMAIN Number ->
                Append(Front(@), CHOOSE x \in DOMAIN Number : Number[x] = Number[Last(@)] + 1)
          [] OTHER -> Append(@, "1")]

\* Mutant: only the footers, which --oneline does not show, make a major version.
InferNextVersionByType(commits, v) ==
    IF \E c \in commits : c.type = "feat" THEN <<v[1], v[2] + 1, 0>>
    ELSE <<v[1], v[2], v[3] + 1>>

\* InferNextVersion: the greatest bump that one of the commits asks for.
InferNextVersion(commits, v) ==
    IF \E c \in commits : c.bang THEN <<v[1] + 1, 0, 0>>
    ELSE IF \E c \in commits : c.type = "feat" THEN <<v[1], v[2] + 1, 0>>
    ELSE <<v[1], v[2], v[3] + 1>>

\* ParseCommit: the lines below the header are the body up to the first empty one
\* behind some text, and the footer; a line of either may say what breaks.
Texts(lines) == SelectSeq(lines, LAMBDA line : line # "")
BodyEnds(lines) ==
    {i \in DOMAIN lines : lines[i] = "" /\ \E j \in 1 .. i : lines[j] # ""} \cup {Len(lines)}
ParseCommit(header, lines) ==
    LET end == Min(BodyEnds(lines))
        body == Texts(SubSeq(lines, 1, end))
        footer == Texts(SubSeq(lines, end + 1, Len(lines)))
    IN  [type |-> header.type, body |-> body, footer |-> footer,
         bang |-> header.bang \/ "BREAKING CHANGE" \in Range(body) \cup Range(footer)]

\* Mutant: a message ends with its body.
ParseCommitBody(header, lines) ==
    LET body == Texts(SubSeq(lines, 1, Min(BodyEnds(lines))))
    IN  [type |-> header.type, body |-> body, footer |-> <<>>,
         bang |-> header.bang \/ "BREAKING CHANGE" \in Range(body)]

\* GitLastTag: the last tag, or none when git describe fails, for whatever reason.
LastTag == {Len(tags), 0}

\* The version that a release counts up: of its last tag, or what is taken for it.
Current(last) == IF last = 0 THEN <<0, 7, 0>> ELSE tags[last].version

\* GitCommitsSinceTag and ParseCommitsFromLog, with HEAD at a commit: only the last few
\* where there is no tag, and none that is not conventional.
CommitsSince(last, head) ==
    {k \in 1 .. head : /\ log[k].type # "other"
                       /\ IF last = 0 THEN head - FirstLog < k ELSE tags[last].at < k}

-----------------------------------------------------------------------------
(* The files of records and intents.  A line is what it is read as: the title, an    *)
(* entry of a list, the head of a section, or text.                                  *)

Empty == <<"">>
TextOf(name, text) == IF text = <<>> THEN <<>> ELSE <<<<"section", name>>, Empty>> \o text \o <<Empty>>
EntryOf(name, value) == IF value = "" THEN <<>> ELSE <<<<"entry", name, value>>>>

FormatADR(adr) ==
    <<<<"title", adr.id, adr.title>>, Empty, <<"entry", "status", adr.status>>>>
        \o EntryOf("version", adr.version) \o EntryOf("superseded by", adr["superseded by"])
        \o <<Empty>> \o TextOf("context", adr.context) \o TextOf("decision", adr.decision)
        \o TextOf("consequences", adr.consequences)

NoADR == [id |-> "", title |-> "", status |-> "", version |-> ""]
            @@ "superseded by" :> "" @@ [x \in {"context", "decision", "consequences"} |-> <<>>]

TrimSpace(lines) ==
    LET texts == {i \in DOMAIN lines : lines[i] # Empty}
    IN  IF texts = {} THEN <<>> ELSE SubSeq(lines, Min(texts), Max(texts))

SaveADRSection(s) ==
    IF TrimSpace(s.content) # <<>> /\ s.section \in {"context", "decision", "consequences"}
    THEN [s.adr EXCEPT ![s.section] = TrimSpace(s.content)] ELSE s.adr

\* Mutant: an entry of a list in the text is one of the record.
ReadLineAnywhere(s, line) ==
    CASE line[1] = "section" -> [adr |-> SaveADRSection(s), section |-> line[2], content |-> <<>>]
      [] line[1] = "entry" -> [s EXCEPT !.adr[line[2]] = line[3]]
      [] s.section = "" /\ line[1] = "title" -> [s EXCEPT !.adr.id = line[2], !.adr.title = line[3]]
      [] OTHER -> [s EXCEPT !.content = Append(@, line)]

ReadLine(s, line) ==
    CASE line[1] = "section" -> [adr |-> SaveADRSection(s), section |-> line[2], content |-> <<>>]
      [] s.section = "" /\ line[1] = "entry" -> [s EXCEPT !.adr[line[2]] = line[3]]
      [] s.section = "" /\ line[1] = "title" -> [s EXCEPT !.adr.id = line[2], !.adr.title = line[3]]
      [] OTHER -> [s EXCEPT !.content = Append(@, line)]

ParseADR(lines) ==
    SaveADRSection(FoldLeft(ReadLine, [adr |-> NoADR, section |-> "", content |-> <<>>], lines))

\* The values of an intent are characters; its title and its migration are quoted (%q),
Quoted(value) ==
    <<"quote">> \o FlattenSeq([i \in DOMAIN value |->
        IF value[i] = "quote" THEN <<"backslash", "quote">> ELSE <<value[i]>>]) \o <<"quote">>

\* and every value that is read loses the quotes around it.
Trimmed(value) ==
    LET others == {i \in DOMAIN value : value[i] # "quote"}
    IN  IF others = {} THEN <<>> ELSE SubSeq(value, Min(others), Max(others))

FieldOf(name, value) == IF value = <<>> THEN <<>> ELSE <<<<"field", name, value>>>>

FormatChange(intent) ==
    <<<<"field", "title", Quoted(intent.title)>>, <<"field", "type", intent.type>>>>
        \o FieldOf("scope", intent.scope) \o <<<<"field", "breaking", intent.breaking>>>>
        \o (IF intent.files = <<>> THEN <<>>
            ELSE <<<<"field", "files", <<>>>>>> \o [i \in DOMAIN intent.files |-> <<"item", intent.files[i]>>])
        \o (IF intent.migration = <<>> THEN <<>>
            ELSE <<<<"field", "migration", Quoted(intent.migration)>>>>)
        \o FieldOf("author", intent.author)

\* Mutant: the quotes stay.
ReadFieldQuoted(s, line) ==
    CASE line[1] = "item" -> [s EXCEPT !.files = Append(@, line[2])]
      [] line[1] = "field" /\ line[2] = "files" -> s
      [] OTHER -> [s EXCEPT ![line[2]] = line[3]]

\* There is but one list, of files.
ReadField(s, line) ==
    CASE line[1] = "item" -> [s EXCEPT !.files = Append(@, line[2])]
      [] line[1] = "field" /\ line[2] = "files" -> s
      [] OTHER -> [s EXCEPT ![line[2]] = Trimmed(line[3])]

ParseChange(lines) ==
    FoldLeft(ReadField, [x \in {"title", "type", "scope", "breaking", "files", "migration", "author"} |->
                            <<>>], lines)

-----------------------------------------------------------------------------
(* People *)

Commit(c) ==
    /\ Len(log) < MaxCommits
    /\ log' = Append(log, c)
    /\ UNCHANGED <<tags, fileVars, pc, plan, releases, changelogs>>

\* CreateChange names the file by the day and the clock's last three digits, and
\* writes over what is there.
CreateChange(i, n) ==
    /\ \A m \in Numbers : changes[m] # i
    /\ changes' = [changes EXCEPT ![n] = i]
    /\ UNCHANGED <<gitVars, records, drafts, pc, plan, releases, changelogs>>

\* DeleteChangeByID
DeleteChange(n) ==
    /\ changes[n] # NoIntent
    /\ changes' = [changes EXCEPT ![n] = NoIntent]
    /\ UNCHANGED <<gitVars, records, drafts, pc, plan, releases, changelogs>>

ListADRs == records

\* Mutant: the number is that of the count of files.
NextADRIDByCount(read) == Cardinality(read) + 1

\* NextADRID: one more than the greatest number of the records that were read.
NextADRID(read) ==
    LET numbers == {r.number : r \in read}
    IN  1 + (IF numbers = {} THEN 0 ELSE CHOOSE n \in numbers : \A m \in numbers : m =< n)

\* What a writer may find out: the next number after all records, or after some of them,
\* for those that cannot be read are skipped; or digits of the clock, where the directory
\* cannot be read.
Drafts ==
    {d \in {[number |-> NextADRID(read), alone |-> read = ListADRs] : read \in SUBSET ListADRs}
            \cup [number : 0 .. MaxRecords, alone : {FALSE}] : d.number =< MaxRecords}

\* CreateADR of a person: the number first,
CreateADR(w) ==
    /\ drafts[w] = NoDraft
    /\ \E d \in Drafts : drafts' = [drafts EXCEPT ![w] = d]
    /\ UNCHANGED <<gitVars, changes, records, pc, plan, releases, changelogs>>

\* then the file, which is named by its number and title, and written over if it is there;
\* os.WriteFile may fail, and may have cut off what was there.
WriteFile(a, version) ==
    LET file == [number |-> drafts[a].number, version |-> version, alone |-> drafts[a].alone]
        others == {r \in records : r.number # file.number \/ r.version # version}
    IN  \/ /\ records' = others \cup {file}
           /\ drafts' = [b \in Authors |-> IF b = a \/ drafts[b] = NoDraft THEN NoDraft
                                            ELSE [drafts[b] EXCEPT !.alone = FALSE]]
        \/ /\ records' \in {records, others}
           /\ drafts' = [drafts EXCEPT ![a] = NoDraft]

\* The titles of people are one title.
SaveADR(w) ==
    /\ drafts[w] # NoDraft /\ WriteFile(w, <<0, 0, 0>>)
    /\ UNCHANGED <<gitVars, changes, pc, plan, releases, changelogs>>

RemoveADR(r) ==
    /\ records' = records \ {r}
    /\ UNCHANGED <<gitVars, changes, drafts, pc, plan, releases, changelogs>>

-----------------------------------------------------------------------------
(* PlanRelease *)

\* The last tag is asked for,
PlanRelease ==
    /\ pc = "idle" /\ releases < MaxReleases
    /\ releases' = releases + 1
    /\ \E last \in LastTag :
          plan' = [NoPlan EXCEPT !.last = last, !.blind = last # Len(tags),
                                 !.version = Current(last)]
    /\ pc' = "commits"
    /\ UNCHANGED <<gitVars, fileVars, changelogs>>

\* Mutant: the log is asked for as if there were no tag.
PlanAllCommits ==
    /\ pc = "commits"
    /\ LET commits == CommitsSince(0, Len(log))
       IN  \/ /\ commits # {}
              /\ pc' = "changes"
              /\ plan' = [plan EXCEPT !.commits = commits,
                    !.version = InferNextVersion({ParseCommit(log[k], <<>>) : k \in commits}, @)]
           \/ pc' = "idle" /\ UNCHANGED plan
    /\ UNCHANGED <<gitVars, fileVars, releases, changelogs>>

\* then the commits since; there must be some, and git log may fail.
PlanCommits ==
    /\ pc = "commits"
    /\ LET commits == CommitsSince(plan.last, Len(log))
       IN  \/ /\ commits # {}
              /\ pc' = "changes"
              /\ plan' = [plan EXCEPT !.commits = commits,
                    !.version = InferNextVersion({ParseCommit(log[k], <<>>) : k \in commits}, @)]
           \/ pc' = "idle" /\ UNCHANGED plan
    /\ UNCHANGED <<gitVars, fileVars, releases, changelogs>>

ListChanges == {changes[n] : n \in Numbers} \ {NoIntent}

\* MergeChanges reads the intents and deletes none; the caller may ask for more than
\* the dry run that every plan is.
PlanChanges ==
    /\ pc = "changes"
    /\ \E dry \in BOOLEAN :
          plan' = [plan EXCEPT !.changes = ListChanges,
                               !.dry = dry]
    /\ pc' = "planned"
    /\ UNCHANGED <<gitVars, fileVars, releases, changelogs>>

-----------------------------------------------------------------------------
(* ExecuteRelease *)

\* A release with change intents, a dry one too, finds a number for its record,
Execute ==
    /\ pc = "planned"
    /\ IF plan.changes = {} THEN pc' = "tag" /\ UNCHANGED drafts
       ELSE pc' = "record" /\ \E d \in Drafts : drafts' = [drafts EXCEPT ![Releaser] = d]
    /\ UNCHANGED <<gitVars, changes, records, plan, releases, changelogs>>

\* writes it, or fails to and goes on,
WriteADR ==
    /\ pc = "record" /\ pc' = "tag"
    /\ WriteFile(Releaser, plan.version)
    /\ UNCHANGED <<gitVars, changes, plan, releases, changelogs>>

\* and tags HEAD, unless it is dry or git fails.
CreateTag ==
    /\ pc = "tag" /\ pc' = "idle"
    /\ \/ /\ ~plan.dry
          /\ \A i \in DOMAIN tags : tags[i].version # plan.version
          /\ tags' = Append(tags, [version |-> plan.version, at |-> Len(log)])
          /\ changelogs' = Append(changelogs,
                [last |-> plan.last, blind |-> plan.blind, commits |-> plan.commits])
       \/ UNCHANGED <<tags, changelogs>>
    /\ UNCHANGED <<log, fileVars, plan, releases>>

\* The process dies; what it had planned is gone.
Die ==
    /\ Restarts /\ pc # "idle"
    /\ pc' = "idle" /\ plan' = NoPlan
    /\ drafts' = [drafts EXCEPT ![Releaser] = NoDraft]
    /\ UNCHANGED <<gitVars, changes, records, releases, changelogs>>

Next ==
    \/ \E c \in Commits : Commit(c)
    \/ \E i \in Intents, n \in Numbers : CreateChange(i, n)
    \/ \E n \in Numbers : DeleteChange(n)
    \/ \E w \in Writers : CreateADR(w) \/ SaveADR(w)
    \/ \E r \in records : RemoveADR(r)
    \/ PlanRelease \/ PlanCommits \/ PlanChanges
    \/ Execute \/ WriteADR \/ CreateTag \/ Die

Spec == Init /\ [][Next]_vars

-----------------------------------------------------------------------------

\* A version is above the one it was counted up from, and a major one just when a commit
\* of its changelog breaks something; along the tags versions grow, whatever failed, died
\* or was dry between two of them, but for a git describe that failed: it starts again
\* from 0.7.0.
VersionsGrow ==
    /\ \A i \in DOMAIN tags :
        LET from == Current(changelogs[i].last)
        IN  /\ Less(from, tags[i].version)
            /\ tags[i].version[1] = from[1] + 1 <=>
                    \E k \in changelogs[i].commits : ParseCommit(log[k], <<>>).bang
    /\ \A i, j \in DOMAIN tags :
        i < j /\ (\A k \in i + 1 .. j : ~changelogs[k].blind) => Less(tags[i].version, tags[j].version)

\* A changelog names the commits from the last tag to some HEAD before its own tag, and
\* no commit of an earlier changelog, unless git describe failed: it then names the last
\* few commits again.
LoggedOnce ==
    /\ \A i \in DOMAIN tags :
        /\ changelogs[i].last = IF changelogs[i].blind THEN 0 ELSE i - 1
        /\ \E head \in 0 .. tags[i].at : changelogs[i].commits = CommitsSince(changelogs[i].last, head)
    /\ \A i, j \in DOMAIN tags :
        i < j /\ ~changelogs[j].blind => changelogs[i].commits \cap changelogs[j].commits = {}

\* The records keep apart: who lists all of them, and writes before anybody else does,
\* takes a number that no file has; of two files with one number, the writer of one at
\* least was not alone.
RecordsDistinct ==
    /\ \A a \in Authors : drafts[a].alone => \A r \in records : r.number # drafts[a].number
    /\ \A r, q \in records : r # q /\ r.number = q.number => ~r.alone \/ ~q.alone

\* Versions sort: one of two is below the other, a counted-up prerelease is above, and
\* the order is transitive as long as numbers are not compared with words (1a is above
\* 10 and below 9).
Versions == [numbers : {<<1, 0, 0>>, <<1, 0, 1>>},
             pre : BoundedSeq({"9", "10", "1a", "alpha"}, 2)]
AreComparable(v, w) ==
    \A i \in DOMAIN v.pre \cap DOMAIN w.pre :
        v.pre[i] \in DOMAIN Number <=> w.pre[i] \in DOMAIN Number
VersionsSort ==
    /\ \A v, w \in Versions :
        Compare(v, w) = 0 - Compare(w, v) /\ (Compare(v, w) = 0 => v = w)
    /\ \A v \in Versions : v.pre # <<>> => Compare(v, BumpPrerelease(v)) < 0
    /\ \A v, w \in Versions : Compare(v, w) < 0 /\ AreComparable(v, w) =>
        \A x \in Versions :
            Compare(w, x) < 0 /\ AreComparable(w, x) /\ AreComparable(v, x) => Compare(v, x) < 0

\* A message that says that something breaks, in its header or on any line below, is
\* seen to, and none of its lines is lost between body and footer.
MessagesParse ==
    \A lines \in BoundedSeq({"", "text", "BREAKING CHANGE"}, 4), bang \in BOOLEAN :
        LET commit == ParseCommit([type |-> "fix", bang |-> bang], lines)
        IN  /\ commit.bang <=> bang \/ "BREAKING CHANGE" \in Range(lines)
            /\ commit.body \o commit.footer = Texts(lines)

\* Whatever is in its texts, a record is read back with its number, title, status and
\* version; and with its texts unless one of their lines looks like the head of a section.
RecordsReadBack ==
    \A context, decision \in BoundedSeq({<<"text">>, <<"section", "decision">>,
                <<"section", "notes">>, <<"entry", "status", "Accepted">>, <<"title", "id", "title">>}, 2),
       version \in {"", "1.0.0"}, successor \in {"", "ADR-0002"} :
        LET adr == [id |-> "ADR-0001", title |-> "title", status |-> "Proposed",
                    version |-> version, context |-> context, decision |-> decision,
                    consequences |-> <<<<"text">>>>] @@ "superseded by" :> successor
            readBack == ParseADR(FormatADR(adr))
        IN  /\ \A x \in {"id", "title", "status", "version", "superseded by"} :
                    readBack[x] = adr[x]
            /\ (\A line \in Range(context \o decision) : line[1] # "section") => readBack = adr

\* An intent is read back, but for a title or a migration with a quote in it.
IntentsReadBack ==
    \A title \in BoundedSeq({"a", "quote"}, 2) \ {<<>>}, migration \in BoundedSeq({"a", "quote"}, 2),
       scope \in {<<>>, <<"core">>}, files \in BoundedSeq({"f", "g"}, 2) :
        LET intent == [title |-> title, type |-> <<"feat">>, scope |-> scope,
                       breaking |-> <<"true">>, files |-> files, migration |-> migration,
                       author |-> scope]
            readBack == ParseChange(FormatChange(intent))
        IN  \A x \in DOMAIN intent :
                \/ x \in {"title", "migration"} /\ "quote" \in Range(intent[x])
                \/ readBack[x] = intent[x]
=============================================================================
