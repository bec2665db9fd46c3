----------------------------- MODULE Workbench -----------------------------
(***************************************************************************)
(* DefaultAgentWorkbench and AgentRunner (go-core/agent_*.go): an agent's  *)
(* submission is reviewed and, unless it is rejected, written to a         *)
(* directory named after its SubmissionID, compiled there and run.         *)
(*                                                                         *)
(* The ID is made of agent, task and attempt, so two submissions may have  *)
(* the same one; they then share the directory, each call overwriting it   *)
(* and removing it when it returns.  What the source code does is left to  *)
(* its outcome: a build or a run succeeds or fails.                        *)
(***************************************************************************)
EXTENDS Naturals, FiniteSets

CONSTANTS
    Submissions,   \* calls of SubmitAndRun
    SubmissionID,  \* SubmissionID[s]
    NoFile         \* no submission

VARIABLES
    wPc,          \* pc[s]: the step that the call of s is at
    verdict,     \* verdict[s]: the status that the review gave
    submissions, \* submissions[id]: the status on record
    dir,         \* dir[id]: the directory exists
    mainFile,    \* mainFile[id]: whose source code is in main.go
    binary,      \* binary[id]: of whose source code agent_bin.exe was built
    building,    \* building[s]: whose source code the compiler of s has read
    ran          \* ran[s]: whose code the call of s executed

benchVars == <<wPc, verdict, submissions, dir, mainFile, binary, building, ran>>

IDs == {SubmissionID[s] : s \in Submissions}

File == Submissions \cup {NoFile}

Statuses == {"Approved", "Rejected"}

\* How a call ends.
Outcomes == {"refused", "rejected", "error", "completed"}

BenchTypeOK ==
    /\ wPc \in [Submissions -> {"submit", "record", "mkdir", "write", "build", "link",
                                  "run", "cleanError", "cleanOK"} \cup Outcomes]
    /\ verdict \in [Submissions -> Statuses \cup {"none"}]
    /\ submissions \in [IDs -> Statuses \cup {"none"}]
    /\ dir \in [IDs -> BOOLEAN]
    /\ mainFile \in [IDs -> File]
    /\ binary \in [IDs -> File]
    /\ building \in [Submissions -> File]
    /\ ran \in [Submissions -> File]
    /\ \A id \in IDs : ~dir[id] => mainFile[id] = NoFile /\ binary[id] = NoFile

BenchInit ==
    /\ wPc = [s \in Submissions |-> "submit"]
    /\ verdict = [s \in Submissions |-> "none"]
    /\ submissions = [id \in IDs |-> "none"]
    /\ dir = [id \in IDs |-> FALSE]
    /\ mainFile = [id \in IDs |-> NoFile]
    /\ binary = [id \in IDs |-> NoFile]
    /\ building = [s \in Submissions |-> NoFile]
    /\ ran = [s \in Submissions |-> NoFile]

Goto(s, step) == wPc' = [wPc EXCEPT ![s] = step]

dirVars == <<dir, mainFile, binary, building>>

\* The context is done, or the static guard returns an error.
Refuse(s) ==
    /\ wPc[s] = "submit"
    /\ Goto(s, "refused")
    /\ UNCHANGED <<verdict, submissions, dirVars, ran>>

\* What an agent submits, as far as a review looks at it.
Primitives == {"Atom", "Port", "Adapter", "Composer", "other"}

Manifests == UNION {[1 .. n -> [named : BOOLEAN, type : Primitives]] : n \in 0 .. 2}

Drafts == [agent : BOOLEAN, task : BOOLEAN, manifest : Manifests,
           source : {"empty", "package main", "library"}]

\* PrimitiveManifest.Validate: every primitive has a name and a type.
Declared(m) == m.named /\ m.type # "other"

\* validateBasic: the severities of what it finds.  The names of a draft's
\* primitives differ or not.
ValidateBasic(draft, distinct) ==
    {severity \in {"error", "warn"} :
        \/ /\ severity = "error"
           /\ \/ ~draft.agent \/ ~draft.task \/ draft.source = "empty"
              \/ draft.manifest = <<>> \/ ~distinct
              \/ \E i \in DOMAIN draft.manifest : ~Declared(draft.manifest[i])
        \/ severity = "warn" /\ draft.source # "package main"}

\* The worst of the violations that validateBasic and the static guard found.
Worst(found) == IF "error" \in found THEN "error" ELSE IF found # {} THEN "warn" ELSE "none"

Severities ==
    {Worst(ValidateBasic(draft, distinct) \cup guard) :
        draft \in Drafts, distinct \in BOOLEAN, guard \in SUBSET {"error", "warn"}}

\* Warnings do not reject.
Review(s, severity) ==
    /\ wPc[s] = "submit"
    /\ verdict' = [verdict EXCEPT ![s] =
            IF severity = "error" THEN "Rejected" ELSE "Approved"]
    /\ Goto(s, "record")
    /\ UNCHANGED <<submissions, dirVars, ran>>

\* Mutant: every submission that was reviewed is run.
RecordAndRun(s) ==
    /\ wPc[s] = "record"
    /\ submissions' = [submissions EXCEPT ![SubmissionID[s]] = verdict[s]]
    /\ Goto(s, "mkdir")
    /\ UNCHANGED <<verdict, dirVars, ran>>

Record(s) ==
    /\ wPc[s] = "record"
    /\ submissions' = [submissions EXCEPT ![SubmissionID[s]] = verdict[s]]
    /\ Goto(s, IF verdict[s] = "Rejected" THEN "rejected" ELSE "mkdir")
    /\ UNCHANGED <<verdict, dirVars, ran>>

MakeDir(s) ==
    /\ wPc[s] = "mkdir"
    /\ \/ /\ dir' = [dir EXCEPT ![SubmissionID[s]] = TRUE]
          /\ Goto(s, "write")
       \/ /\ Goto(s, "error")
          /\ UNCHANGED dir
    /\ UNCHANGED <<verdict, submissions, mainFile, binary, building, ran>>

WriteSource(s) ==
    LET id == SubmissionID[s] IN
    /\ wPc[s] = "write"
    /\ \/ /\ dir[id]
          /\ mainFile' = [mainFile EXCEPT ![id] = s]
          /\ Goto(s, "build")
       \/ /\ Goto(s, "cleanError")
          /\ UNCHANGED mainFile
    /\ UNCHANGED <<verdict, submissions, dir, binary, building, ran>>

\* go build reads main.go, and writes the binary if it compiles.
Build(s) ==
    LET id == SubmissionID[s] IN
    /\ wPc[s] = "build"
    /\ \/ /\ mainFile[id] # NoFile
          /\ building' = [building EXCEPT ![s] = mainFile[id]]
          /\ Goto(s, "link")
       \/ /\ Goto(s, "cleanError")
          /\ UNCHANGED building
    /\ UNCHANGED <<verdict, submissions, dir, mainFile, binary, ran>>

Link(s) ==
    LET id == SubmissionID[s] IN
    /\ wPc[s] = "link"
    /\ \/ /\ dir[id]
          /\ binary' = [binary EXCEPT ![id] = building[s]]
          /\ Goto(s, "run")
       \/ /\ Goto(s, "cleanError")
          /\ UNCHANGED binary
    /\ UNCHANGED <<verdict, submissions, dir, mainFile, building, ran>>

\* The binary is whatever is there by now; it runs to success or failure.
Run(s) ==
    LET id == SubmissionID[s] IN
    /\ wPc[s] = "run"
    /\ \/ /\ binary[id] # NoFile
          /\ ran' = [ran EXCEPT ![s] = binary[id]]
          /\ Goto(s, "cleanOK") \/ Goto(s, "cleanError")
       \/ /\ binary[id] = NoFile
          /\ Goto(s, "cleanError")
          /\ UNCHANGED ran
    /\ UNCHANGED <<verdict, submissions, dirVars>>

\* The deferred os.RemoveAll.
RemoveDir(s) ==
    LET id == SubmissionID[s] IN
    /\ wPc[s] \in {"cleanOK", "cleanError"}
    /\ dir' = [dir EXCEPT ![id] = FALSE]
    /\ mainFile' = [mainFile EXCEPT ![id] = NoFile]
    /\ binary' = [binary EXCEPT ![id] = NoFile]
    /\ Goto(s, IF wPc[s] = "cleanOK" THEN "completed" ELSE "error")
    /\ UNCHANGED <<verdict, submissions, building, ran>>

BenchNext ==
    \E s \in Submissions :
        \/ Refuse(s)
        \/ \E severity \in Severities : Review(s, severity)
        \/ Record(s)
        \/ MakeDir(s)
        \/ WriteSource(s)
        \/ Build(s)
        \/ Link(s)
        \/ Run(s)
        \/ RemoveDir(s)

BenchSpec == BenchInit /\ [][BenchNext]_benchVars

-----------------------------------------------------------------------------

\* No submission's code is executed that a review did not approve, not even
\* through the directory of another submission with the same ID.
OnlyApprovedRuns ==
    \A s \in Submissions : ran[s] # NoFile => verdict[ran[s]] = "Approved"

\* A submission whose ID nobody shares runs its own code and no other, and
\* nothing of it stays on disk.
UniqueRunsOwn ==
    \A s \in Submissions :
        (\A t \in Submissions \ {s} : SubmissionID[t] # SubmissionID[s]) =>
            /\ ran[s] \in {s, NoFile}
            /\ wPc[s] = "completed" => ran[s] = s /\ ~dir[SubmissionID[s]]

\* The workbench runs what was reviewed.
RunsReviewedCode == OnlyApprovedRuns /\ UniqueRunsOwn
=============================================================================
