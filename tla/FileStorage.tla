---------------------------- MODULE FileStorage ----------------------------
(***************************************************************************)
(* FileStorageBackend (go-core/storage_fs.go): one file per key, written   *)
(* by os.WriteFile to <key>.tmp and then renamed over <key>.               *)
(*                                                                         *)
(* The write is several system calls, so the interleavings of concurrent   *)
(* Saves and the crash points between the calls are states of the model.   *)
(* Every caller of Save for one key uses the same temporary name; a file   *)
(* descriptor follows the file it opened when that file is renamed.        *)
(*                                                                         *)
(* A crash is the death of the process: what a completed system call wrote *)
(* stays (the code never calls fsync, so power loss is a stronger fault    *)
(* that this module does not describe).                                    *)
(***************************************************************************)
EXTENDS Naturals, TLAPS

CONSTANTS
    Procs,   \* goroutines that call the backend
    Keys,    \* storage keys
    Data,    \* what can be saved under a key
    Writers  \* Writers[k]: the goroutines that save and delete key k

CONSTANTS
    NoFile,  \* the file does not exist
    Empty,   \* the file was truncated and not written yet
    Torn,    \* the file holds a mixture, no JSON document
    NoCall   \* the goroutine is in no Save

\* No key and data are mistaken for no call at all.
CallsAreDistinct == NoCall \notin [key : Keys, data : Data]

VARIABLES
    file,    \* file[k]: content of <key>
    tmp,     \* tmp[k]: content of <key>.tmp
    pc,      \* pc[p]: next system call of the Save that p is running
    call,    \* call[p]: key and data of that Save
    fd,      \* fd[p]: the name that p's open descriptor's file now has
    outcome, \* outcome[p]: what p's last call returned
    closed

vars == <<file, tmp, pc, call, fd, outcome, closed>>

Content == Data \cup {Empty, Torn}

TypeOK ==
    /\ file \in [Keys -> Content \cup {NoFile}]
    /\ tmp \in [Keys -> Content \cup {NoFile}]
    /\ pc \in [Procs -> {"idle", "open", "write", "rename", "cleanup"}]
    /\ call \in [Procs -> [key : Keys, data : Data] \cup {NoCall}]
    /\ \A p \in Procs : call[p] = NoCall <=> pc[p] = "idle"
    /\ fd \in [Procs -> {"none", "tmp", "file", "unlinked"}]
    /\ outcome \in [Procs -> {"none", "ok", "error"}]
    /\ closed \in BOOLEAN

Init ==
    /\ file = [k \in Keys |-> NoFile]
    /\ tmp = [k \in Keys |-> NoFile]
    /\ pc = [p \in Procs |-> "idle"]
    /\ call = [p \in Procs |-> NoCall]
    /\ fd = [p \in Procs |-> "none"]
    /\ outcome = [p \in Procs |-> "none"]
    /\ closed = FALSE

Return(p, result) ==
    /\ pc' = [pc EXCEPT ![p] = "idle"]
    /\ call' = [call EXCEPT ![p] = NoCall]
    /\ fd' = [fd EXCEPT ![p] = "none"]
    /\ outcome' = [outcome EXCEPT ![p] = result]

HasOpen(q, k, name) == pc[q] = "write" /\ call[q].key = k /\ fd[q] = name

Unlink(k, name) ==
    [q \in Procs |-> IF HasOpen(q, k, name) THEN "unlinked" ELSE fd[q]]

\* Save's entry: a cancelled context or a closed backend ends the call before
\* any file is touched.
RejectSave(p) ==
    /\ pc[p] = "idle"
    /\ Return(p, "error")
    /\ UNCHANGED <<file, tmp, closed>>

BeginSave(p, k, d) ==
    /\ pc[p] = "idle"
    /\ p \in Writers[k]
    /\ ~closed
    /\ pc' = [pc EXCEPT ![p] = "open"]
    /\ call' = [call EXCEPT ![p] = [key |-> k, data |-> d]]
    /\ outcome' = [outcome EXCEPT ![p] = "none"]
    /\ UNCHANGED <<file, tmp, fd, closed>>

\* Mutant: the old document is removed before the new one is written.
OpenAfterRemove(p) ==
    /\ pc[p] = "open"
    /\ tmp' = [tmp EXCEPT ![call[p].key] = Empty]
    /\ file' = [file EXCEPT ![call[p].key] = NoFile]
    /\ fd' = [fd EXCEPT ![p] = "tmp"]
    /\ pc' = [pc EXCEPT ![p] = "write"]
    /\ UNCHANGED <<call, outcome, closed>>

\* os.WriteFile opens with O_CREATE|O_TRUNC: an existing temporary file, one
\* that another Save is writing included, is emptied.
OpenTmp(p) ==
    /\ pc[p] = "open"
    /\ tmp' = [tmp EXCEPT ![call[p].key] = Empty]
    /\ fd' = [fd EXCEPT ![p] = "tmp"]
    /\ pc' = [pc EXCEPT ![p] = "write"]
    /\ UNCHANGED <<file, call, outcome, closed>>

\* Writing at offset 0 over an empty file yields the data; over a file that
\* another Save wrote meanwhile, the longer content's tail may remain.
Written(old, d) == IF old = Empty THEN {d} ELSE {d, Torn}

OpenContent(p) == IF fd[p] = "tmp" THEN tmp[call[p].key] ELSE file[call[p].key]

\* The file that the descriptor has open, under whatever name, now holds c.
PutThroughFd(p, c) ==
    LET k == call[p].key IN
    \/ /\ fd[p] = "tmp"
       /\ tmp' = [tmp EXCEPT ![k] = c]
       /\ UNCHANGED file
    \/ /\ fd[p] = "file"
       /\ file' = [file EXCEPT ![k] = c]
       /\ UNCHANGED tmp
    \/ /\ fd[p] = "unlinked"
       /\ UNCHANGED <<file, tmp>>

WriteTmp(p) ==
    /\ pc[p] = "write"
    /\ \E c \in Written(OpenContent(p), call[p].data) : PutThroughFd(p, c)
    /\ fd' = [fd EXCEPT ![p] = "none"]
    /\ pc' = [pc EXCEPT ![p] = "rename"]
    /\ UNCHANGED <<call, outcome, closed>>

\* Mutant: the error of the write is ignored and the rename goes ahead.
WriteErrorIgnored(p) ==
    /\ pc[p] = "write"
    /\ \E c \in {OpenContent(p), Torn} : PutThroughFd(p, c)
    /\ pc' = [pc EXCEPT ![p] = "rename"]
    /\ fd' = [fd EXCEPT ![p] = "none"]
    /\ UNCHANGED <<call, outcome, closed>>

\* A failed open leaves nothing, a failed write a prefix; Save returns the
\* error and leaves the temporary file where it is.
FailOpen(p) ==
    /\ pc[p] = "open"
    /\ Return(p, "error")
    /\ UNCHANGED <<file, tmp, closed>>

FailWrite(p) ==
    /\ pc[p] = "write"
    /\ \E c \in {OpenContent(p), Torn} : PutThroughFd(p, c)
    /\ Return(p, "error")
    /\ UNCHANGED closed

\* rename(2): <key>.tmp becomes <key>, for the descriptors that have it open
\* too; the file that was <key> has no name any more.
RenameTmp(p) ==
    LET k == call[p].key
        Moved(q) == CASE HasOpen(q, k, "tmp") -> "file"
                      [] HasOpen(q, k, "file") -> "unlinked"
                      [] OTHER -> fd[q]
    IN
    /\ pc[p] = "rename"
    /\ tmp[k] # NoFile
    /\ file' = [file EXCEPT ![k] = tmp[k]]
    /\ tmp' = [tmp EXCEPT ![k] = NoFile]
    /\ pc' = [pc EXCEPT ![p] = "idle"]
    /\ call' = [call EXCEPT ![p] = NoCall]
    /\ fd' = [q \in Procs |-> Moved(q)]
    /\ outcome' = [outcome EXCEPT ![p] = "ok"]
    /\ UNCHANGED closed

\* The rename fails when another Save has taken the temporary file away, or by
\* an I/O error; os.Remove of the temporary name is a later system call.
FailRename(p) ==
    /\ pc[p] = "rename"
    /\ pc' = [pc EXCEPT ![p] = "cleanup"]
    /\ UNCHANGED <<file, tmp, call, fd, outcome, closed>>

\* Mutant: the document is removed instead of the temporary file.
RemoveDocument(p) ==
    /\ pc[p] = "cleanup"
    /\ file' = [file EXCEPT ![call[p].key] = NoFile]
    /\ Return(p, "error")
    /\ UNCHANGED <<tmp, closed>>

RemoveTmp(p) ==
    LET k == call[p].key IN
    /\ pc[p] = "cleanup"
    /\ tmp' = [tmp EXCEPT ![k] = NoFile]
    /\ pc' = [pc EXCEPT ![p] = "idle"]
    /\ call' = [call EXCEPT ![p] = NoCall]
    /\ fd' = Unlink(k, "tmp")
    /\ outcome' = [outcome EXCEPT ![p] = "error"]
    /\ UNCHANGED <<file, closed>>

\* Delete: removing a file that is not there is success.
Delete(p, k) ==
    /\ pc[p] = "idle"
    /\ p \in Writers[k]
    /\ ~closed
    /\ file' = [file EXCEPT ![k] = NoFile]
    /\ fd' = Unlink(k, "file")
    /\ outcome' = [outcome EXCEPT ![p] = "ok"]
    /\ UNCHANGED <<tmp, pc, call, closed>>

Close ==
    /\ ~closed
    /\ closed' = TRUE
    /\ UNCHANGED <<file, tmp, pc, call, fd, outcome>>

\* The process dies: the files stay, and the next process opens the backend.
Crash ==
    /\ pc' = [p \in Procs |-> "idle"]
    /\ call' = [p \in Procs |-> NoCall]
    /\ fd' = [p \in Procs |-> "none"]
    /\ outcome' = [p \in Procs |-> "none"]
    /\ closed' = FALSE
    /\ UNCHANGED <<file, tmp>>

\* The system calls of a Save after its entry, for modules that compose it.
SaveStep(p) ==
    \/ OpenTmp(p)
    \/ WriteTmp(p)
    \/ FailOpen(p)
    \/ FailWrite(p)
    \/ RenameTmp(p)
    \/ FailRename(p)
    \/ RemoveTmp(p)

Next ==
    \/ \E p \in Procs :
        \/ RejectSave(p)
        \/ \E k \in Keys, d \in Data : BeginSave(p, k, d)
        \/ OpenTmp(p)
        \/ WriteTmp(p)
        \/ FailOpen(p)
        \/ FailWrite(p)
        \/ RenameTmp(p)
        \/ FailRename(p)
        \/ RemoveTmp(p)
        \/ \E k \in Keys : Delete(p, k)
    \/ Close
    \/ Crash

Spec == Init /\ [][Next]_vars

\* No two goroutines save or delete one key.
SingleWriter == \A k \in Keys : \A p, q \in Writers[k] : p = q

\* A reader of <key> never finds a half-written document: the file is absent or
\* holds exactly what some Save was given (the header's "atomic write").
NoTornFile == \A k \in Keys : file[k] \in Data \cup {NoFile}

\* A Save that reports an error has not replaced the document of its key, and
\* one that reports success has put its own data there.
AllOrNothing(p) ==
    pc[p] # "idle" /\ pc'[p] = "idle" =>
        /\ outcome'[p] = "error" => file' = file
        /\ outcome'[p] = "ok" => file'[call[p].key] = call[p].data

SaveIsAllOrNothing == [][\A p \in Procs : AllOrNothing(p)]_vars

\* A document that exists is replaced in one step: whatever the Saves of its key
\* do, several at once too, and wherever the process dies, only Delete makes it
\* disappear.
DocumentsStay ==
    \A k \in Keys :
        file[k] # NoFile /\ file'[k] = NoFile => \E p \in Writers[k] : Delete(p, k)

-----------------------------------------------------------------------------
(***************************************************************************)
(* Theorems about FileStorage for any keys, data and goroutines: Save is   *)
(* atomic as long as each key has one writer.  The shared temporary name   *)
(* is what the assumption SingleWriter is needed for: with two writers of  *)
(* one key TLC finds a torn file.                                          *)
(***************************************************************************)
\* What a lone writer knows between its system calls: nobody else has its
\* temporary file open, and after the write that file holds exactly its data.
WriterOwnsTmp(p) ==
    /\ pc[p] # "idle" => p \in Writers[call[p].key]
    /\ pc[p] # "write" => fd[p] = "none"
    /\ pc[p] = "write" => fd[p] = "tmp" /\ tmp[call[p].key] = Empty
    /\ pc[p] = "rename" => tmp[call[p].key] \in {call[p].data, NoFile}

IInv ==
    /\ TypeOK
    /\ \A p \in Procs : WriterOwnsTmp(p)
    /\ NoTornFile

\* TypeOK with the calls spelled out, so that a call's key and data are typed.
LEMMA CallTyped ==
    ASSUME TypeOK, NEW p \in Procs, pc[p] # "idle"
    PROVE  call[p].key \in Keys /\ call[p].data \in Data
BY DEF TypeOK

\* At first no call runs and no file is there.
LEMMA InitIInv == Init => IInv
<1> SUFFICES ASSUME Init PROVE IInv
  OBVIOUS
<1>1. TypeOK
  BY DEF Init, TypeOK
<1>2. (\A p \in Procs : WriterOwnsTmp(p)) /\ NoTornFile
  BY DEF Init, WriterOwnsTmp, NoTornFile
<1> QED BY <1>1, <1>2 DEF IInv

\* Two goroutines in the middle of a Save work on different keys.
LEMMA KeysDiffer ==
    ASSUME SingleWriter, IInv, NEW p \in Procs, NEW q \in Procs, p # q,
           pc[p] # "idle", pc[q] # "idle"
    PROVE  call[p].key # call[q].key
<1>1. call[p].key \in Keys /\ call[q].key \in Keys
  BY CallTyped DEF IInv
<1>2. p \in Writers[call[p].key] /\ q \in Writers[call[q].key]
  BY DEF IInv, WriterOwnsTmp
<1> QED BY <1>1, <1>2 DEF SingleWriter

\* Every system call keeps the invariant, when one process writes a key at a
\* time.
LEMMA NextIInv == CallsAreDistinct /\ SingleWriter /\ IInv /\ [Next]_vars => IInv'
<1> SUFFICES ASSUME CallsAreDistinct, SingleWriter, IInv, [Next]_vars PROVE IInv'
  OBVIOUS
<1> USE DEF IInv, NoTornFile, WriterOwnsTmp
<1>a. \A p, q \in Procs : p # q /\ pc[p] # "idle" /\ pc[q] # "idle"
                            => call[p].key # call[q].key
  BY KeysDiffer
<1>b. \A p \in Procs : pc[p] # "idle" => call[p].key \in Keys /\ call[p].data \in Data
  BY CallTyped
<1>1. ASSUME NEW p \in Procs, RejectSave(p) PROVE IInv'
  BY <1>1, <1>a, <1>b DEF RejectSave, Return, TypeOK
<1>2. ASSUME NEW p \in Procs, NEW k \in Keys, NEW d \in Data, BeginSave(p, k, d)
      PROVE  IInv'
  <2>1. TypeOK'
    BY <1>2 DEF BeginSave, TypeOK, CallsAreDistinct
  <2>2. /\ pc' = [pc EXCEPT ![p] = "open"]
        /\ call' = [call EXCEPT ![p] = [key |-> k, data |-> d]]
        /\ fd' = fd /\ tmp' = tmp /\ file' = file
        /\ fd[p] = "none" /\ p \in Writers[k]
    BY <1>2 DEF BeginSave
  <2>3. \A q \in Procs : WriterOwnsTmp(q)'
    <3> SUFFICES ASSUME NEW q \in Procs PROVE WriterOwnsTmp(q)'
      OBVIOUS
    <3>1. CASE q = p
      BY <2>1, <2>2, <3>1 DEF TypeOK
    <3>2. CASE q # p
      BY <2>1, <2>2, <3>2 DEF TypeOK
    <3> QED BY <3>1, <3>2
  <2> QED BY <2>1, <2>2, <2>3
<1>3. ASSUME NEW p \in Procs, OpenTmp(p) PROVE IInv'
  BY <1>3, <1>a, <1>b DEF OpenTmp, TypeOK, Content
<1>4. ASSUME NEW p \in Procs, WriteTmp(p) PROVE IInv'
  <2>1. fd[p] = "tmp" /\ tmp[call[p].key] = Empty
    BY <1>4 DEF WriteTmp
  <2>2. tmp' = [tmp EXCEPT ![call[p].key] = call[p].data] /\ file' = file
    BY <1>4, <2>1 DEF WriteTmp, PutThroughFd, OpenContent, Written
  <2> QED BY <1>4, <2>2, <1>a, <1>b DEF WriteTmp, TypeOK, Content
<1>5. ASSUME NEW p \in Procs, FailOpen(p) PROVE IInv'
  BY <1>5, <1>a, <1>b DEF FailOpen, Return, TypeOK
<1>6. ASSUME NEW p \in Procs, FailWrite(p) PROVE IInv'
  <2>1. fd[p] = "tmp" /\ tmp[call[p].key] = Empty
    BY <1>6 DEF FailWrite
  <2>2. PICK c \in {Empty, Torn} : tmp' = [tmp EXCEPT ![call[p].key] = c] /\ file' = file
    BY <1>6, <2>1 DEF FailWrite, PutThroughFd, OpenContent
  <2>3. /\ pc' = [pc EXCEPT ![p] = "idle"] /\ fd' = [fd EXCEPT ![p] = "none"]
        /\ call' = [call EXCEPT ![p] = NoCall] /\ pc[p] = "write"
        /\ outcome' = [outcome EXCEPT ![p] = "error"] /\ closed' = closed
    BY <1>6 DEF FailWrite, Return
  <2> QED BY <2>2, <2>3, <1>a, <1>b DEF TypeOK, Content
<1>7. ASSUME NEW p \in Procs, RenameTmp(p) PROVE IInv'
  <2>1. tmp[call[p].key] = call[p].data
    BY <1>7 DEF RenameTmp
  <2>2. fd' = fd
    <3>1. \A q \in Procs : ~HasOpen(q, call[p].key, "tmp") /\ ~HasOpen(q, call[p].key, "file")
      BY <1>7, <1>a DEF RenameTmp, HasOpen
    <3>2. fd \in [Procs -> {"none", "tmp", "file", "unlinked"}]
      BY DEF TypeOK
    <3> QED BY <1>7, <3>1, <3>2 DEF RenameTmp
  <2> QED BY <1>7, <2>1, <2>2, <1>a, <1>b DEF RenameTmp, TypeOK, Content
<1>8. ASSUME NEW p \in Procs, FailRename(p) PROVE IInv'
  BY <1>8, <1>a, <1>b DEF FailRename, TypeOK
<1>9. ASSUME NEW p \in Procs, RemoveTmp(p) PROVE IInv'
  <2>1. fd' = fd
    <3>1. \A q \in Procs : ~HasOpen(q, call[p].key, "tmp")
      BY <1>9, <1>a DEF RemoveTmp, HasOpen
    <3>2. fd \in [Procs -> {"none", "tmp", "file", "unlinked"}]
      BY DEF TypeOK
    <3> QED BY <1>9, <3>1, <3>2 DEF RemoveTmp, Unlink
  <2> QED BY <1>9, <2>1, <1>a, <1>b DEF RemoveTmp, TypeOK
<1>10. ASSUME NEW p \in Procs, NEW k \in Keys, Delete(p, k) PROVE IInv'
  <2>1. fd' = fd
    <3>1. \A q \in Procs : ~HasOpen(q, k, "file")
      BY DEF HasOpen
    <3>2. fd \in [Procs -> {"none", "tmp", "file", "unlinked"}]
      BY DEF TypeOK
    <3> QED BY <1>10, <3>1, <3>2 DEF Delete, Unlink
  <2> QED BY <1>10, <2>1, <1>a, <1>b DEF Delete, TypeOK
<1>11. ASSUME Close PROVE IInv'
  BY <1>11 DEF Close, TypeOK
<1>12. ASSUME Crash PROVE IInv'
  BY <1>12 DEF Crash, TypeOK
<1>13. CASE UNCHANGED vars
  BY <1>13 DEF vars, TypeOK
<1> QED BY <1>1, <1>2, <1>3, <1>4, <1>5, <1>6, <1>7, <1>8, <1>9, <1>10, <1>11,
           <1>12, <1>13 DEF Next

\* With one writer per key no reader and no restart ever finds a half-written
\* document, wherever the process dies and whichever system calls fail.
THEOREM SingleWriterIsAtomic ==
    ASSUME CallsAreDistinct, SingleWriter
    PROVE  Spec => [](TypeOK /\ NoTornFile)
<1>1. IInv => TypeOK /\ NoTornFile
  BY DEF IInv
<1>2. IInv /\ [Next]_vars => IInv'
  BY NextIInv
<1> QED BY <1>1, <1>2, InitIInv, PTL DEF Spec

\* The step that ends a Save: only a rename that succeeded replaces the document.
LEMMA StepAllOrNothing == IInv /\ [Next]_vars => [\A p \in Procs : AllOrNothing(p)]_vars
<1> SUFFICES ASSUME IInv, Next, NEW p \in Procs,
                    pc[p] # "idle", pc'[p] = "idle"
             PROVE  /\ outcome'[p] = "error" => file' = file
                    /\ outcome'[p] = "ok" => file'[call[p].key] = call[p].data
  BY DEF AllOrNothing
<1> USE DEF IInv, WriterOwnsTmp, TypeOK
<1>1. CASE RenameTmp(p)
  BY <1>1, CallTyped DEF RenameTmp
<1>2. CASE FailOpen(p) \/ RemoveTmp(p)
  BY <1>2 DEF FailOpen, RemoveTmp, Return
<1>3. CASE FailWrite(p)
  BY <1>3 DEF FailWrite, Return, PutThroughFd
<1>4. CASE Crash
  BY <1>4 DEF Crash
<1>5. ASSUME NEW q \in Procs, q # p,
             \/ RejectSave(q) \/ OpenTmp(q) \/ WriteTmp(q) \/ FailOpen(q) \/ FailWrite(q)
             \/ RenameTmp(q) \/ FailRename(q) \/ RemoveTmp(q)
      PROVE  FALSE
  BY <1>5 DEF RejectSave, OpenTmp, WriteTmp, FailOpen, FailWrite, RenameTmp,
              FailRename, RemoveTmp, Return
<1>6. ASSUME NEW q \in Procs, NEW k \in Keys,
             Delete(q, k) \/ \E d \in Data : BeginSave(q, k, d)
      PROVE  FALSE
  BY <1>6 DEF Delete, BeginSave
<1>7. ~RejectSave(p) /\ ~OpenTmp(p) /\ ~WriteTmp(p) /\ ~FailRename(p) /\ ~Close
  BY DEF RejectSave, OpenTmp, WriteTmp, FailRename, Close
<1> QED BY <1>1, <1>2, <1>3, <1>4, <1>5, <1>6, <1>7 DEF Next

\* With one writer per key the result of a Save is the truth about the file.
THEOREM SingleWriterIsAllOrNothing ==
    ASSUME CallsAreDistinct, SingleWriter
    PROVE  Spec => SaveIsAllOrNothing
<1>1. IInv /\ [Next]_vars => [\A p \in Procs : AllOrNothing(p)]_vars
  BY StepAllOrNothing
<1>2. IInv /\ [Next]_vars => IInv'
  BY NextIInv
<1> QED BY <1>1, <1>2, InitIInv, PTL DEF Spec, SaveIsAllOrNothing
=============================================================================
