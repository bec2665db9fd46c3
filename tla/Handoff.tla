------------------------------ MODULE Handoff ------------------------------
(***************************************************************************)
(* The handoff of an agent's snapshot (go-core/handoff_*.go): checksum it, *)
(* persist it, transfer it, confirm the contract.  HandoffWithRollback     *)
(* rolls a failed attempt back, and the agent may try again.               *)
(*                                                                         *)
(* A DevSnapshot is passed by pointer and its Checksum field is written by *)
(* ComputeChecksum, so the agent that goes on editing it is part of the    *)
(* model.  Stores and transports index what they keep by checksum, which   *)
(* is modelled by the content that it was computed of.  The store is a     *)
(* directory or a map, and the transport a map or a server across a        *)
(* network, where a request that fails may be served later all the same.   *)
(***************************************************************************)
EXTENDS Integers

CONSTANTS
    MaxEdits,   \* bound on the edits of the snapshot
    MaxTries,   \* bound on the attempts to hand it off
    EditsWhileSending   \* the agent edits while an attempt is under way

ASSUME HandoffAssumption == MaxEdits \in Nat /\ MaxTries \in Nat

VARIABLES
    persistence, \* the kind of SnapshotPersistence
    transport,   \* the kind of HandoffTransport
    content,    \* the fields of the snapshot but one, as a version number
    sum,        \* its Checksum field
    hPc,        \* the step that Execute is at, or how the last attempt ended
    checksum,   \* Execute's local variable
    tries,
    store,      \* SnapshotPersistence: checksum -> document
    wire,       \* HandoffTransport: checksum -> document
    delayed,    \* the requests to transfer that are still under way, as <<checksum, document>>
    received    \* the documents that ReceiveSnapshot returned, with their checksums

kinds == <<persistence, transport>>

handoffVars == <<kinds, content, sum, hPc, checksum, tries, store, wire, delayed, received>>

Contents == 0 .. MaxEdits

NoSum == -1

\* A document is the snapshot as JSON; a write that failed leaves a torn one.
Document(c, s) == [content |-> c, sum |-> s]

Nothing == Document(-1, NoSum)
Torn == Document(-2, NoSum)

Documents == [content : Contents \cup {-1, -2}, sum : Contents \cup {NoSum}]

HandoffTypeOK ==
    /\ persistence \in {"json", "memory"}
    /\ transport \in {"inproc", "http"}
    /\ content \in Contents
    /\ sum \in Contents \cup {NoSum}
    /\ hPc \in {"idle", "persist", "transfer", "confirm", "failed", "confirmed", "rolledBack"}
    /\ checksum \in Contents \cup {NoSum}
    /\ tries \in 0 .. MaxTries
    /\ store \in [Contents -> Documents]
    /\ wire \in [Contents -> Documents]
    /\ delayed \cup received \subseteq Contents \X Documents
    /\ delayed # {} => transport = "http"

HandoffInit ==
    /\ persistence \in {"json", "memory"}
    /\ transport \in {"inproc", "http"}
    /\ content = 0
    /\ sum = NoSum
    /\ hPc = "idle"
    /\ checksum = NoSum
    /\ tries = 0
    /\ store = [c \in Contents |-> Nothing]
    /\ wire = [c \in Contents |-> Nothing]
    /\ delayed = {}
    /\ received = {}

Sending == hPc \in {"persist", "transfer", "confirm"}

\* ComputeChecksum also stores what it returns in the snapshot.
ComputeChecksum == sum' = content

VerifyChecksum(doc) == doc.content \in Contents /\ doc.sum = doc.content

Edit ==
    /\ content < MaxEdits
    /\ EditsWhileSending \/ ~Sending
    /\ content' = content + 1
    /\ UNCHANGED <<kinds, sum, hPc, checksum, tries, store, wire, delayed, received>>

\* Step 1.
Request ==
    /\ hPc \in {"idle", "failed"}
    /\ tries < MaxTries
    /\ tries' = tries + 1
    /\ ComputeChecksum
    /\ checksum' = content
    /\ hPc' = "persist"
    /\ UNCHANGED <<kinds, content, store, wire, delayed, received>>

\* CreateSnapshot computes the checksum again, for the key: the document holds it.
WriteFile == store' = [store EXCEPT ![content] = Document(content, content)]

\* The map holds a copy, made by way of JSON.
KeepCopy == store' = [store EXCEPT ![content] = Document(content, content)]

\* Step 2.
Persist ==
    /\ hPc = "persist"
    /\ ComputeChecksum
    /\ \/ persistence = "json" /\ WriteFile
       \/ persistence = "memory" /\ KeepCopy
    /\ hPc' = "transfer"
    /\ UNCHANGED <<kinds, content, checksum, tries, wire, delayed, received>>

\* RollbackHandoff as HandoffWithRollback calls it: with the checksum of the
\* output, which no output of a failed Execute has set.  Both stores refuse the
\* empty token, so that nothing is verified and nothing cleaned up.
RollBackFailed == hPc' = "failed"

\* A mutant: an error of the store is not looked at.
PersistErrorIgnored ==
    /\ hPc = "persist"
    /\ persistence = "json"
    /\ ComputeChecksum
    /\ hPc' = "transfer"
    /\ UNCHANGED <<kinds, content, checksum, tries, store, wire, delayed, received>>

\* The directory cannot be made, or the file not written, or not to its end.
PersistFails ==
    /\ hPc = "persist"
    /\ persistence = "json"
    /\ ComputeChecksum
    /\ store' \in {store, [store EXCEPT ![content] = Torn]}
    /\ RollBackFailed
    /\ UNCHANGED <<kinds, content, checksum, tries, wire, delayed, received>>

\* What step 3 hands over: the document is made here, its key was made in step 1.
ToJSON == Document(content, sum)

Post == wire' = [wire EXCEPT ![checksum] = ToJSON]

CopyInto == wire' = [wire EXCEPT ![checksum] = ToJSON]

\* Step 3.
Transfer ==
    /\ hPc = "transfer"
    /\ \/ transport = "http" /\ Post
       \/ transport = "inproc" /\ CopyInto
    /\ hPc' = "confirm"
    /\ UNCHANGED <<kinds, content, sum, checksum, tries, store, delayed, received>>

\* The request is lost, or times out and is served at any later moment.
TransferFails ==
    /\ hPc = "transfer"
    /\ transport = "http"
    /\ delayed' \in {delayed, delayed \cup {<<checksum, ToJSON>>}}
    /\ RollBackFailed
    /\ UNCHANGED <<kinds, content, sum, checksum, tries, store, wire, received>>

ServeLate ==
    \E request \in delayed :
        /\ wire' = [wire EXCEPT ![request[1]] = request[2]]
        /\ delayed' = delayed \ {request}
        /\ UNCHANGED <<kinds, content, sum, hPc, checksum, tries, store, received>>

\* The contract that Execute makes, with IDs that its caller may have left empty.
NewHandoffContract(named) == [named |-> named, snapshotChecksum |-> checksum]

Valid(contract, expected) ==
    /\ contract.named
    /\ contract.snapshotChecksum \in Contents
    /\ contract.snapshotChecksum = expected

\* Step 4.  Execute validates the contract itself; the target is not asked.
Confirm ==
    /\ hPc = "confirm"
    /\ \E named \in BOOLEAN :
        \/ Valid(NewHandoffContract(named), checksum) /\ hPc' = "confirmed"
        \/ ~Valid(NewHandoffContract(named), checksum) /\ RollBackFailed
    /\ UNCHANGED <<kinds, content, sum, checksum, tries, store, wire, delayed, received>>

\* RestoreSnapshot of a file verifies what it has read; that of the map does not.
FileRestores(c) == store[c] # Nothing /\ VerifyChecksum(store[c])

CopyRestores(c) == store[c] # Nothing

Delete(c) == wire' = [wire EXCEPT ![c] = Nothing]

\* RollbackHandoff called with the checksum of a confirmed handoff.  A server keeps
\* the snapshot, "transport cleanup not supported".
RollBack ==
    /\ hPc = "confirmed"
    /\ \/ persistence = "json" /\ FileRestores(checksum)
       \/ persistence = "memory" /\ CopyRestores(checksum)
    /\ VerifyChecksum(store[checksum])
    /\ \/ transport = "inproc" /\ Delete(checksum)
       \/ transport = "http" /\ UNCHANGED wire
    /\ hPc' = "rolledBack"
    /\ UNCHANGED <<kinds, content, sum, checksum, tries, store, delayed, received>>

\* What a GET is answered with, and what the map has: a copy of the document.
Fetch(c) == {wire[c]} \ {Nothing}

Lookup(c) == {wire[c]} \ {Nothing}

\* ReceiveSnapshot by the target, which has the checksum from a contract.
Receive(c) ==
    \E doc \in IF transport = "http" THEN Fetch(c) ELSE Lookup(c) :
        /\ VerifyChecksum(doc)
        /\ received' = received \cup {<<c, doc>>}
        /\ UNCHANGED <<kinds, content, sum, hPc, checksum, tries, store, wire, delayed>>

HandoffNext ==
    \/ Edit
    \/ Request
    \/ Persist
    \/ PersistFails
    \/ Transfer
    \/ TransferFails
    \/ ServeLate
    \/ Confirm
    \/ RollBack
    \/ \E c \in Contents : Receive(c)

HandoffSpec == HandoffInit /\ [][HandoffNext]_handoffVars

-----------------------------------------------------------------------------

\* A confirmed handoff can be received and can be rolled back: the transport
\* and the store have the snapshot under the checksum of the contract, after
\* any number of failed attempts and edits between them, and whenever the transfers
\* that timed out are served.
Delivered ==
    hPc = "confirmed" =>
        /\ wire[checksum] = Document(checksum, checksum)
        /\ store[checksum] = Document(checksum, checksum)

\* What is received for a checksum is the snapshot it was computed of.
ReceivedIsContracted == \A r \in received : r[2].content = r[1]

\* handoff_composer.go: what is confirmed can be received and rolled back, and what is
\* received for a checksum is the snapshot it was computed of.
HandoffDelivers == Delivered /\ ReceivedIsContracted
=============================================================================
