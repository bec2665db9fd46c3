----------------------------- MODULE Projection -----------------------------
(***************************************************************************)
(* ProjectionWithCheckpoint (go-core/eventstore_projection.go) around      *)
(* Projection (go-core/projection.go): the state of one aggregate, folded  *)
(* from its events batch by batch, with a checkpoint that later runs       *)
(* resume from.  Runs are concurrent and share the checkpoint store; each  *)
(* has a list of events of its own, which may be older than another's.     *)
(*                                                                         *)
(* The versions of the stream are 1, 2, 3, ... (EventStore), and a state   *)
(* is the sequence of the versions that the handler has applied.           *)
(***************************************************************************)
EXTENDS Integers, Sequences, TLAPS

CONSTANTS
    Runs,                \* calls of ExecuteWithCheckpoint, each reused
    BatchSize,
    CheckpointInterval,
    MaxEvents            \* bound on the length of the stream

VARIABLES
    length,       \* of the aggregate's stream
    checkpoint,   \* in the store: [version, state]
    pc,           \* pc[r]: "idle", "apply" an event, end the "batch", "done"
    list,         \* list[r]: how many events r was given
    start,        \* start[r]: startVersion
    state,        \* state[r]
    at,           \* at[r]: version of the event that is next
    applied,      \* applied[r]: the version that the current batch has reached, or 0
    processed,    \* processed[r]
    version       \* version[r]: latestVersion

local == <<pc, list, start, state, at, applied, processed, version>>
vars == <<length, checkpoint, local>>

\* The state after the first v events: what a run without checkpoints computes.
Replay(v) == [i \in 1..v |-> i]

\* What Load gives when there is none is ignored like a version that is not newer.
NoCheckpoint == [version |-> 0, state |-> <<>>]

TypeOK ==
    /\ length \in Nat
    /\ checkpoint \in [version : Nat, state : Seq(Nat)]
    /\ pc \in [Runs -> {"idle", "apply", "batch", "done"}]
    /\ list \in [Runs -> Nat]
    /\ start \in [Runs -> Nat]
    /\ state \in [Runs -> Seq(Nat)]
    /\ at \in [Runs -> Nat \ {0}]
    /\ applied \in [Runs -> Nat]
    /\ processed \in [Runs -> Nat]
    /\ version \in [Runs -> Nat]

Init ==
    /\ length = 0
    /\ checkpoint = NoCheckpoint
    /\ pc = [r \in Runs |-> "idle"]
    /\ list = [r \in Runs |-> 0]
    /\ start = [r \in Runs |-> 0]
    /\ state = [r \in Runs |-> <<>>]
    /\ at = [r \in Runs |-> 1]
    /\ applied = [r \in Runs |-> 0]
    /\ processed = [r \in Runs |-> 0]
    /\ version = [r \in Runs |-> 0]

AppendEvent ==
    /\ length < MaxEvents
    /\ length' = length + 1
    /\ UNCHANGED <<checkpoint, local>>

\* The CurrentState of a caller that asks for the events from a version on.
Brought(from) == IF from = 0 THEN Replay(0) ELSE Replay(from - 1)

\* Mutant: also resumes from the checkpoint of a batch that skipped every event.
ResumedUnlessOlder(cp, from) ==
    IF cp.version >= from THEN <<cp.version + 1, cp.state>> ELSE <<from, Brought(from)>>

\* Where a run starts and with which state: behind the checkpoint if that is
\* newer than what the caller brings along.
Resumed(cp, from) ==
    IF cp.version > from THEN <<cp.version + 1, cp.state>> ELSE <<from, Brought(from)>>

\* The caller passes the first n events and either asks for a rebuild (from = 0)
\* or brings the state of the events before `from'.
Begin(r, n, from, cp) ==
    /\ pc[r] = "idle"
    /\ list' = [list EXCEPT ![r] = n]
    /\ start' = [start EXCEPT ![r] = Resumed(cp, from)[1]]
    /\ state' = [state EXCEPT ![r] = Resumed(cp, from)[2]]
    /\ at' = [at EXCEPT ![r] = 1]
    /\ applied' = [applied EXCEPT ![r] = 0]
    /\ processed' = [processed EXCEPT ![r] = 0]
    /\ version' = [version EXCEPT ![r] = 0]
    /\ pc' = [pc EXCEPT ![r] = IF n = 0 THEN "done" ELSE "apply"]
    /\ UNCHANGED <<length, checkpoint>>

\* Projection.Execute: the events below the start are skipped.
Apply(r) ==
    /\ pc[r] = "apply"
    /\ IF at[r] < start[r]
       THEN UNCHANGED <<state, applied, processed>>
       ELSE /\ state' = [state EXCEPT ![r] = Append(@, at[r])]
            /\ applied' = [applied EXCEPT ![r] = at[r]]
            /\ processed' = [processed EXCEPT ![r] = @ + 1]
    /\ at' = [at EXCEPT ![r] = @ + 1]
    /\ pc' = [pc EXCEPT ![r] =
                 IF at[r] % BatchSize = 0 \/ at[r] = list[r] THEN "batch" ELSE @]
    /\ UNCHANGED <<length, checkpoint, list, start, version>>

\* The run's variables go with it.
Leave(r) ==
    /\ pc' = [pc EXCEPT ![r] = "idle"]
    /\ list' = [list EXCEPT ![r] = 0]
    /\ start' = [start EXCEPT ![r] = 0]
    /\ state' = [state EXCEPT ![r] = <<>>]
    /\ at' = [at EXCEPT ![r] = 1]
    /\ applied' = [applied EXCEPT ![r] = 0]
    /\ processed' = [processed EXCEPT ![r] = 0]
    /\ version' = [version EXCEPT ![r] = 0]
    /\ UNCHANGED <<length, checkpoint>>

\* The handler's error ends the run; its checkpoints stay.
HandlerFails(r) ==
    /\ pc[r] = "apply" /\ at[r] >= start[r]
    /\ Leave(r)

\* A batch of which every event was skipped has version 0, and the checkpoint it
\* may save has too.  An error of Save is recorded and otherwise ignored.
EndBatch(r) ==
    /\ pc[r] = "batch"
    /\ version' = [version EXCEPT ![r] = applied[r]]
    /\ applied' = [applied EXCEPT ![r] = 0]
    /\ \/ /\ processed[r] % CheckpointInterval = 0
          /\ checkpoint' = [version |-> applied[r], state |-> state[r]]
       \/ UNCHANGED checkpoint
    /\ pc' = [pc EXCEPT ![r] = IF at[r] > list[r] THEN "done" ELSE "apply"]
    /\ UNCHANGED <<length, list, start, state, at, processed>>

Return(r) ==
    /\ pc[r] = "done"
    /\ Leave(r)

DeleteCheckpoint ==
    /\ checkpoint' = NoCheckpoint
    /\ UNCHANGED <<length, local>>

Step(r) == Apply(r) \/ HandlerFails(r) \/ EndBatch(r) \/ Return(r)

Next ==
    \/ AppendEvent \/ DeleteCheckpoint
    \/ \E r \in Runs :
        \/ \E n \in 0..length : \E from \in 0..n + 1 :
              \E cp \in {checkpoint, NoCheckpoint} : Begin(r, n, from, cp)
        \/ Step(r)

Spec == Init /\ [][Next]_vars

-----------------------------------------------------------------------------

\* Whatever runs race, fail and resume, a checkpoint that can be resumed from
\* holds each event up to its version, applied once and in order.
CheckpointMatchesReplay ==
    checkpoint.version > 0 => checkpoint.state = Replay(checkpoint.version)

\* A run's result, resumed or not, is that of a full replay: of the events it was
\* given or, if the checkpoint or its caller was ahead of them, up to there.
Furthest(r) == IF start[r] > list[r] + 1 THEN start[r] - 1 ELSE list[r]

ResultMatchesReplay ==
    \A r \in Runs : pc[r] = "done" =>
        /\ state[r] = Replay(Furthest(r))
        /\ version[r] \in {0, list[r]}

MatchesReplay == CheckpointMatchesReplay /\ ResultMatchesReplay

-----------------------------------------------------------------------------
(* For any number of runs, any batch size and any checkpoint interval, a    *)
(* checkpoint and a result are what a full replay of the events computes.   *)

\* The events that a run's state stands for: those it was resumed behind, until
\* it gets past them.
Reached(r) ==
    IF at[r] > start[r] THEN at[r] - 1
    ELSE IF start[r] = 0 THEN 0 ELSE start[r] - 1

\* A run's state is the replay of what it has reached, and the version that its
\* batch has reached is where it stands.
RunMatches(r) ==
    pc[r] # "idle" =>
        /\ state[r] = Replay(Reached(r))
        /\ applied[r] # 0 => applied[r] = at[r] - 1 /\ at[r] > start[r]
        /\ at[r] =< list[r] + 1
        /\ pc[r] = "apply" => at[r] =< list[r]
        /\ pc[r] = "done" => at[r] = list[r] + 1 /\ version[r] \in {0, list[r]}

IInv ==
    /\ TypeOK
    /\ CheckpointMatchesReplay
    /\ \A r \in Runs : RunMatches(r)

\* One more event extends a replay by its version.
LEMMA ReplayExtends ==
    ASSUME NEW v \in Nat
    PROVE  /\ Replay(v) \in Seq(Nat)
           /\ Append(Replay(v), v + 1) = Replay(v + 1)
BY DEF Replay

\* The invariant holds before the first call.
LEMMA Begins == Init => IInv
BY DEF Init, IInv, TypeOK, CheckpointMatchesReplay, RunMatches, NoCheckpoint

\* What a run resumes with is the replay of the events before its start.
LEMMA ResumesWithReplay ==
    ASSUME IInv, NEW from \in Nat, NEW cp \in {checkpoint, NoCheckpoint}
    PROVE  /\ Resumed(cp, from)[1] \in Nat
           /\ Resumed(cp, from)[2] =
                Replay(IF Resumed(cp, from)[1] = 0 THEN 0 ELSE Resumed(cp, from)[1] - 1)
<1>1. CASE cp.version > from
  <2>1. cp = checkpoint /\ checkpoint.version \in Nat
    BY <1>1 DEF IInv, TypeOK, NoCheckpoint
  <2>2. checkpoint.state = Replay(checkpoint.version)
    BY <1>1, <2>1 DEF IInv, CheckpointMatchesReplay
  <2>3. Resumed(cp, from) = <<checkpoint.version + 1, checkpoint.state>>
    BY <1>1, <2>1 DEF Resumed
  <2> QED BY <2>1, <2>2, <2>3
<1>2. CASE ~(cp.version > from)
  <2>1. Resumed(cp, from) = <<from, Brought(from)>>
    BY <1>2 DEF Resumed
  <2> QED BY <2>1 DEF Brought
<1> QED BY <1>1, <1>2

\* Every step of a run, of the clients and of the store keeps the invariant.
LEMMA Preserved == IInv /\ [Next]_vars => IInv'
<1> SUFFICES ASSUME IInv, [Next]_vars PROVE IInv'
  OBVIOUS
<1>1. ASSUME AppendEvent \/ DeleteCheckpoint \/ UNCHANGED vars PROVE IInv'
  <2>1. /\ UNCHANGED local
        /\ length' \in Nat
        /\ checkpoint' \in {checkpoint, NoCheckpoint}
    BY <1>1 DEF IInv, TypeOK, AppendEvent, DeleteCheckpoint, vars
  <2>2. TypeOK'
    <3>1. NoCheckpoint \in [version : Nat, state : Seq(Nat)]
      BY DEF NoCheckpoint
    <3> QED BY <2>1, <3>1 DEF IInv, TypeOK, local
  <2>3. CheckpointMatchesReplay'
    BY <2>1 DEF IInv, CheckpointMatchesReplay, NoCheckpoint
  <2>4. ASSUME NEW q \in Runs PROVE RunMatches(q)'
    BY <2>1 DEF IInv, RunMatches, Reached, local
  <2> QED BY <2>2, <2>3, <2>4 DEF IInv
<1>2. ASSUME NEW r \in Runs, NEW n \in 0..length, NEW from \in 0..n + 1,
             NEW cp \in {checkpoint, NoCheckpoint}, Begin(r, n, from, cp)
      PROVE  IInv'
  <2> DEFINE first == Resumed(cp, from)[1]
             initial == Resumed(cp, from)[2]
  <2>1. n \in Nat /\ from \in Nat
    BY DEF IInv, TypeOK
  <2>2. first \in Nat /\ initial = Replay(IF first = 0 THEN 0 ELSE first - 1)
    BY <2>1, ResumesWithReplay
  <2>3. initial \in Seq(Nat)
    <3>1. (IF first = 0 THEN 0 ELSE first - 1) \in Nat
      BY <2>2
    <3> HIDE DEF first, initial
    <3> QED BY <2>2, <3>1, ReplayExtends
  <2> HIDE DEF first, initial
  <2>4. /\ list' = [list EXCEPT ![r] = n] /\ start' = [start EXCEPT ![r] = first]
        /\ state' = [state EXCEPT ![r] = initial] /\ at' = [at EXCEPT ![r] = 1]
        /\ applied' = [applied EXCEPT ![r] = 0] /\ processed' = [processed EXCEPT ![r] = 0]
        /\ version' = [version EXCEPT ![r] = 0]
        /\ pc' = [pc EXCEPT ![r] = IF n = 0 THEN "done" ELSE "apply"]
        /\ UNCHANGED <<length, checkpoint>>
    BY <1>2 DEF Begin, first, initial
  <2>5. TypeOK'
    BY <2>1, <2>2, <2>3, <2>4 DEF IInv, TypeOK
  <2>6. ASSUME NEW q \in Runs PROVE RunMatches(q)'
    <3>1. CASE q = r
      BY <2>1, <2>2, <2>4, <3>1 DEF IInv, TypeOK, RunMatches, Reached
    <3>2. CASE q # r
      BY <2>4, <3>2 DEF IInv, TypeOK, RunMatches, Reached
    <3> QED BY <3>1, <3>2
  <2> QED BY <2>4, <2>5, <2>6 DEF IInv, CheckpointMatchesReplay
<1>3. ASSUME NEW r \in Runs, Apply(r) PROVE IInv'
  <2>1. TypeOK'
    <3>1. Append(state[r], at[r]) \in Seq(Nat)
      BY DEF IInv, TypeOK
    <3>2. /\ at' = [at EXCEPT ![r] = at[r] + 1]
          /\ pc' \in [Runs -> {"idle", "apply", "batch", "done"}]
          /\ UNCHANGED <<length, checkpoint, list, start, version>>
      BY <1>3 DEF IInv, TypeOK, Apply
    <3>3. CASE at[r] < start[r]
      <4>1. UNCHANGED <<state, applied, processed>>
        BY <1>3, <3>3 DEF Apply
      <4> QED BY <3>2, <4>1 DEF IInv, TypeOK
    <3>4. CASE ~(at[r] < start[r])
      <4>1. /\ state' = [state EXCEPT ![r] = Append(state[r], at[r])]
            /\ applied' = [applied EXCEPT ![r] = at[r]]
            /\ processed' = [processed EXCEPT ![r] = processed[r] + 1]
        BY <1>3, <3>4 DEF Apply
      <4> QED BY <3>1, <3>2, <4>1 DEF IInv, TypeOK
    <3> QED BY <3>3, <3>4
  <2>2. ASSUME NEW q \in Runs, q # r PROVE RunMatches(q)'
    BY <1>3, <2>2 DEF IInv, TypeOK, RunMatches, Reached, Apply
  <2>3. RunMatches(r)'
    <3>1. /\ state[r] = Replay(Reached(r)) /\ at[r] =< list[r]
          /\ at[r] \in Nat \ {0} /\ start[r] \in Nat /\ list[r] \in Nat
      BY <1>3 DEF IInv, TypeOK, RunMatches, Apply
    <3>2. /\ at'[r] = at[r] + 1 /\ start'[r] = start[r] /\ list'[r] = list[r]
          /\ pc'[r] \in {"apply", "batch"}
          /\ pc'[r] = "apply" => at[r] # list[r]
      BY <1>3 DEF IInv, TypeOK, Apply
    <3>3. CASE at[r] < start[r]
      <4>1. state'[r] = state[r] /\ applied'[r] = applied[r] /\ applied[r] = 0
        <5>1. state' = state /\ applied' = applied
          BY <1>3, <3>3 DEF Apply
        <5>2. pc[r] = "apply"
          BY <1>3 DEF Apply
        <5>3. applied[r] # 0 => at[r] > start[r]
          BY <5>2 DEF IInv, RunMatches
        <5> QED BY <3>1, <3>3, <5>1, <5>3
      <4>2. Reached(r) = start[r] - 1 /\ Reached(r)' = start[r] - 1
        BY <3>1, <3>2, <3>3 DEF Reached
      <4> QED BY <3>1, <3>2, <4>1, <4>2 DEF RunMatches
    <3>4. CASE at[r] >= start[r]
      <4>1. state'[r] = Append(state[r], at[r]) /\ applied'[r] = at[r]
        BY <1>3, <3>1, <3>4 DEF IInv, TypeOK, Apply
      <4>2. Reached(r) = at[r] - 1 /\ Reached(r)' = at[r]
        BY <3>1, <3>2, <3>4 DEF Reached
      <4>3. state'[r] = Replay(at[r])
        <5> DEFINE v == at[r] - 1
        <5>1. v \in Nat /\ v + 1 = at[r] /\ state[r] = Replay(v)
          BY <3>1, <4>2
        <5> HIDE DEF v
        <5>2. Append(Replay(v), v + 1) = Replay(v + 1)
          BY <5>1, ReplayExtends
        <5> QED BY <4>1, <5>1, <5>2
      <4> QED BY <3>1, <3>2, <3>4, <4>1, <4>2, <4>3 DEF RunMatches
    <3> QED BY <3>1, <3>3, <3>4
  <2>4. CheckpointMatchesReplay'
    BY <1>3 DEF IInv, CheckpointMatchesReplay, Apply
  <2> QED BY <2>1, <2>2, <2>3, <2>4 DEF IInv
<1>4. ASSUME NEW r \in Runs, HandlerFails(r) \/ Return(r) PROVE IInv'
  <2>1. Leave(r)
    BY <1>4 DEF HandlerFails, Return
  <2>2. TypeOK'
    <3>1. <<>> \in Seq(Nat)
      OBVIOUS
    <3> QED BY <2>1, <3>1 DEF IInv, TypeOK, Leave
  <2>3. ASSUME NEW q \in Runs PROVE RunMatches(q)'
    <3>1. CASE q = r
      BY <2>1, <3>1 DEF IInv, TypeOK, RunMatches, Leave
    <3>2. CASE q # r
      BY <2>1, <3>2 DEF IInv, TypeOK, RunMatches, Reached, Leave
    <3> QED BY <3>1, <3>2
  <2> QED BY <2>1, <2>2, <2>3 DEF IInv, CheckpointMatchesReplay, Leave
<1>5. ASSUME NEW r \in Runs, EndBatch(r) PROVE IInv'
  <2>1. TypeOK'
    BY <1>5 DEF IInv, TypeOK, EndBatch
  <2>2. CheckpointMatchesReplay'
    <3>1. CASE UNCHANGED checkpoint
      BY <3>1 DEF IInv, CheckpointMatchesReplay
    <3>2. CASE checkpoint' = [version |-> applied[r], state |-> state[r]]
      <4>1. /\ pc[r] = "batch" /\ at[r] \in Nat /\ start[r] \in Nat
            /\ checkpoint'.version = applied[r] /\ checkpoint'.state = state[r]
        BY <1>5, <3>2 DEF IInv, TypeOK, EndBatch
      <4>2. /\ state[r] = Replay(Reached(r))
            /\ applied[r] # 0 => applied[r] = at[r] - 1 /\ at[r] > start[r]
        BY <4>1 DEF IInv, RunMatches
      <4>3. applied[r] > 0 => state[r] = Replay(applied[r])
        BY <4>1, <4>2 DEF Reached
      <4> QED BY <4>1, <4>3 DEF CheckpointMatchesReplay
    <3> QED BY <1>5, <3>1, <3>2 DEF EndBatch
  <2>3. ASSUME NEW q \in Runs PROVE RunMatches(q)'
    BY <1>5 DEF IInv, TypeOK, RunMatches, Reached, EndBatch
  <2> QED BY <2>1, <2>2, <2>3 DEF IInv
<1> QED BY <1>1, <1>2, <1>3, <1>4, <1>5 DEF Next, Step

\* The invariant gives the property: a run that is done has passed its list.
LEMMA RunsMatch == IInv => MatchesReplay
<1> SUFFICES ASSUME IInv, NEW r \in Runs, pc[r] = "done"
             PROVE  state[r] = Replay(Furthest(r)) /\ version[r] \in {0, list[r]}
  BY DEF IInv, MatchesReplay, ResultMatchesReplay
<1>1. at[r] = list[r] + 1
  BY DEF IInv, RunMatches
<1>2. at[r] \in Nat /\ list[r] \in Nat /\ start[r] \in Nat
  BY DEF IInv, TypeOK
<1>3. Reached(r) = Furthest(r)
  BY <1>1, <1>2 DEF Reached, Furthest
<1> QED BY <1>3 DEF IInv, RunMatches

\* ExecuteWithCheckpoint: whatever runs race, fail, resume and save, checkpoints
\* and results equal those of a full replay.
THEOREM ProjectionMatchesReplay == Spec => []MatchesReplay
<1>1. Spec => []IInv
  BY Begins, Preserved, PTL DEF Spec
<1> QED BY <1>1, RunsMatch, PTL
=============================================================================
