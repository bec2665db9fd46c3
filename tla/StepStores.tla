------------------------------ MODULE StepStores ------------------------------
(***************************************************************************)
(* The sharded stores of execution steps: ShardedStepStore                 *)
(* (go-core/perf_sharded_observation_metrics.go), the ShardedIndexedStep-  *)
(* Store that keeps its index in sync.Maps (.._health.go), and the         *)
(* ShardedObservationAdapter (perf_sharded_observation.go), which is a     *)
(* store without index that never wraps and is read page by page.          *)
(*                                                                         *)
(* A step belongs to the shard of its span.  Record writes the shards one  *)
(* after the other, each under its own mutex, and adds to the atomic count *)
(* at the end; readers and Clear go through the shards in the same order.  *)
(***************************************************************************)
EXTENDS Naturals, Sequences, SequencesExt, FiniteSets

CONSTANTS
    Recorders,
    Calls,      \* the batches that each recorder records, in order
    Shards,     \* 1 .. the number of shards
    ShardOf,    \* step -> shard
    Fields,     \* the indexed fields of a step
    Value,      \* field -> step -> value; Blank is not indexed
    Blank,
    Capacity,   \* of a shard
    Limit, Offset,   \* of GetSteps; no limit is 0
    Queries,    \* where: field -> value or Blank; through: the steps that are recent
                \* and failed enough; limit
    Selective,  \* the indexed fields, the most selective first
    Time,       \* of a step
    Clears      \* how often Clear is called

VARIABLES
    slots, head, size,     \* each shard's ring
    index,                 \* shard -> field -> value -> positions
    count,                 \* totalCount, stepCount
    left, group, at,       \* of a recorder: calls left, current call, next shard
    page, pAt, need, skipped, \* of a reader: result, next shard, its locals
    query, stayed,           \* its query; the steps that stay in their shard meanwhile
    clearing, cleared      \* the shards that Clear is through with; how often it was called

storeVars == <<slots, head, size, index, count>>
pageVars == <<page, pAt, need, skipped>>
readerVars == <<pageVars, query, stayed>>
vars == <<storeVars, left, group, at, readerVars, clearing, cleared>>

AfterLast == Cardinality(Shards) + 1
NoStep == "none"
NoQuery == [where |-> [f \in Fields |-> Blank], through |-> {}, limit |-> 0]
Values(f) == Range(Value[f]) \ {Blank}

TypeOK ==
    /\ \A s \in Shards : head[s] \in 0 .. Capacity - 1 /\ size[s] \in 0 .. Capacity
    /\ count \in 0 .. Cardinality(DOMAIN ShardOf)
    /\ \A r \in Recorders : at[r] \in 0 .. AfterLast
    /\ pAt \in 0 .. AfterLast /\ skipped \in 0 .. Offset /\ clearing \in 0 .. Cardinality(Shards)

Init ==
    /\ slots = [s \in Shards |-> [i \in 1 .. Capacity |-> NoStep]]
    /\ head = [s \in Shards |-> 0] /\ size = [s \in Shards |-> 0]
    /\ index = [s \in Shards |-> [f \in Fields |-> [v \in Values(f) |-> <<>>]]]
    /\ count = 0
    /\ left = Calls /\ group = [r \in Recorders |-> <<>>] /\ at = [r \in Recorders |-> 0]
    /\ page = <<>> /\ pAt = 0 /\ need = 0 /\ skipped = 0
    /\ query = NoQuery /\ stayed = {}
    /\ clearing = 0 /\ cleared = 0

-----------------------------------------------------------------------------
(* One shard, under its mutex *)

\* allPositions: from the oldest entry on.
AllPositions(s) == [i \in 1 .. size[s] |-> ((head[s] + Capacity - size[s] + i - 1) % Capacity) + 1]

\* removePos: the first occurrence only.
RemovePos(positions, p) ==
    IF p \in Range(positions) THEN RemoveAt(positions, CHOOSE i \in DOMAIN positions :
        positions[i] = p /\ \A j \in 1 .. i - 1 : positions[j] # p)
    ELSE positions

\* addToIndex and removeFromIndex of one field.
Indexed(entries, f, step, p) ==
    IF Value[f][step] = Blank THEN entries
    ELSE [entries EXCEPT ![Value[f][step]] = Append(@, p)]
Unindexed(entries, f, step, p) ==
    IF Value[f][step] = Blank THEN entries
    ELSE [entries EXCEPT ![Value[f][step]] = RemovePos(@, p)]

\* Mutant: the evicted step stays in the index.
WriteUnremoved(shard, step) ==
    LET p == shard.head + 1
    IN  [slots |-> [shard.slots EXCEPT ![p] = step],
         head  |-> p % Capacity,
         size  |-> IF shard.size < Capacity THEN shard.size + 1 ELSE Capacity,
         index |-> [f \in Fields |-> Indexed(shard.index[f], f, step, p)]]

\* One turn of Record's loop: the step at the head leaves the index when the ring
\* is full, the new one takes its place in both.
Write(shard, step) ==
    LET p == shard.head + 1
        evicted == shard.slots[p]
        remaining == IF shard.size < Capacity THEN shard.index
                     ELSE [f \in Fields |-> Unindexed(shard.index[f], f, evicted, p)]
    IN  [slots |-> [shard.slots EXCEPT ![p] = step],
         head  |-> p % Capacity,
         size  |-> IF shard.size < Capacity THEN shard.size + 1 ELSE Capacity,
         index |-> [f \in Fields |-> Indexed(remaining[f], f, step, p)]]

StepsAt(s, positions) == [i \in DOMAIN positions |-> slots[s][positions[i]]]
Stored == UNION {Range(StepsAt(s, AllPositions(s))) : s \in Shards}

Matches(q, step) ==
    step \in q.through /\ \A f \in Fields : q.where[f] \in {Blank, Value[f][step]}

\* selectBestIndex: the positions by the most selective field that is asked for, or all.
Candidates(s, q) ==
    LET asked == SelectSeq(Selective, LAMBDA f : q.where[f] # Blank)
    IN  IF asked = <<>> THEN AllPositions(s) ELSE index[s][asked[1]][q.where[asked[1]]]

\* queryShard: by an index, and filtered by the rest of the query.
QueryShard(s, q) ==
    SelectSeq(StepsAt(s, Candidates(s, q)), LAMBDA step : Matches(q, step))

-----------------------------------------------------------------------------

\* Record: the batch is grouped by shard.
Begin(r) ==
    /\ at[r] = 0 /\ left[r] # <<>>
    /\ group' = [group EXCEPT ![r] = Head(left[r])]
    /\ left' = [left EXCEPT ![r] = Tail(@)]
    /\ at' = [at EXCEPT ![r] = 1]
    /\ UNCHANGED <<storeVars, readerVars, clearing, cleared>>

RecordShard(r) ==
    /\ at[r] \in Shards
    /\ LET s == at[r]
           mine == SelectSeq(group[r], LAMBDA step : ShardOf[step] = s)
           shard == FoldLeft(Write, [slots |-> slots[s], head |-> head[s],
                                     size |-> size[s], index |-> index[s]], mine)
       IN  /\ slots' = [slots EXCEPT ![s] = shard.slots]
           /\ head' = [head EXCEPT ![s] = shard.head]
           /\ size' = [size EXCEPT ![s] = shard.size]
           /\ index' = [index EXCEPT ![s] = shard.index]
           /\ stayed' = stayed \ (Range(slots[s]) \ Range(shard.slots))
    /\ at' = [at EXCEPT ![r] = @ + 1]
    /\ UNCHANGED <<count, left, group, pageVars, query, clearing, cleared>>

AddCount(r) ==
    /\ at[r] = AfterLast
    /\ count' = count + Len(group[r])
    /\ group' = [group EXCEPT ![r] = <<>>] /\ at' = [at EXCEPT ![r] = 0]
    /\ UNCHANGED <<slots, head, size, index, left, readerVars, clearing, cleared>>

\* GetSteps: the count is read before the shards.
GetSteps ==
    /\ pAt = 0 /\ query = NoQuery /\ Offset < count
    /\ need' = (IF Limit > 0 /\ Limit < count - Offset THEN Limit ELSE count - Offset)
    /\ page' = <<>> /\ skipped' = 0 /\ pAt' = 1
    /\ UNCHANGED <<storeVars, query, stayed, left, group, at, clearing, cleared>>

Min2(a, b) == IF a < b THEN a ELSE b

ReadShard ==
    /\ query = NoQuery /\ pAt \in Shards /\ Len(page) < need
    /\ LET all == StepsAt(pAt, AllPositions(pAt))
           skip == Min2(Offset - skipped, Len(all))
           take == Min2(need - Len(page), Len(all) - skip)
       IN  /\ skipped' = skipped + skip
           /\ page' = page \o SubSeq(all, skip + 1, skip + take)
    /\ pAt' = pAt + 1
    /\ UNCHANGED <<storeVars, need, query, stayed, left, group, at, clearing, cleared>>

PageDone ==
    /\ query = NoQuery /\ pAt # 0 /\ (pAt = AfterLast \/ Len(page) >= need)
    /\ pAt' = 0
    /\ UNCHANGED <<storeVars, page, need, skipped, query, stayed, left, group, at, clearing, cleared>>

\* Query goes through the shards,
Query(q) ==
    /\ pAt = 0 /\ query = NoQuery
    /\ query' = q /\ page' = <<>> /\ pAt' = 1 /\ stayed' = Stored
    /\ UNCHANGED <<storeVars, need, skipped, left, group, at, clearing, cleared>>

QueryNext ==
    /\ query # NoQuery /\ pAt \in Shards
    /\ page' = page \o QueryShard(pAt, query)
    /\ pAt' = pAt + 1
    /\ UNCHANGED <<storeVars, need, skipped, query, stayed, left, group, at, clearing, cleared>>

\* and returns the oldest of what it found.
Answer ==
    LET sorted == SortSeq(page, LAMBDA a, b : Time[a] < Time[b])
    IN  IF query.limit > 0 /\ Len(sorted) > query.limit
        THEN SubSeq(sorted, 1, query.limit) ELSE sorted
QueryReturns ==
    /\ query # NoQuery /\ pAt = AfterLast
    /\ query' = NoQuery /\ page' = <<>> /\ pAt' = 0 /\ stayed' = {}
    /\ UNCHANGED <<storeVars, need, skipped, left, group, at, clearing, cleared>>

ClearShard ==
    /\ clearing # 0 \/ cleared < Clears
    /\ cleared' = (IF clearing = 0 THEN cleared + 1 ELSE cleared)
    /\ LET s == clearing + 1
       IN  IF s = AfterLast THEN count' = 0 /\ clearing' = 0 /\ UNCHANGED <<head, size, index, stayed>>
           ELSE /\ head' = [head EXCEPT ![s] = 0] /\ size' = [size EXCEPT ![s] = 0]
                /\ index' = [index EXCEPT ![s] = [f \in Fields |-> [v \in Values(f) |-> <<>>]]]
                /\ stayed' = {step \in stayed : ShardOf[step] # s}
                /\ clearing' = s /\ count' = count
    /\ UNCHANGED <<slots, left, group, at, pageVars, query>>

Next ==
    \/ \E r \in Recorders : Begin(r) \/ RecordShard(r) \/ AddCount(r)
    \/ GetSteps \/ ReadShard \/ PageDone
    \/ (\E q \in Queries : Query(q)) \/ QueryNext \/ QueryReturns
    \/ ClearShard

Spec == Init /\ [][Next]_vars

-----------------------------------------------------------------------------

\* A query by an index finds what a scan of the shard finds and in the same order,
\* after any number of records over a full ring and of Clears.
IndexMatchesScan ==
    \A s \in Shards, q \in Queries :
        QueryShard(s, q) =
            SelectSeq(StepsAt(s, AllPositions(s)), LAMBDA step : Matches(q, step))

\* A query that is about to return has found nothing twice, and everything that
\* matches and was in its shard from the beginning to the end; its answer has what is
\* the oldest of that.
QueryFinds ==
    query # NoQuery /\ pAt = AfterLast =>
        /\ IsInjective(page)
        /\ \A step \in stayed : Matches(query, step) =>
            \/ step \in Range(Answer)
            \/ /\ Len(Answer) = query.limit
               /\ \A other \in Range(Answer) : Time[other] =< Time[step]

\* While nothing is cleared or overwritten, a page of GetSteps has as many steps as
\* the count allowed when it was read, and none twice, whatever is recorded while
\* the shards are read.
PageIsExact ==
    cleared = 0 /\ pAt = 0 => Len(page) = need /\ IsInjective(page)
=============================================================================
