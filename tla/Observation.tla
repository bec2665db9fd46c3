---------------------------- MODULE Observation -----------------------------
(***************************************************************************)
(* The observation pipeline (go-core/observation_pipeline.go): feeders     *)
(* send batches of execution steps into a channel, one goroutine collects  *)
(* them in a buffer and flushes the buffer, at each tick and when it ends, *)
(* through the Sampler (observation_sampler.go) into the ring of the       *)
(* InMemoryStepStore (observation_store.go); the Aggregator is given every *)
(* step of the flush.                                                      *)
(*                                                                         *)
(* A feeder that sends after Stop panics; feeders here are done, or not    *)
(* yet started, when Stop is called, but the context may end at any time.  *)
(*                                                                         *)
(* The three aggregators of execution steps, fed the same batches:         *)
(* Aggregator (go-core/observation_aggregator.go) computes a result per    *)
(* batch, IncrementalAggregator (.._incremental.go) keeps windows that it  *)
(* updates, ShardedAggregator (.._sharded.go) keeps a window per shard and *)
(* merges them when it is asked.  The latter two estimate quantiles with a *)
(* t-digest (perf_tdigest.go), whose means are kept as a sum and a weight. *)
(*                                                                         *)
(* A window is kept for a duration, for a duration and a pattern, and for  *)
(* a duration and a unit.  No window slides: a step counts if it is recent *)
(* enough when it is recorded, and stays counted.                          *)
(***************************************************************************)
EXTENDS Integers, Sequences, SequencesExt, FiniteSets, FiniteSetsExt

CONSTANTS
    Feeders,
    Batches,     \* the batches that each feeder sends, in order
    Failed,      \* the steps that carry an error
    Blocking,    \* the feeders that call Feed; the others call FeedNonBlocking
    BufferSize,  \* capacity of the input channel
    Capacity     \* of the step store

VARIABLES
    running, loop, cancelled,    \* p.running, the goroutine, its context
    input, inputClosed, buffer,  \* the channel, the steps not yet flushed
    todo, fed,                   \* batches to send, steps that were accepted
    aggregated, dropped,         \* steps the Aggregator saw, Sampler.dropped
    ring, head, size, recorded   \* the step store, and all that it was given

vars == <<running, loop, cancelled, input, inputClosed, buffer, todo, fed,
          aggregated, dropped, ring, head, size, recorded>>

Steps == UNION {Range(b) : b \in UNION {Range(Batches[f]) : f \in Feeders}}
Summary == "Sampled"
NoStep == "none"

\* What was not flushed has been neither sampled nor aggregated.
TypeOK ==
    /\ running \in BOOLEAN /\ cancelled \in BOOLEAN /\ inputClosed \in BOOLEAN
    /\ loop \in {"off", "on", "ended"}
    /\ Len(input) =< BufferSize /\ Range(buffer) \subseteq Steps
    /\ dropped + Len(SelectSeq(recorded, LAMBDA s : s # Summary)) = Len(aggregated)
    /\ head \in 0 .. Capacity - 1 /\ size \in 0 .. Capacity
    /\ Range(ring) \subseteq Steps \cup {Summary, NoStep}

Init ==
    /\ running = FALSE /\ loop = "off" /\ cancelled = FALSE
    /\ input = <<>> /\ inputClosed = FALSE /\ buffer = <<>>
    /\ todo = Batches /\ fed = <<>>
    /\ aggregated = <<>> /\ dropped = 0
    /\ ring = [i \in 1 .. Capacity |-> NoStep] /\ head = 0 /\ size = 0
    /\ recorded = <<>>

flushVars == <<aggregated, dropped, ring, head, size, recorded>>

-----------------------------------------------------------------------------
(* Sampler, Aggregator and InMemoryStepStore *)

\* ShouldKeep of the default policy: errors always, others by chance.
Samples(steps) == {kept \in SUBSET DOMAIN steps :
                        \A i \in DOMAIN steps : steps[i] \in Failed => i \in kept}

\* Apply: the steps that are kept, and a summary when some were not.
Apply(steps, kept) ==
    SelectSeq(steps, LAMBDA s : \E i \in kept : steps[i] = s)
    \o (IF Cardinality(kept) < Len(steps) THEN <<Summary>> ELSE <<>>)

\* Mutant: the position advances before the step is written.
RecordAhead(steps) ==
    /\ head' = (head + Len(steps)) % Capacity
    /\ size' = IF size + Len(steps) > Capacity THEN Capacity ELSE size + Len(steps)
    /\ ring' = [p \in 1 .. Capacity |->
                   LET writes == {i \in DOMAIN steps : (head + i) % Capacity = p - 1}
                   IN  IF writes = {} THEN ring[p]
                       ELSE steps[CHOOSE i \in writes : \A j \in writes : j =< i]]
    /\ recorded' = recorded \o steps

\* Record: each step goes to the head, over the oldest when the ring is full.
Record(steps) ==
    /\ head' = (head + Len(steps)) % Capacity
    /\ size' = IF size + Len(steps) > Capacity THEN Capacity ELSE size + Len(steps)
    /\ ring' = [p \in 1 .. Capacity |->
                   LET writes == {i \in DOMAIN steps : (head + i - 1) % Capacity = p - 1}
                   IN  IF writes = {} THEN ring[p]
                       ELSE steps[CHOOSE i \in writes : \A j \in writes : j =< i]]
    /\ recorded' = recorded \o steps

\* allOrdered: the valid entries from the oldest on.
AllOrdered == [i \in 1 .. size |-> ring[((head + Capacity - size + i - 1) % Capacity) + 1]]

Flush ==
    IF buffer = <<>> THEN UNCHANGED flushVars
    ELSE \E kept \in Samples(buffer) :
            /\ dropped' = dropped + Len(buffer) - Cardinality(kept)
            /\ aggregated' = aggregated \o buffer
            /\ Record(Apply(buffer, kept))

-----------------------------------------------------------------------------
(* The pipeline *)

\* Start does nothing while the pipeline runs.
Start ==
    /\ ~running /\ loop = "off"
    /\ running' = TRUE /\ loop' = "on"
    /\ UNCHANGED <<cancelled, input, inputClosed, buffer, todo, fed, flushVars>>

\* A send succeeds while the buffer of the channel has room.
Send(f) ==
    /\ todo[f] # <<>> /\ ~inputClosed
    /\ Len(input) < BufferSize
    /\ input' = Append(input, Head(todo[f]))
    /\ fed' = fed \o Head(todo[f])
    /\ todo' = [todo EXCEPT ![f] = Tail(@)]
    /\ UNCHANGED <<running, loop, cancelled, inputClosed, buffer, flushVars>>

\* FeedNonBlocking drops the batch when there is none, Feed waits.
Refused(f) ==
    /\ f \notin Blocking /\ todo[f] # <<>> /\ ~inputClosed
    /\ Len(input) = BufferSize
    /\ todo' = [todo EXCEPT ![f] = Tail(@)]
    /\ UNCHANGED <<running, loop, cancelled, input, inputClosed, buffer, fed, flushVars>>

Receive ==
    /\ loop = "on" /\ input # <<>>
    /\ buffer' = buffer \o Head(input) /\ input' = Tail(input)
    /\ UNCHANGED <<running, loop, cancelled, inputClosed, todo, fed, flushVars>>

\* Mutant: the buffer is flushed and kept.
TickKeeps ==
    /\ loop = "on" /\ buffer # <<>>
    /\ Flush
    /\ UNCHANGED <<running, loop, cancelled, input, inputClosed, buffer, todo, fed>>

Tick ==
    /\ loop = "on" /\ buffer # <<>>
    /\ Flush /\ buffer' = <<>>
    /\ UNCHANGED <<running, loop, cancelled, input, inputClosed, todo, fed>>

\* The channel is closed and empty, or the context is done: a last flush.
LoopEnds ==
    /\ loop = "on" /\ (cancelled \/ (inputClosed /\ input = <<>>))
    /\ Flush /\ buffer' = <<>> /\ loop' = "ended"
    /\ UNCHANGED <<running, cancelled, input, inputClosed, todo, fed>>

Stop ==
    /\ running /\ \A f \in Feeders : todo[f] = <<>>
    /\ running' = FALSE /\ inputClosed' = TRUE
    /\ UNCHANGED <<loop, cancelled, input, buffer, todo, fed, flushVars>>

Cancel ==
    /\ loop = "on" /\ ~cancelled /\ cancelled' = TRUE
    /\ UNCHANGED <<running, loop, input, inputClosed, buffer, todo, fed, flushVars>>

Loop == Receive \/ Tick \/ LoopEnds

Next ==
    \/ Start \/ Loop \/ Stop \/ Cancel
    \/ \E f \in Feeders : Send(f) \/ Refused(f)

Spec == Init /\ [][Next]_vars /\ WF_vars(Loop) /\ WF_vars(Stop)
        /\ \A f \in Feeders : WF_vars(Send(f))

-----------------------------------------------------------------------------

\* "Buffer -> Sampler -> Aggregator -> Store": the steps that Feed accepted, in the
\* order of the channel, are those that were flushed, then the buffer's, then the
\* channel's; none twice, and none missing but those a cancelled loop leaves behind
\* in the channel.
FlushedInOrder ==
    /\ fed = aggregated \o buffer \o FlattenSeq(input)
    /\ loop = "ended" => buffer = <<>> /\ (input # <<>> => cancelled)

\* The ring holds the last steps it was given, in their order, and an error is
\* never among the steps that the sampler drops.
RingHoldsTheLast ==
    /\ AllOrdered = SubSeq(recorded, Len(recorded) - size + 1, Len(recorded))
    /\ size = (IF Len(recorded) < Capacity THEN Len(recorded) ELSE Capacity)
    /\ Range(aggregated) \cap Failed \subseteq Range(recorded)

\* A pipeline that is not cancelled takes every batch, and Stop ends it after the
\* last one is flushed.
PipelineDrains ==
    loop = "on" ~> cancelled \/ (loop = "ended" /\ Range(fed) = Range(aggregated))

-----------------------------------------------------------------------------
(* Aggregator, IncrementalAggregator and ShardedAggregator *)

CONSTANTS
    SampleSteps,  \* steps: [age, pattern, unit, failed, ms, shard]
    Durations,    \* the window durations, a sequence
    MaxWindows,
    MaxBatches, MaxBatch,  \* bounds on the batches and on their length
    Compression,  \* of the digests
    MaxCentroids  \* twice the compression in the code, less in small instances

VARIABLES
    batches,     \* what was recorded
    results,     \* Aggregator.results
    windows,     \* IncrementalAggregator.windowList
    evicted,     \* windows that cleanupOldWindows dropped
    shards       \* ShardedAggregator: shard -> key -> window

aggregateVars == <<batches, results, windows, evicted, shards>>

Blank == ""
Key(d, p, u) == [duration |-> d, pattern |-> p, unit |-> u]

\* The windows of a duration that a step belongs to.
KeysOf(step, d) ==
    {Key(d, Blank, Blank), Key(d, step.pattern, Blank), Key(d, Blank, step.unit)}
AllKeys == UNION {KeysOf(s, d) : s \in SampleSteps, d \in Range(Durations)}

-----------------------------------------------------------------------------
(* TDigest.  A centroid is [sum, weight], its mean sum / weight. *)

MeanLess(c, d) == c.sum * d.weight < d.sum * c.weight

EmptyDigest == [centroids |-> <<>>, count |-> 0, sum |-> 0, min |-> 0, max |-> 0]

\* maxWeight: 4 * n / compression.
MayGrow(c, n) == c.weight * Compression < 4 * n

Merged(c, d) == [sum |-> c.sum + d.sum, weight |-> c.weight + d.weight]

\* compress: neighbours in pairs, when there are too many.
Compressed(cs) ==
    IF Len(cs) =< MaxCentroids THEN cs
    ELSE [i \in 1 .. (Len(cs) + 1) \div 2 |->
            IF 2 * i =< Len(cs) THEN Merged(cs[2 * i - 1], cs[2 * i]) ELSE cs[2 * i - 1]]

\* sort.Search: the first centroid whose mean is not below the value.
Position(cs, c) == Len(SelectSeq(cs, LAMBDA d : MeanLess(d, c))) + 1

\* Mutant: a new centroid is put behind its neighbour.
InsertedBehind(cs, c, n) ==
    LET i == Position(cs, c)
    IN  IF i =< Len(cs) /\ MayGrow(cs[i], n) THEN [cs EXCEPT ![i] = Merged(@, c)]
        ELSE IF i > 1 /\ MayGrow(cs[i - 1], n) THEN [cs EXCEPT ![i - 1] = Merged(@, c)]
        ELSE Compressed(InsertAt(cs, Min({i + 1, Len(cs) + 1}), c))

Inserted(cs, c, n) ==
    LET i == Position(cs, c)
    IN  IF i =< Len(cs) /\ MayGrow(cs[i], n) THEN [cs EXCEPT ![i] = Merged(@, c)]
        ELSE IF i > 1 /\ MayGrow(cs[i - 1], n) THEN [cs EXCEPT ![i - 1] = Merged(@, c)]
        ELSE Compressed(InsertAt(cs, i, c))

Add(d, ms) ==
    [centroids |-> Inserted(d.centroids, [sum |-> ms, weight |-> 1], d.count + 1),
     count |-> d.count + 1,
     sum   |-> d.sum + ms,
     min   |-> IF d.count = 0 \/ ms < d.min THEN ms ELSE d.min,
     max   |-> IF d.count = 0 \/ ms > d.max THEN ms ELSE d.max]

Merge(d, e) ==
    IF e.count = 0 THEN d
    ELSE [centroids |-> Compressed(SortSeq(d.centroids \o e.centroids, MeanLess)),
          count |-> d.count + e.count,
          sum   |-> d.sum + e.sum,
          min   |-> IF d.count = 0 \/ e.min < d.min THEN e.min ELSE d.min,
          max   |-> IF d.count = 0 \/ e.max > d.max THEN e.max ELSE d.max]

\* Quantile(q / 100) as a fraction <<numerator, denominator>>: between the means of
\* the centroid that reaches the target and of the one before it.
Quantile(d, q) ==
    IF d.count = 0 THEN <<0, 1>>
    ELSE IF q =< 0 THEN <<d.min, 1>>
    ELSE IF q >= 100 THEN <<d.max, 1>>
    ELSE LET cs == d.centroids
             before(i) == SumFunctionOnSet([j \in DOMAIN cs |-> cs[j].weight], 1 .. i - 1)
             i == Min({j \in DOMAIN cs : 100 * (before(j) + cs[j].weight) >= q * d.count}
                      \cup {Len(cs)})
         IN  IF i = 1 THEN <<cs[1].sum, cs[1].weight>>
             ELSE LET c == cs[i]  b == cs[i - 1]
                      part == q * d.count - 100 * before(i)   \* of 100 * c.weight
                  IN  <<b.sum * c.weight * 100 * c.weight
                            + part * (c.sum * b.weight - b.sum * c.weight),
                        b.weight * c.weight * 100 * c.weight>>

-----------------------------------------------------------------------------
(* The aggregators *)

AggregateInit ==
    /\ batches = <<>> /\ results = <<>> /\ windows = <<>> /\ evicted = {}
    /\ shards = [s \in {x.shard : x \in SampleSteps} |-> <<>>]

Failures(steps) == Len(SelectSeq(steps, LAMBDA x : x.failed))

\* computeAggregate, with the percentiles by nearest rank.
Percentile(sorted, p) == sorted[(((Len(sorted) - 1) * p) \div 100) + 1]
ComputeAggregate(steps, key) ==
    LET sorted == SortSeq([i \in DOMAIN steps |-> steps[i].ms], <)
    IN  [key |-> key, count |-> Len(steps), errors |-> Failures(steps),
         min |-> sorted[1], max |-> sorted[Len(sorted)],
         p50 |-> Percentile(sorted, 50), p99 |-> Percentile(sorted, 99)]

\* The values of a field in the order of their first appearance (uniquePatterns,
\* uniqueUnits).
Unique(values) ==
    SelectSeq(FoldLeft(LAMBDA seen, v : IF v \in Range(seen) THEN seen ELSE Append(seen, v),
                       <<>>, values),
              LAMBDA v : v # Blank)

\* Aggregate of one duration: all steps, those of each pattern, those of each unit.
AggregateOver(steps, d) ==
    LET recent == SelectSeq(steps, LAMBDA x : x.age < d)
        patterns == Unique([i \in DOMAIN recent |-> recent[i].pattern])
        units == Unique([i \in DOMAIN recent |-> recent[i].unit])
        keys == <<Key(d, Blank, Blank)>>
                \o [i \in DOMAIN patterns |-> Key(d, patterns[i], Blank)]
                \o [i \in DOMAIN units |-> Key(d, Blank, units[i])]
    IN  IF recent = <<>> THEN <<>>
        ELSE [i \in DOMAIN keys |->
                ComputeAggregate(
                    SelectSeq(recent, LAMBDA x : keys[i] \in KeysOf(x, d)), keys[i])]

\* The newest MaxWindows entries.
Newest(seq) == SubSeq(seq, Len(seq) - Min({Len(seq), MaxWindows}) + 1, Len(seq))

\* updateWindow and updateShardDigest.
Updated(w, x) ==
    [w EXCEPT !.count = @ + 1, !.errors = @ + (IF x.failed THEN 1 ELSE 0),
              !.digest = Add(@, x.ms)]
UpdateWindow(list, key, x) ==
    IF \E i \in DOMAIN list : list[i].key = key
    THEN [i \in DOMAIN list |-> IF list[i].key = key THEN Updated(list[i], x) ELSE list[i]]
    ELSE Append(list, Updated([key |-> key, count |-> 0, errors |-> 0,
                               digest |-> EmptyDigest], x))

\* A step goes into the overall window, then into those of its pattern and unit.
UpdateWindows(list, x) ==
    FoldLeft(LAMBDA ws, d :
        IF x.age > d THEN ws
        ELSE FoldLeft(LAMBDA vs, k : UpdateWindow(vs, k, x), ws,
                <<Key(d, Blank, Blank)>>
                \o (IF x.pattern = Blank THEN <<>> ELSE <<Key(d, x.pattern, Blank)>>)
                \o (IF x.unit = Blank THEN <<>> ELSE <<Key(d, Blank, x.unit)>>)),
        list, Durations)

\* Mutant: the shard is chosen once for the whole batch.
RecordShardedTogether(steps) ==
    shards' = [s \in DOMAIN shards |->
                 IF s = steps[1].shard THEN FoldLeft(UpdateWindows, <<>>, steps) ELSE shards[s]]

RecordSharded(steps) ==
    shards' = [s \in DOMAIN shards |->
                 FoldLeft(UpdateWindows, shards[s], SelectSeq(steps, LAMBDA x : x.shard = s))]

\* One batch for each of the three: Aggregate, Record and cleanupOldWindows, Record.
RecordIncremental(steps) ==
    LET computed == results \o FlattenSeq([i \in DOMAIN Durations |->
                                             AggregateOver(steps, Durations[i])])
        updated == FoldLeft(UpdateWindows, windows, steps)
    IN  /\ batches' = Append(batches, steps)
        /\ results' = Newest(computed)
        /\ windows' = Newest(updated)
        /\ evicted' = evicted
              \cup {computed[i].key : i \in 1 .. Len(computed) - Len(Newest(computed))}
              \cup {updated[i].key : i \in 1 .. Len(updated) - Len(Newest(updated))}
        /\ RecordSharded(steps)

\* GetResults of the sharded aggregator: the shards' windows merged key by key.
MergedWindow(key) ==
    FoldLeft(LAMBDA m, w : [count |-> m.count + w.count, errors |-> m.errors + w.errors,
                            digest |-> Merge(m.digest, w.digest)],
             [count |-> 0, errors |-> 0, digest |-> EmptyDigest],
             SelectSeq(FlattenSeq(SetToSeq({shards[s] : s \in DOMAIN shards})),
                       LAMBDA w : w.key = key))

AggregateNext ==
    /\ Len(batches) < MaxBatches
    /\ \E n \in 1 .. MaxBatch : \E steps \in [1 .. n -> SampleSteps] : RecordIncremental(steps)

AggregateSpec == AggregateInit /\ [][AggregateNext]_aggregateVars

AggregateTypeOK ==
    /\ Len(results) =< MaxWindows /\ Len(windows) =< MaxWindows
    /\ \A i, j \in DOMAIN windows : windows[i].key = windows[j].key => i = j

-----------------------------------------------------------------------------

\* Every digest, of a window, of a shard and of all shards together.
Digests ==
    {windows[i].digest : i \in DOMAIN windows}
    \cup {w.digest : w \in UNION {Range(shards[s]) : s \in DOMAIN shards}}
    \cup {MergedWindow(k).digest : k \in AllKeys}

NotAbove(a, b) == a[1] * b[2] =< b[1] * a[2]
Sum(f) == SumFunctionOnSet(f, DOMAIN f)

\* perf_tdigest.go: through insertions, merges and compressions the means stay in
\* order and within the bound, no value is lost, and the quantiles are monotone and
\* between the least and the greatest value.
DigestsAreSound ==
    \A d \in Digests :
        /\ Len(d.centroids) =< MaxCentroids
        /\ \A i \in 1 .. Len(d.centroids) - 1 : ~MeanLess(d.centroids[i + 1], d.centroids[i])
        /\ Sum([i \in DOMAIN d.centroids |-> d.centroids[i].weight]) = d.count
        /\ Sum([i \in DOMAIN d.centroids |-> d.centroids[i].sum]) = d.sum
        /\ \A q \in {0, 25, 50, 75, 99} :
              NotAbove(Quantile(d, q), Quantile(d, IF q = 99 THEN 100 ELSE (q + 25)))

\* The three aggregators count the same: for a window that was not dropped, the
\* results of the batches add up to the incremental window, and the shards' windows
\* merge into it.
AggregatorsAgree ==
    \A k \in AllKeys \ evicted :
        LET batched == SelectSeq(results, LAMBDA r : r.key = k)
            whole == SelectSeq(windows, LAMBDA w : w.key = k)
            merged == MergedWindow(k)
        IN  /\ whole = <<>> <=> batched = <<>>
            /\ whole # <<>> =>
                /\ Sum([i \in DOMAIN batched |-> batched[i].count]) = whole[1].count
                /\ Sum([i \in DOMAIN batched |-> batched[i].errors]) = whole[1].errors
                /\ Min({batched[i].min : i \in DOMAIN batched}) = whole[1].digest.min
                /\ merged.count = whole[1].count /\ merged.errors = whole[1].errors
                /\ merged.digest.sum = whole[1].digest.sum
                /\ merged.digest.max = whole[1].digest.max
=============================================================================
