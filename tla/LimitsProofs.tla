---------------------------- MODULE LimitsProofs ----------------------------
(***************************************************************************)
(* Proofs about what limits, answers once and excludes: the token buckets  *)
(* and the quotas of RateLimiter, IdempotentPort, and RedisLock.  Each has  *)
(* an inductive invariant of its own; the bucket's counts the tokens that  *)
(* callers have earned and not yet added.                                  *)
(***************************************************************************)
EXTENDS RateLimiter, FiniteSetTheorems, TLAPS

CONSTANTS
    MaxRuns,                                   \* of IdempotentPort
    Locks, MaxValue, Pauses, Nested, Errors    \* of RedisLock

VARIABLES
    store, runs, portPc, portKey, result, fresh, reply,
    owner, drawn, value, acquired, lockPc, dogs, waits, closed, stopCh, critical

Port == INSTANCE IdempotentPort WITH pc <- portPc, key <- portKey

Lock == INSTANCE RedisLock WITH pc <- lockPc

-----------------------------------------------------------------------------
(* Arithmetic.                                                             *)

\* The numbers that the lemmas and proofs below are about.
LEMMA LimiterNumbers ==
    /\ Shard \in [Keys -> Shards]
    /\ Rate \in Nat \ {0} /\ Capacity \in Nat \ {0} /\ Token \in Nat \ {0}
    /\ Second \in Nat \ {0} /\ Half \in Nat \ {0} /\ Loop \in BOOLEAN
BY LimiterAssumption

\* Multiplication by a natural number is monotone.
LEMMA Monotone ==
    ASSUME NEW a \in Nat, NEW b \in Int, NEW c \in Int, b <= c
    PROVE  a * b <= a * c
<1>1. a * (c - b) >= 0
  OBVIOUS
<1>2. a * (c - b) = a * c - a * b
  OBVIOUS
<1> QED BY <1>1, <1>2

\* A quotient, multiplied back, is at most the dividend.
LEMMA QuotientBound ==
    ASSUME NEW x \in Int, NEW n \in Nat \ {0}
    PROVE  (x \div n) \in Int /\ n * (x \div n) <= x
OBVIOUS

\* A remainder is at most the dividend.
LEMMA RemainderBound ==
    ASSUME NEW x \in Nat, NEW n \in Nat \ {0}
    PROVE  x % n \in Int /\ x % n <= x
<1>1. x % n \in Int
  OBVIOUS
<1>2. x % n <= x
  OBVIOUS
<1> QED BY <1>1, <1>2

\* An int64 product that overflows is less than the product.
LEMMA WrapBelow ==
    ASSUME NEW x \in Nat, Half \in Nat \ {0}
    PROVE  Wrap(x) \in Int /\ Wrap(x) <= x
<1>1. x + Half \in Nat /\ 2 * Half \in Nat \ {0}
  OBVIOUS
<1>2. (x + Half) % (2 * Half) \in Int /\ (x + Half) % (2 * Half) <= x + Half
  BY <1>1, RemainderBound
<1> QED BY <1>2 DEF Wrap

\* What refillTokens credits, the overflow of its product included, is at most
\* what the rate has earned.
LEMMA EarnedAtMost ==
    ASSUME NEW t \in Nat, NEW u \in Nat, u <= t, Rate \in Nat, Second \in Nat \ {0}, Half \in Nat \ {0}
    PROVE  LET earned == Wrap(Rate * (t - u)) \div Second IN
           earned \in Int /\ Second * earned <= Rate * (t - u)
<1>1. Rate * (t - u) \in Nat
  OBVIOUS
<1>2. Wrap(Rate * (t - u)) \in Int /\ Wrap(Rate * (t - u)) <= Rate * (t - u)
  BY <1>1, WrapBelow
<1>3. Second * (Wrap(Rate * (t - u)) \div Second) <= Wrap(Rate * (t - u))
  BY <1>2, QuotientBound
<1> QED BY <1>1, <1>2, <1>3, QuotientBound

\* n microtokens of one caller are a set of n elements.
LEMMA LotSize ==
    ASSUME NEW c, NEW n \in Nat
    PROVE  IsFiniteSet({c} \X (1 .. n)) /\ Cardinality({c} \X (1 .. n)) = n
<1>1. IsFiniteSet(1 .. n) /\ Cardinality(1 .. n) = n
  BY FS_Interval
<1>2. IsFiniteSet({c}) /\ Cardinality({c}) = 1
  BY FS_Singleton
<1> QED BY <1>1, <1>2, FS_Product

\* The microtokens that callers have credited to themselves by their swap of
\* lastRefill and not yet added to the tokens of shard s.
InFlight(s) ==
    {lot \in Callers \X Nat :
        pc[lot[1]] = "add" /\ ShardOf(lot[1]) = s /\ lot[2] \in 1 .. credit[lot[1]]}

\* Tokens granted, there, and in flight were there at the start or have been
\* earned.
Earned(s) ==
    Second * (Token * granted[s] + tokens[s] + Cardinality(InFlight(s)))
        <= Second * Capacity + Rate * lastRefill[s]

\* The bucket's inductive invariant.
BucketInv ==
    /\ TypeOK
    /\ \A c \in Callers :
        /\ pc[c] = "swap" => Second * credit[c] <= Rate * (now[c] - last[c])
        /\ pc[c] = "take" => seen[c] >= Token
    /\ \A s \in Shards : IsFiniteSet(InFlight(s)) /\ Earned(s)

\* A full bucket has earned nothing yet.
LEMMA BucketInit == Init => BucketInv
<1> SUFFICES ASSUME Init PROVE BucketInv
  OBVIOUS
<1>1. TypeOK
  BY LimiterNumbers DEF Init, TypeOK
<1>2. ASSUME NEW s \in Shards PROVE InFlight(s) = {}
  BY DEF Init, InFlight
<1>3. ASSUME NEW s \in Shards PROVE IsFiniteSet(InFlight(s)) /\ Earned(s)
  <2>1. IsFiniteSet(InFlight(s)) /\ Cardinality(InFlight(s)) = 0
    BY <1>2, FS_EmptySet
  <2>2. tokens[s] = Capacity /\ granted[s] = 0 /\ lastRefill[s] = 0
    BY DEF Init
  <2> QED BY <2>1, <2>2, LimiterNumbers DEF Earned
<1> QED BY <1>1, <1>3 DEF BucketInv, Init

\* Every step of a caller, and of the clock, keeps the account of the bucket.  A
\* step that neither swaps nor adds moves nothing that is in flight.
LEMMA BucketStep == BucketInv /\ [Next]_vars => BucketInv'
<1> SUFFICES ASSUME BucketInv, [Next]_vars PROVE BucketInv'
  OBVIOUS
<1> USE LimiterNumbers
<1>t. TypeOK
  BY DEF BucketInv
<1>u. ASSUME UNCHANGED <<pc, key, credit>>, NEW s PROVE InFlight(s)' = InFlight(s)
  BY <1>u DEF InFlight, ShardOf
<1>v. ASSUME NEW c \in Callers, pc[c] # "add", pc'[c] # "add", key' = [key EXCEPT ![c] = key'[c]],
             pc' = [pc EXCEPT ![c] = pc'[c]], credit' = [credit EXCEPT ![c] = credit'[c]],
             NEW s
      PROVE  InFlight(s)' = InFlight(s)
  BY <1>t, <1>v DEF InFlight, ShardOf, TypeOK
<1>1. CASE Tick
  <2>1. TypeOK'
    BY <1>1, <1>t DEF Tick, TypeOK
  <2>2. \A s \in Shards : InFlight(s)' = InFlight(s)
    BY <1>1, <1>u DEF Tick
  <2> QED BY <1>1, <2>1, <2>2 DEF Tick, BucketInv, Earned
<1>2. ASSUME NEW c \in Callers, NEW k \in Keys, Ask(c, k) PROVE BucketInv'
  <2>1. TypeOK'
    BY <1>2, <1>t DEF Ask, Goto, shared, TypeOK
  <2>2. \A s \in Shards : InFlight(s)' = InFlight(s)
    BY <1>2, <1>t, <1>v DEF Ask, Goto, TypeOK
  <2> QED BY <1>2, <1>t, <2>1, <2>2 DEF Ask, Goto, shared, BucketInv, Earned, TypeOK
<1>3. ASSUME NEW c \in Callers, ReadClock(c) PROVE BucketInv'
  <2>1. TypeOK'
    BY <1>3, <1>t DEF ReadClock, Goto, shared, TypeOK
  <2>2. \A s \in Shards : InFlight(s)' = InFlight(s)
    BY <1>3, <1>t, <1>v DEF ReadClock, Goto, TypeOK
  <2> QED BY <1>3, <1>t, <2>1, <2>2 DEF ReadClock, Goto, shared, BucketInv, Earned, TypeOK
<1>4. ASSUME NEW c \in Callers, LoadLast(c) PROVE BucketInv'
  <2> DEFINE since == lastRefill[ShardOf(c)]
             due == now[c] > since /\ NewTokens(c, since) > 0
  <2>0. ShardOf(c) \in Shards /\ since \in Nat /\ now[c] \in Nat /\ since <= clock
    BY <1>t DEF TypeOK, ShardOf
  <2>1. due => NewTokens(c, since) \in Nat /\ Second * NewTokens(c, since) <= Rate * (now[c] - since)
    <3> SUFFICES ASSUME due
                 PROVE  NewTokens(c, since) \in Nat /\ Second * NewTokens(c, since) <= Rate * (now[c] - since)
      OBVIOUS
    <3>1. NewTokens(c, since) \in Int /\ Second * NewTokens(c, since) <= Rate * (now[c] - since)
      <4> HIDE DEF since
      <4>1. since <= now[c] /\ Rate \in Nat
        BY <2>0
      <4> QED BY <2>0, <4>1, EarnedAtMost DEF NewTokens
    <3> QED BY <3>1
  <2>2. TypeOK'
    BY <1>4, <1>t, <2>0, <2>1 DEF LoadLast, Goto, shared, TypeOK
  <2>3. \A s \in Shards : InFlight(s)' = InFlight(s)
    BY <1>4, <1>t, <1>v DEF LoadLast, Goto, TypeOK
  <2>4. \A s \in Shards : (IsFiniteSet(InFlight(s)) /\ Earned(s))'
    BY <1>4, <2>3 DEF LoadLast, shared, Earned, BucketInv
  <2>5. pc'[c] \in {"swap", "peek"} /\ (pc'[c] = "swap" => due)
    BY <1>4, <1>t DEF LoadLast, Goto, TypeOK
  <2>6. due => credit'[c] = NewTokens(c, since) /\ last'[c] = since
    BY <1>4, <1>t DEF LoadLast, TypeOK
  <2>7. ASSUME NEW d \in Callers, d # c
        PROVE  pc'[d] = pc[d] /\ credit'[d] = credit[d] /\ last'[d] = last[d]
    BY <1>4, <1>t, <2>7 DEF LoadLast, Goto, TypeOK
  <2>8. now' = now /\ seen' = seen
    BY <1>4 DEF LoadLast
  <2>9. \A d \in Callers :
          /\ pc'[d] = "swap" => Second * credit'[d] <= Rate * (now'[d] - last'[d])
          /\ pc'[d] = "take" => seen'[d] >= Token
    BY <2>1, <2>5, <2>6, <2>7, <2>8 DEF BucketInv
  <2> QED BY <2>2, <2>4, <2>9 DEF BucketInv
<1>5. ASSUME NEW c \in Callers, SwapLast(c) PROVE BucketInv'
  <2> DEFINE s0 == ShardOf(c)
             mine == lastRefill[s0] = last[c]
  <2>0. s0 \in Shards
    BY <1>t DEF TypeOK, ShardOf
  <2>1. TypeOK'
    BY <1>5, <1>t, <2>0 DEF SwapLast, Goto, TypeOK
  <2>2. ASSUME NEW d \in Callers
        PROVE  /\ pc'[d] = "swap" => Second * credit'[d] <= Rate * (now'[d] - last'[d])
               /\ pc'[d] = "take" => seen'[d] >= Token
    <3>1. pc'[d] # pc[d] => pc'[d] \in {"add", "peek"}
      BY <1>5, <1>t DEF SwapLast, Goto, TypeOK
    <3>2. pc'[d] \in {"swap", "take"} => pc'[d] = pc[d] /\ credit'[d] = credit[d]
      BY <1>5, <1>t, <3>1 DEF SwapLast, Goto, TypeOK
    <3> QED BY <1>5, <3>2 DEF SwapLast, BucketInv
  <2>3. CASE mine
    <3>1. pc[c] = "swap" /\ pc' = [pc EXCEPT ![c] = "add"] /\ lastRefill' = [lastRefill EXCEPT ![s0] = now[c]]
          /\ credit' = credit /\ UNCHANGED <<tokens, granted, key>>
      BY <1>5, <2>3 DEF SwapLast, Goto
    <3>2. ASSUME NEW s \in Shards, s # s0 PROVE (IsFiniteSet(InFlight(s)) /\ Earned(s))'
      <4>1. InFlight(s)' = InFlight(s)
        BY <3>1, <3>2, <1>t DEF InFlight, ShardOf, TypeOK
      <4>2. lastRefill'[s] = lastRefill[s] /\ tokens'[s] = tokens[s] /\ granted'[s] = granted[s]
        BY <3>1, <3>2, <1>t DEF TypeOK
      <4> QED BY <4>1, <4>2 DEF Earned, BucketInv
    <3>3. (IsFiniteSet(InFlight(s0)) /\ Earned(s0))'
      <4> DEFINE lots == {c} \X (1 .. credit[c])
      <4>1. credit[c] \in Nat /\ tokens[s0] \in Nat /\ granted[s0] \in Nat /\ lastRefill[s0] \in Nat /\ now[c] \in Nat
        BY <1>t, <2>0 DEF TypeOK
      <4>2. InFlight(s0)' = InFlight(s0) \cup lots
        BY <3>1, <1>t, <4>1 DEF InFlight, ShardOf, TypeOK
      <4>3. InFlight(s0) \cap lots = {}
        BY <3>1 DEF InFlight
      <4>4. IsFiniteSet(InFlight(s0)) /\ Earned(s0)
        BY <2>0 DEF BucketInv
      <4>5. IsFiniteSet(lots) /\ Cardinality(lots) = credit[c]
        BY <4>1, LotSize
      <4>6. IsFiniteSet(InFlight(s0)') /\ Cardinality(InFlight(s0)') = Cardinality(InFlight(s0)) + credit[c]
        <5>1. IsFiniteSet(InFlight(s0) \cup lots)
              /\ Cardinality(InFlight(s0) \cup lots)
                   = Cardinality(InFlight(s0)) + Cardinality(lots) - Cardinality(InFlight(s0) \cap lots)
          BY <4>4, <4>5, FS_Union
        <5>2. Cardinality(InFlight(s0) \cap lots) = 0
          BY <4>3, FS_EmptySet
        <5>3. Cardinality(InFlight(s0)) \in Nat
          BY <4>4, FS_CardinalityType
        <5> QED BY <4>1, <4>2, <4>5, <5>1, <5>2, <5>3
      <4>7. Second * credit[c] <= Rate * (now[c] - lastRefill[s0])
        BY <2>3, <3>1 DEF BucketInv
      <4>8. Cardinality(InFlight(s0)) \in Nat
        BY <4>4, FS_CardinalityType
      <4>9. lastRefill'[s0] = now[c] /\ tokens'[s0] = tokens[s0] /\ granted'[s0] = granted[s0]
        BY <3>1, <2>0, <1>t DEF TypeOK
      <4> DEFINE p == Cardinality(InFlight(s0))
                 g == granted[s0]
                 t == tokens[s0]
                 r == lastRefill[s0]
      <4>10. Second * (Token * g + t + p) <= Second * Capacity + Rate * r
        BY <4>4 DEF Earned
      <4>11. Second * (Token * g + t + (p + credit[c])) <= Second * Capacity + Rate * now[c]
        <5> HIDE DEF p, g, t, r
        <5>1. p \in Nat /\ g \in Nat /\ t \in Nat /\ r \in Nat
          BY <4>1, <4>8 DEF p, g, t, r
        <5>2. Second * credit[c] <= Rate * (now[c] - r)
          BY <4>7 DEF r
        <5>3. Rate * (now[c] - r) = Rate * now[c] - Rate * r
          BY <4>1, <5>1
        <5>4. Second * (Token * g + t + (p + credit[c])) = Second * (Token * g + t + p) + Second * credit[c]
          BY <4>1, <5>1
        <5> QED BY <4>1, <4>10, <5>1, <5>2, <5>3, <5>4
      <4> QED
        <5>1. Earned(s0)' = (Second * (Token * granted'[s0] + tokens'[s0] + Cardinality(InFlight(s0)'))
                               <= Second * Capacity + Rate * lastRefill'[s0])
          BY <1>5 DEF Earned, SwapLast, ShardOf
        <5> QED BY <5>1, <4>6, <4>9, <4>11
    <3>4. \A s \in Shards : (IsFiniteSet(InFlight(s)) /\ Earned(s))'
      <4>1. ShardOf(c)' = ShardOf(c)
        BY <3>1 DEF ShardOf
      <4> QED BY <3>2, <3>3, <4>1
    <3> QED BY <2>1, <2>2, <3>4 DEF BucketInv
  <2>4. CASE ~ mine
    <3>1. /\ UNCHANGED <<tokens, granted, key, lastRefill>>
          /\ pc[c] = "swap" /\ pc' = [pc EXCEPT ![c] = "peek"] /\ credit' = [credit EXCEPT ![c] = 0]
      BY <1>5, <2>4 DEF SwapLast, Goto
    <3>2. \A s \in Shards : InFlight(s)' = InFlight(s)
      BY <3>1, <1>t DEF InFlight, ShardOf, TypeOK
    <3>3. \A s \in Shards : (IsFiniteSet(InFlight(s)) /\ Earned(s))'
      BY <3>1, <3>2 DEF Earned, BucketInv
    <3> QED BY <2>1, <2>2, <3>3 DEF BucketInv
  <2> QED BY <2>3, <2>4
<1>6. ASSUME NEW c \in Callers, Add(c) PROVE BucketInv'
  <2> DEFINE s0 == ShardOf(c)
             lots == {c} \X (1 .. credit[c])
  <2>0. s0 \in Shards /\ credit[c] \in Nat /\ tokens[s0] \in 0 .. Capacity
    BY <1>t DEF TypeOK, ShardOf
  <2>1. TypeOK'
    BY <1>6, <1>t, <2>0 DEF Add, Goto, TypeOK
  <2>2. \A d \in Callers :
          /\ pc'[d] = "swap" => Second * credit'[d] <= Rate * (now'[d] - last'[d])
          /\ pc'[d] = "take" => seen'[d] >= Token
    <3>1. ASSUME NEW d \in Callers, pc'[d] \in {"swap", "take"}
          PROVE  pc'[d] = pc[d] /\ credit'[d] = credit[d]
      BY <1>6, <1>t, <3>1 DEF Add, Goto, TypeOK
    <3> QED BY <1>6, <3>1 DEF Add, BucketInv
  <2>3. ASSUME NEW s \in Shards, s # s0 PROVE (IsFiniteSet(InFlight(s)) /\ Earned(s))'
    <3>1. InFlight(s)' = InFlight(s)
      BY <1>6, <1>t, <2>3 DEF Add, Goto, InFlight, ShardOf, TypeOK
    <3>2. lastRefill'[s] = lastRefill[s] /\ tokens'[s] = tokens[s] /\ granted'[s] = granted[s]
      BY <1>6, <1>t, <2>3 DEF Add, TypeOK
    <3> QED BY <3>1, <3>2 DEF Earned, BucketInv
  <2>4. (IsFiniteSet(InFlight(s0)) /\ Earned(s0))'
    <3>1. InFlight(s0)' = InFlight(s0) \ lots
      BY <1>6, <1>t, <2>0 DEF Add, Goto, InFlight, ShardOf, TypeOK
    <3>2. InFlight(s0) \cap lots = lots
      BY <1>6, <2>0 DEF Add, Goto, InFlight
    <3>3. IsFiniteSet(InFlight(s0)) /\ Earned(s0)
      BY <2>0 DEF BucketInv
    <3>4. /\ IsFiniteSet(InFlight(s0)')
          /\ Cardinality(InFlight(s0)') = Cardinality(InFlight(s0)) - credit[c]
      <4>1. IsFiniteSet(lots) /\ Cardinality(lots) = credit[c]
        BY <2>0, LotSize
      <4>2. IsFiniteSet(InFlight(s0) \ lots)
            /\ Cardinality(InFlight(s0) \ lots) = Cardinality(InFlight(s0)) - Cardinality(InFlight(s0) \cap lots)
        BY <3>3, FS_Difference
      <4> QED BY <3>1, <3>2, <4>1, <4>2
    <3>5. tokens'[s0] \in Int /\ tokens'[s0] <= tokens[s0] + credit[c]
          /\ granted'[s0] = granted[s0] /\ lastRefill'[s0] = lastRefill[s0]
      BY <1>6, <1>t, <2>0 DEF Add, TypeOK
    <3>6. Cardinality(InFlight(s0)) \in Nat /\ granted[s0] \in Nat
      BY <3>3, <2>0, <1>t, FS_CardinalityType DEF TypeOK
    <3>7. Second * (Token * granted'[s0] + tokens'[s0] + Cardinality(InFlight(s0)'))
            <= Second * (Token * granted[s0] + tokens[s0] + Cardinality(InFlight(s0)))
      <4>1. Token * granted'[s0] + tokens'[s0] + Cardinality(InFlight(s0)')
              <= Token * granted[s0] + tokens[s0] + Cardinality(InFlight(s0))
        BY <3>4, <3>5, <3>6, <2>0
      <4>2. /\ Token * granted'[s0] + tokens'[s0] + Cardinality(InFlight(s0)') \in Int
            /\ Token * granted[s0] + tokens[s0] + Cardinality(InFlight(s0)) \in Int
        BY <3>4, <3>5, <3>6, <2>0
      <4> QED BY <4>1, <4>2, Monotone
    <3>8. Earned(s0)' = (Second * (Token * granted'[s0] + tokens'[s0] + Cardinality(InFlight(s0)'))
                           <= Second * Capacity + Rate * lastRefill'[s0])
      BY <1>6 DEF Earned, Add, ShardOf
    <3>9. lastRefill[s0] \in Nat
      BY <1>t, <2>0 DEF TypeOK
    <3> QED BY <3>3, <3>4, <3>5, <3>6, <3>7, <3>8, <3>9, <2>0 DEF Earned
  <2>5. \A s \in Shards : (IsFiniteSet(InFlight(s)) /\ Earned(s))'
    <3>1. ShardOf(c)' = ShardOf(c)
      BY <1>6 DEF Add, ShardOf
    <3> QED BY <2>3, <2>4, <3>1
  <2> QED BY <2>1, <2>2, <2>5 DEF BucketInv
<1>7. ASSUME NEW c \in Callers, Peek(c) PROVE BucketInv'
  <2>1. TypeOK'
    BY <1>7, <1>t DEF Peek, Goto, shared, ShardOf, TypeOK
  <2>2. \A s \in Shards : InFlight(s)' = InFlight(s)
    BY <1>7, <1>t, <1>v DEF Peek, Goto, TypeOK
  <2>3. ASSUME NEW d \in Callers
        PROVE  /\ pc'[d] = "swap" => Second * credit'[d] <= Rate * (now'[d] - last'[d])
               /\ pc'[d] = "take" => seen'[d] >= Token
    <3>1. tokens[ShardOf(c)] \in Nat
      BY <1>t DEF TypeOK, ShardOf
    <3> QED BY <1>7, <1>t, <3>1 DEF Peek, Goto, BucketInv, TypeOK
  <2> QED BY <1>7, <2>1, <2>2, <2>3 DEF Peek, shared, BucketInv, Earned
<1>8. ASSUME NEW c \in Callers, Take(c) PROVE BucketInv'
  <2> DEFINE s0 == ShardOf(c)
  <2>0. s0 \in Shards /\ tokens[s0] \in 0 .. Capacity /\ granted[s0] \in Nat /\ lastRefill[s0] \in Nat
        /\ (tokens[s0] = seen[c] => tokens[s0] >= Token)
    BY <1>8, <1>t DEF TypeOK, ShardOf, BucketInv, Take, Goto
  <2>1. TypeOK'
    BY <1>8, <1>t, <2>0 DEF Take, Goto, TypeOK
  <2>2. \A s \in Shards : InFlight(s)' = InFlight(s)
    BY <1>8, <1>t, <1>v DEF Take, Goto, TypeOK
  <2>3. ASSUME NEW d \in Callers
        PROVE  /\ pc'[d] = "swap" => Second * credit'[d] <= Rate * (now'[d] - last'[d])
               /\ pc'[d] = "take" => seen'[d] >= Token
    BY <1>8, <1>t DEF Take, Goto, BucketInv, TypeOK
  <2>4. ASSUME NEW s \in Shards PROVE (IsFiniteSet(InFlight(s)) /\ Earned(s))'
    <3>1. IsFiniteSet(InFlight(s)) /\ Earned(s) /\ Cardinality(InFlight(s)) \in Nat
      BY FS_CardinalityType DEF BucketInv
    <3>2. lastRefill' = lastRefill
      BY <1>8 DEF Take
    <3>3. Token * granted'[s] + tokens'[s] = Token * granted[s] + tokens[s]
      <4>1. CASE s = s0 /\ tokens[s0] = seen[c]
        BY <4>1, <1>8, <1>t, <2>0 DEF Take, TypeOK
      <4>2. CASE ~ (s = s0 /\ tokens[s0] = seen[c])
        BY <4>2, <1>8, <1>t, <2>0 DEF Take, TypeOK
      <4> QED BY <4>1, <4>2
    <3> QED BY <3>1, <3>2, <3>3, <2>2 DEF Earned
  <2> QED BY <2>1, <2>3, <2>4 DEF BucketInv
<1>9. CASE UNCHANGED vars
  <2>1. TypeOK'
    BY <1>9, <1>t DEF vars, TypeOK
  <2>2. \A s \in Shards : InFlight(s)' = InFlight(s)
    BY <1>9, <1>u DEF vars
  <2> QED BY <1>9, <2>1, <2>2 DEF vars, BucketInv, Earned
<1> QED BY <1>1, <1>2, <1>3, <1>4, <1>5, <1>6, <1>7, <1>8, <1>9 DEF Next, Request

\* The atomic buckets of patterns_rate_limiter.go and
\* patterns_rate_limiter_sharded.go let through at most their burst and what the
\* rate has earned, for any number of callers whose loads, swaps and additions
\* interleave.
THEOREM BucketGrantsBounded == Spec => []GrantsBounded
<1>1. BucketInv => GrantsBounded
  <2> SUFFICES ASSUME BucketInv, NEW s \in Shards
               PROVE  Second * Token * granted[s] <= Second * Capacity + Rate * clock
    BY DEF GrantsBounded
  <2> USE LimiterNumbers
  <2>1. granted[s] \in Nat /\ tokens[s] \in Nat /\ lastRefill[s] \in 0 .. clock /\ clock \in Nat
    BY DEF BucketInv, TypeOK
  <2>2. Cardinality(InFlight(s)) \in Nat /\ Earned(s)
    BY FS_CardinalityType DEF BucketInv
  <2>3. Second * (Token * granted[s]) <= Second * (Token * granted[s] + tokens[s] + Cardinality(InFlight(s)))
    BY <2>1, <2>2, Monotone
  <2>4. Rate * lastRefill[s] <= Rate * clock
    BY <2>1, Monotone
  <2>5. Second * Token * granted[s] = Second * (Token * granted[s])
    BY <2>1
  <2>6. Second * (Token * granted[s] + tokens[s] + Cardinality(InFlight(s)))
          <= Second * Capacity + Rate * lastRefill[s]
    BY <2>2 DEF Earned
  <2>7. /\ Second * (Token * granted[s]) \in Int /\ Second * Capacity \in Int
        /\ Second * (Token * granted[s] + tokens[s] + Cardinality(InFlight(s))) \in Int
        /\ Rate * lastRefill[s] \in Int /\ Rate * clock \in Int
    BY <2>1, <2>2
  <2> QED BY <2>3, <2>4, <2>5, <2>6, <2>7
<1> QED BY <1>1, BucketInit, BucketStep, PTL DEF Spec

-----------------------------------------------------------------------------

\* What has been taken and what is there was there at the start or has been
\* earned at the greatest rate.
WaitInv ==
    /\ clock \in Nat /\ lastTime \in 0 .. clock
    /\ level \in 0 .. Full
    /\ rate \in Rates
    /\ allowed \in Nat
    /\ \A r \in Rates : (\A q \in Rates : q <= r) =>
        Second * Token * allowed + level <= Full + r * lastTime

\* AllowN credits the time that has passed once, at a rate that is at most the
\* greatest.
LEMMA AllowNKeepsBound ==
    ASSUME NEW n \in Nat, WaitInv, AllowN(n), UNCHANGED <<clock, rate>>
    PROVE  WaitInv'
<1> USE LimiterNumbers
<1>1. Full \in Nat /\ Second * Token \in Nat /\ n * Token * Second \in Nat
      /\ rate \in Nat /\ clock - lastTime \in Nat
  BY LimiterAssumption DEF WaitInv, Full
<1>2. (clock - lastTime) * rate \in Nat
  BY <1>1
<1>3. Refilled \in 0 .. Full /\ Refilled <= level + (clock - lastTime) * rate
  BY <1>1, <1>2 DEF Refilled, WaitInv
<1>4. /\ level' \in 0 .. Full /\ lastTime' = clock /\ allowed' \in Nat
      /\ Second * Token * allowed' + level' = Second * Token * allowed + Refilled
  <2>1. CASE Enough(n)
    <3>1. n * Token * Second <= Refilled
      BY <2>1, <1>1, <1>3 DEF Enough
    <3>2. Second * Token * (allowed + n) = Second * Token * allowed + n * Token * Second
      BY DEF WaitInv
    <3> QED BY <2>1, <3>1, <3>2, <1>1, <1>3 DEF AllowN, WaitInv
  <2>2. CASE ~ Enough(n)
    BY <2>2, <1>1, <1>3 DEF AllowN, WaitInv
  <2> QED BY <2>1, <2>2
<1>5. ASSUME NEW r \in Rates, \A q \in Rates : q <= r
      PROVE  Second * Token * allowed' + level' <= Full + r * lastTime'
  <2>1. rate <= r /\ r \in Nat /\ clock \in Nat /\ lastTime \in Nat /\ allowed \in Nat
    BY <1>5, LimiterAssumption DEF WaitInv
  <2>2. (clock - lastTime) * rate <= (clock - lastTime) * r
    BY <1>1, <2>1, Monotone
  <2>3. (clock - lastTime) * r = r * clock - r * lastTime
    BY <2>1
  <2>4. Second * Token * allowed + level <= Full + r * lastTime
    BY <1>5 DEF WaitInv
  <2>5. /\ Second * Token * allowed \in Int /\ Second * Token * allowed' \in Int
        /\ level \in Int /\ level' \in Int /\ Refilled \in Int
        /\ r * clock \in Int /\ r * lastTime \in Int /\ Full \in Int
    BY <1>1, <1>3, <1>4, <2>1 DEF WaitInv
  <2>6. Refilled <= level + (r * clock - r * lastTime)
    BY <1>2, <1>3, <2>1, <2>2, <2>3, <2>5
  <2>7. Second * Token * allowed' + level' <= Full + r * clock
    BY <1>4, <2>4, <2>5, <2>6
  <2> QED BY <1>4, <2>7
<1> QED BY <1>4, <1>5 DEF WaitInv

\* TokenBucketRateLimiter lets through at most its burst and what its greatest
\* rate has earned, whatever SetRate does between, and however sleepers of Wait
\* wake.
THEOREM WaitsAreBounded == WaitSpec => []WaitsBounded
<1> USE LimiterNumbers
<1>1. WaitInit /\ clock = 0 => WaitInv
  BY LimiterAssumption DEF WaitInit, WaitInv, Full
<1>2. WaitInv /\ [WaitNext]_<<clock, waitVars>> => WaitInv'
  <2> SUFFICES ASSUME WaitInv, [WaitNext]_<<clock, waitVars>> PROVE WaitInv'
    OBVIOUS
  <2>1. ASSUME NEW n \in 1 .. 2, CallAllow(n) PROVE WaitInv'
    BY <2>1, AllowNKeepsBound DEF CallAllow
  <2>2. ASSUME NEW c \in Callers, WaitAsks(c) PROVE WaitInv'
    BY <2>2, AllowNKeepsBound DEF WaitAsks
  <2>3. ASSUME NEW c \in Callers, BeginWait(c) \/ Measure(c) \/ WakeUp(c) \/ WaitCancelled(c)
        PROVE  WaitInv'
    BY <2>3 DEF WaitInv, BeginWait, Measure, WakeUp, WaitCancelled, Step
  <2>4. ASSUME NEW r \in Rates, SetRate(r) PROVE WaitInv'
    BY <2>4 DEF WaitInv, SetRate
  <2>5. CASE WaitTick
    BY <2>5 DEF WaitInv, WaitTick, waitVars
  <2>6. CASE UNCHANGED <<clock, waitVars>>
    BY <2>6 DEF WaitInv, waitVars
  <2> QED BY <2>1, <2>2, <2>3, <2>4, <2>5, <2>6 DEF WaitNext
<1>3. WaitInv => WaitsBounded
  <2> SUFFICES ASSUME WaitInv, NEW r \in Rates, \A q \in Rates : q <= r
               PROVE  Second * Token * allowed <= Full + r * clock
    BY DEF WaitsBounded
  <2>1. /\ Second * Token * allowed \in Nat /\ level \in Nat /\ Full \in Nat
        /\ Second * Token * allowed + level <= Full + r * lastTime
        /\ r \in Nat /\ lastTime \in Nat /\ clock \in Nat /\ lastTime <= clock
    BY LimiterAssumption DEF WaitInv, Full
  <2>2. r * lastTime <= r * clock
    BY <2>1, Monotone
  <2> QED BY <2>1, <2>2
<1> QED BY <1>1, <1>2, <1>3, PTL DEF WaitSpec

-----------------------------------------------------------------------------

\* Every quota is between a twentieth and a half of the global rate.
QuotaClamped == \A i \in Instances : quota[i] \in (GlobalRate \div 20) .. (GlobalRate \div 2)

\* AdjustQuota of patterns_rate_limiter_dist.go keeps every quota clamped, lost
\* updates between its load and store included.  The limiter must be built for 2
\* to 20 instances: for other numbers its first quota is outside already.
THEOREM QuotaStaysClamped ==
    ASSUME GlobalRate \in Nat, Expected \in 2 .. 20
    PROVE  QuotaSpec => []QuotaClamped
<1> DEFINE Share == (GlobalRate \div 20) .. (GlobalRate \div 2)
           Typed == quota \in [Instances -> Share] /\ loaded \in [Goroutines -> Int]
<1>1. GlobalRate \div 20 \in Nat /\ GlobalRate \div 2 \in Nat /\ GlobalRate \div 20 <= GlobalRate \div 2
  OBVIOUS
<1>2. GlobalRate \div Expected \in Share
  <2>1. ASSUME NEW e \in Nat \ {0}, NEW f \in Nat \ {0}, e <= f
        PROVE  GlobalRate \div f <= GlobalRate \div e
    <3> DEFINE q == GlobalRate \div e
               p == GlobalRate \div f
    <3>1. q \in Nat /\ p \in Nat /\ f * p <= GlobalRate /\ GlobalRate < e * (q + 1)
      <4>1. q \in Nat /\ p \in Nat
        OBVIOUS
      <4>2. f * p <= GlobalRate
        BY QuotientBound
      <4>3. GlobalRate < e * (q + 1)
        OBVIOUS
      <4> QED BY <4>1, <4>2, <4>3
    <3> HIDE DEF p, q
    <3>2. CASE p >= q + 1
      <4>1. e * (q + 1) <= e * p
        BY <3>1, <3>2, Monotone
      <4>2. p * e <= p * f
        BY <3>1, <2>1, Monotone
      <4> QED BY <4>1, <4>2, <3>1
    <3>3. CASE p <= q
      BY <3>3 DEF p, q
    <3> QED BY <3>1, <3>2, <3>3
  <2>2. GlobalRate \div Expected \in Nat
    OBVIOUS
  <2> QED BY <2>1, <2>2, <1>1
<1>3. QuotaInit => Typed
  BY <1>2 DEF QuotaInit, Idle
<1>4. Typed /\ [QuotaNext]_quotaVars => Typed'
  <2> SUFFICES ASSUME Typed, [QuotaNext]_quotaVars PROVE Typed'
    OBVIOUS
  <2>1. ASSUME NEW i \in Instances, NEW g \in Adjusters[i], LoadQuota(i, g) PROVE Typed'
    <3>1. g \in Goroutines /\ quota[i] \in Int
      BY <1>1 DEF Goroutines
    <3> QED BY <2>1, <3>1 DEF LoadQuota
  <2>2. ASSUME NEW i \in Instances, NEW g \in Adjusters[i], StoreQuota(i, g) PROVE Typed'
    <3>1. g \in Goroutines
      BY DEF Goroutines
    <3>2. ASSUME NEW q \in Int PROVE Clamped(q) \in Share
      BY <1>1 DEF Clamped
    <3>3. (loaded[g] * 12) \div 10 \in Int /\ (loaded[g] * 8) \div 10 \in Int
      BY <3>1
    <3>4. \E q \in Share : quota' = [quota EXCEPT ![i] = q]
      BY <2>2, <3>2, <3>3 DEF StoreQuota
    <3>5. loaded' = [loaded EXCEPT ![g] = GlobalRate + 1]
      BY <2>2 DEF StoreQuota, Idle
    <3> HIDE DEF Share
    <3> QED BY <3>1, <3>4, <3>5
  <2>3. CASE UNCHANGED quotaVars
    BY <2>3 DEF quotaVars
  <2> QED BY <2>1, <2>2, <2>3 DEF QuotaNext, AdjustQuota
<1>5. Typed => QuotaClamped
  BY DEF QuotaClamped
<1> QED BY <1>3, <1>4, <1>5, PTL DEF QuotaSpec

-----------------------------------------------------------------------------
(* IdempotentPort.                                                         *)

\* Callers agree on an answer, and one of them got it fresh.
PortAnswers == Port!AnswersAgree /\ Port!OneFreshAnswer

\* What a caller of IdempotentPort holds between its two checks.
PortInv ==
    /\ store \in [Keys -> Nat]
    /\ fresh \in [Keys -> Nat]
    /\ runs \in Nat
    /\ portPc \in [Callers -> {"idle", "run", "second"}]
    /\ portKey \in [Callers -> Keys]
    /\ result \in [Callers -> Nat]
    /\ reply \subseteq Callers
    /\ \A c \in reply : portPc[c] = "idle"
    /\ \A c \in Callers : portPc[c] = "second" => result[c] # Port!Absent
    /\ PortAnswers

\* IdempotentPort gives every caller of a key the same answer until it expires,
\* and one of them the fresh one, however their inner calls race.
THEOREM PortAnswersOnce == ASSUME MaxRuns \in Nat PROVE Port!Spec => []PortAnswers
<1>1. Port!Init => PortInv
  BY DEF Port!Init, PortInv, PortAnswers, Port!AnswersAgree, Port!OneFreshAnswer, Port!Absent
<1>2. PortInv /\ [Port!Next]_(Port!vars) => PortInv'
  <2> SUFFICES ASSUME PortInv, [Port!Next]_(Port!vars) PROVE PortInv'
    OBVIOUS
  <2> USE DEF PortInv, PortAnswers, Port!AnswersAgree, Port!OneFreshAnswer, Port!Absent
  <2>1. CASE Port!Clear
    BY <2>1 DEF Port!Clear
  <2>2. ASSUME NEW c \in Callers, Port!RunInner(c) PROVE PortInv'
    BY <2>2 DEF Port!RunInner
  <2>3. ASSUME NEW c \in Callers, Port!InnerFails(c) PROVE PortInv'
    BY <2>3 DEF Port!InnerFails
  <2>4. ASSUME NEW c \in Callers, Port!SecondCheck(c) PROVE PortInv'
    BY <2>4 DEF Port!SecondCheck
  <2>5. ASSUME NEW c \in Callers, NEW k \in Keys, Port!FirstCheck(c, k) PROVE PortInv'
    BY <2>5 DEF Port!FirstCheck
  <2>6. ASSUME NEW k \in Keys, Port!Expire(k) PROVE PortInv'
    BY <2>6 DEF Port!Expire
  <2>7. CASE UNCHANGED Port!vars
    BY <2>7 DEF Port!vars
  <2> QED BY <2>1, <2>2, <2>3, <2>4, <2>5, <2>6, <2>7 DEF Port!Next, Port!Validate
<1> QED BY <1>1, <1>2, PTL DEF Port!Spec, PortInv

-----------------------------------------------------------------------------
(* RedisDistributedLock.                                                   *)

\* Every value was drawn once, by one object, whose key and watchdogs have it.
LockNames ==
    /\ Lock!TypeOK
    /\ owner <= drawn
    /\ \A l, m \in Locks : value[l] = value[m] /\ value[l] # 0 => l = m
    /\ \A l \in Locks : lockPc[l] \in {"set", "won"} => value[l] # 0

\* Nothing has been drawn yet.
LEMMA LockNamesInit == ASSUME MaxValue \in Nat PROVE Lock!Init => LockNames
BY DEF Lock!Init, LockNames, Lock!TypeOK, Lock!NoValue, Lock!Values, Lock!Ticked

\* Every step keeps the values of the lock objects apart.
LEMMA LockNamesStep ==
    ASSUME MaxValue \in Nat, LockNames, [Lock!Next]_(Lock!vars)
    PROVE  LockNames'
<1> USE DEF LockNames, Lock!TypeOK, Lock!NoValue, Lock!Values, Lock!Ticked, Lock!Goto, Lock!watchdogs
<1>1. CASE Lock!Expire
  BY <1>1 DEF Lock!Expire
<1>2. ASSUME NEW l \in Locks, Lock!Draw(l) PROVE LockNames'
  BY <1>2 DEF Lock!Draw
<1>3. ASSUME NEW l \in Locks, Lock!SetNX(l) PROVE LockNames'
  BY <1>3 DEF Lock!SetNX
<1>4. ASSUME NEW l \in Locks, Lock!NotAcquired(l) PROVE LockNames'
  BY <1>4 DEF Lock!NotAcquired
<1>5. ASSUME NEW l \in Locks, Lock!Acquired(l) PROVE LockNames'
  BY <1>5 DEF Lock!Acquired
<1>6. ASSUME NEW l \in Locks, Lock!StopWatchdog(l) PROVE LockNames'
  <2>1. closed \cup ({stopCh[l]} \ {0}) \subseteq 1 .. MaxValue
    <3>1. closed \subseteq 1 .. MaxValue /\ stopCh[l] \in 0 .. MaxValue
      OBVIOUS
    <3>2. stopCh[l] # 0 => stopCh[l] \in 1 .. MaxValue
      BY <3>1
    <3> HIDE DEF LockNames, Lock!TypeOK
    <3> QED BY <3>1, <3>2
  <2> QED BY <1>6, <2>1 DEF Lock!StopWatchdog
<1>7. ASSUME NEW l \in Locks, Lock!DeleteOwn(l) \/ Lock!DeleteFails(l) PROVE LockNames'
  <2>1. owner' \in {owner, 0} /\ UNCHANGED <<drawn, value, dogs, waits, closed, stopCh, critical>>
    BY <1>7 DEF Lock!DeleteOwn, Lock!DeleteFails
  <2>2. lockPc' = [lockPc EXCEPT ![l] = "idle"] /\ acquired' \in [Locks -> BOOLEAN]
    BY <1>7 DEF Lock!DeleteOwn, Lock!DeleteFails
  <2> QED BY <2>1, <2>2
<1>8. ASSUME NEW l \in Locks, NEW d \in Lock!Values, Lock!Watchdog(l, d) PROVE LockNames'
  <2>1. UNCHANGED <<owner, drawn, value, acquired, lockPc, closed, stopCh, critical>>
    BY <1>8 DEF Lock!Watchdog, Lock!DogStops, Lock!DogExtends, Lock!DogGivesUp, Lock!DogLoops
  <2>2. dogs' \in [Locks -> SUBSET (1 .. MaxValue)] /\ waits' \in [1 .. MaxValue -> 0 .. MaxValue + 1]
    <3>1. CASE Lock!DogStops(l, d)
      BY <3>1 DEF Lock!DogStops
    <3>2. CASE Lock!DogExtends(l, d)
      BY <3>2 DEF Lock!DogExtends
    <3>3. CASE Lock!DogGivesUp(l, d)
      BY <3>3 DEF Lock!DogGivesUp
    <3>4. CASE Lock!DogLoops(l, d)
      BY <3>4 DEF Lock!DogLoops
    <3> QED BY <1>8, <3>1, <3>2, <3>3, <3>4 DEF Lock!Watchdog
  <2> QED BY <2>1, <2>2
<1>9. CASE UNCHANGED Lock!vars
  BY <1>9 DEF Lock!vars
<1> QED BY <1>1, <1>2, <1>3, <1>4, <1>5, <1>6, <1>7, <1>8, <1>9 DEF Lock!Next, Lock!Use

\* Whatever pauses and however commands fail, a Release removes the key only of the
\* holder that calls it.
THEOREM LockReleasesOnlyOwn ==
    ASSUME MaxValue \in Nat
    PROVE  Lock!Spec => Lock!ReleasesOnlyOwn
<1> DEFINE Own == \A l, m \in Locks :
                    l # m /\ lockPc[l] = "delete" /\ lockPc'[l] = "idle"
                      /\ owner = value[m] /\ owner # Lock!NoValue => owner' = owner
<1>1. LockNames /\ [Lock!Next]_(Lock!vars) => Own
  <2> SUFFICES ASSUME LockNames, [Lock!Next]_(Lock!vars), NEW l \in Locks, NEW m \in Locks,
                      l # m, lockPc[l] = "delete", lockPc'[l] = "idle",
                      owner = value[m], owner # Lock!NoValue
               PROVE  owner' = owner
    OBVIOUS
  <2> USE DEF LockNames, Lock!TypeOK, Lock!NoValue, Lock!Goto
  <2>1. value[l] # owner
    OBVIOUS
  <2>2. Lock!Next
    BY DEF Lock!vars
  <2>3. ASSUME NEW k \in Locks, Lock!Use(k) PROVE owner' = owner
    <3>1. k = l
      BY <2>3 DEF Lock!Use, Lock!Draw, Lock!SetNX, Lock!NotAcquired, Lock!Acquired,
                  Lock!StopWatchdog, Lock!DeleteOwn, Lock!DeleteFails
    <3> QED BY <2>1, <2>3, <3>1 DEF Lock!Use, Lock!Draw, Lock!SetNX, Lock!NotAcquired,
                  Lock!Acquired, Lock!StopWatchdog, Lock!DeleteOwn, Lock!DeleteFails
  <2> QED BY <2>2, <2>3 DEF Lock!Next, Lock!Expire, Lock!Watchdog, Lock!DogStops,
                  Lock!DogExtends, Lock!DogGivesUp, Lock!DogLoops
<1>2. Lock!Spec => []LockNames
  BY LockNamesInit, LockNamesStep, PTL DEF Lock!Spec
<1> QED BY <1>1, <1>2, PTL DEF Lock!Spec, Lock!ReleasesOnlyOwn

-----------------------------------------------------------------------------

\* A holder's key is there, and its watchdog waits on a channel that is open.
Guarded(l) ==
    /\ owner = value[l] /\ value[l] # 0
    /\ stopCh[l] = value[l] /\ value[l] \in dogs[l]
    /\ waits[value[l]] \in {value[l], Lock!Ticked}

LockHeld ==
    /\ LockNames
    /\ \A l \in Locks :
        /\ l \in critical => lockPc[l] = "idle" /\ Guarded(l) /\ acquired[l]
        /\ l \notin critical => stopCh[l] = 0
        /\ acquired[l] => l \in critical \/ lockPc[l] = "delete"
        /\ lockPc[l] = "won" => owner = value[l]
        /\ lockPc[l] \in {"set", "won"} \/ l \in critical => value[l] \notin closed
        /\ dogs[l] \subseteq 1 .. drawn
        /\ \A m \in Locks : value[m] \in dogs[l] => m = l
    /\ closed \subseteq 1 .. drawn

\* Nobody holds the lock yet.
LEMMA LockHeldInit == ASSUME MaxValue \in Nat PROVE Lock!Init => LockHeld
BY LockNamesInit DEF Lock!Init, LockHeld, Lock!NoValue

\* Without pauses, nested locks and failing commands, every step keeps a holder's
\* key there and its watchdog waiting.
LEMMA LockHeldStep ==
    ASSUME MaxValue \in Nat, ~ Pauses, ~ Nested, ~ Errors, LockHeld, [Lock!Next]_(Lock!vars)
    PROVE  LockHeld'
<1>n. LockNames /\ LockNames'
  BY LockNamesStep DEF LockHeld
<1> USE DEF LockHeld, LockNames, Guarded, Lock!TypeOK, Lock!NoValue, Lock!Values, Lock!Ticked,
            Lock!Goto, Lock!watchdogs
<1>1. CASE Lock!Expire
  <2>0. ~ Lock!Watched
    BY <1>1 DEF Lock!Expire
  <2>1. ASSUME NEW l \in Locks PROVE l \notin critical /\ lockPc[l] # "won"
    <3>1. CASE lockPc[l] = "won"
      BY <2>0, <3>1 DEF Lock!Watched
    <3>2. CASE l \in critical
      <4>1. value[l] \in dogs[l] /\ owner = value[l] /\ waits[value[l]] \notin closed
        BY <3>2
      <4> QED BY <2>0, <4>1 DEF Lock!Watched
    <3> QED BY <3>1, <3>2
  <2> QED BY <1>1, <1>n, <2>1 DEF Lock!Expire
<1>2. ASSUME NEW l \in Locks, Lock!Draw(l) PROVE LockHeld'
  BY <1>2, <1>n DEF Lock!Draw
<1>3. ASSUME NEW l \in Locks, Lock!SetNX(l) PROVE LockHeld'
  BY <1>3, <1>n DEF Lock!SetNX
<1>4. ASSUME NEW l \in Locks, Lock!NotAcquired(l) PROVE LockHeld'
  BY <1>4, <1>n DEF Lock!NotAcquired
<1>5. ASSUME NEW l \in Locks, Lock!Acquired(l) PROVE LockHeld'
  <2>1. /\ lockPc[l] = "won" /\ lockPc' = [lockPc EXCEPT ![l] = "idle"]
        /\ acquired' = [acquired EXCEPT ![l] = TRUE] /\ stopCh' = [stopCh EXCEPT ![l] = value[l]]
        /\ dogs' = [dogs EXCEPT ![l] = @ \cup {value[l]}]
        /\ waits' = [waits EXCEPT ![value[l]] = Lock!Ticked]
        /\ critical' = critical \cup {l} /\ UNCHANGED <<owner, drawn, value, closed>>
    BY <1>5 DEF Lock!Acquired
  <2>2. value[l] \in 1 .. drawn /\ owner = value[l] /\ value[l] \notin closed
    BY <2>1
  <2>3. ASSUME NEW m \in Locks, m # l PROVE m \notin critical
    BY <2>2, <2>3
  <2>4. dogs'[l] \subseteq 1 .. drawn /\ \A m \in Locks : value[m] \in dogs'[l] => m = l
    BY <2>1, <2>2
  <2>5. \A m \in Locks : m # l => dogs'[m] = dogs[m] /\ lockPc'[m] = lockPc[m]
                                 /\ stopCh'[m] = stopCh[m] /\ acquired'[m] = acquired[m]
    BY <2>1
  <2>6. Guarded(l)' /\ lockPc'[l] = "idle" /\ acquired'[l]
    BY <2>1, <2>2
  <2>7. closed' = closed /\ drawn' = drawn /\ value' = value /\ owner' = owner
    BY <2>1
  <2>8. ASSUME NEW m \in Locks
        PROVE  /\ m \in critical' => lockPc'[m] = "idle" /\ Guarded(m)' /\ acquired'[m]
               /\ m \notin critical' => stopCh'[m] = 0
               /\ acquired'[m] => m \in critical' \/ lockPc'[m] = "delete"
               /\ lockPc'[m] = "won" => owner' = value'[m]
               /\ lockPc'[m] \in {"set", "won"} \/ m \in critical' => value'[m] \notin closed'
               /\ dogs'[m] \subseteq 1 .. drawn'
               /\ \A k \in Locks : value'[k] \in dogs'[m] => k = m
    <3>1. CASE m = l
      BY <3>1, <2>1, <2>2, <2>4, <2>6, <2>7
    <3>2. CASE m # l
      <4>1. m \notin critical' /\ m \notin critical
        BY <3>2, <2>1, <2>3
      <4> QED BY <4>1, <3>2, <2>5, <2>7
    <3> QED BY <3>1, <3>2
  <2> HIDE DEF LockNames, Guarded
  <2> QED BY <2>7, <2>8, <1>n
<1>6. ASSUME NEW l \in Locks, Lock!StopWatchdog(l) PROVE LockHeld'
  BY <1>6, <1>n DEF Lock!StopWatchdog
<1>7. ASSUME NEW l \in Locks, Lock!DeleteOwn(l) \/ Lock!DeleteFails(l) PROVE LockHeld'
  BY <1>7, <1>n DEF Lock!DeleteOwn, Lock!DeleteFails
<1>8. ASSUME NEW l \in Locks, NEW d \in Lock!Values, Lock!Watchdog(l, d) PROVE LockHeld'
  <2>1. CASE Lock!DogStops(l, d)
    <3>1. \A m \in Locks : dogs'[m] \subseteq dogs[m]
      BY <2>1 DEF Lock!DogStops
    <3>2. \A m \in critical : value[m] \in dogs'[m]
      <4> SUFFICES ASSUME NEW m \in critical, d = value[m], m = l PROVE FALSE
        BY <2>1 DEF Lock!DogStops
      <4>1. waits[d] \in {d, MaxValue + 1} /\ d \notin closed /\ MaxValue + 1 \notin closed
        OBVIOUS
      <4> QED BY <2>1, <4>1 DEF Lock!DogStops
    <3>3. UNCHANGED <<owner, drawn, value, acquired, lockPc, waits, closed, stopCh, critical>>
      BY <2>1 DEF Lock!DogStops
    <3> QED BY <3>1, <3>2, <3>3, <1>n
  <2>2. CASE Lock!DogExtends(l, d)
    BY <2>2, <1>n DEF Lock!DogExtends
  <2>3. CASE Lock!DogGivesUp(l, d)
    <3>1. \A m \in Locks : dogs'[m] \subseteq dogs[m]
      BY <2>3 DEF Lock!DogGivesUp
    <3>2. \A m \in critical : value[m] \in dogs'[m]
      BY <2>3 DEF Lock!DogGivesUp
    <3>3. UNCHANGED <<owner, drawn, value, acquired, lockPc, waits, closed, stopCh, critical>>
      BY <2>3 DEF Lock!DogGivesUp
    <3> QED BY <3>1, <3>2, <3>3, <1>n
  <2>4. CASE Lock!DogLoops(l, d)
    <3>1. \A m \in critical : waits'[value[m]] \in {value[m], MaxValue + 1}
      <4> SUFFICES ASSUME NEW m \in critical PROVE waits'[value[m]] \in {value[m], MaxValue + 1}
        OBVIOUS
      <4>1. d = value[m] => stopCh[l] = value[m]
        BY <2>4 DEF Lock!DogLoops
      <4> QED BY <2>4, <4>1 DEF Lock!DogLoops
    <3>2. UNCHANGED <<owner, drawn, value, acquired, lockPc, dogs, closed, stopCh, critical>>
      BY <2>4 DEF Lock!DogLoops
    <3> QED BY <3>1, <3>2, <1>n
  <2> QED BY <1>8, <2>1, <2>2, <2>3, <2>4 DEF Lock!Watchdog
<1>9. CASE UNCHANGED Lock!vars
  BY <1>9, <1>n DEF Lock!vars
<1> QED BY <1>1, <1>2, <1>3, <1>4, <1>5, <1>6, <1>7, <1>8, <1>9 DEF Lock!Next, Lock!Use

\* The watchdog of RedisDistributedLock keeps the key alive: two holders exclude
\* each other as long as no process pauses for longer than the key's life, no
\* object is locked again while it is held, and no command fails.
THEOREM LockExcludes ==
    ASSUME MaxValue \in Nat, ~ Pauses, ~ Nested, ~ Errors
    PROVE  Lock!Spec => []Lock!MutualExclusion
<1>1. LockHeld => Lock!MutualExclusion
  BY DEF LockHeld, LockNames, Guarded, Lock!MutualExclusion, Lock!TypeOK
<1> QED BY <1>1, LockHeldInit, LockHeldStep, PTL DEF Lock!Spec
=============================================================================
