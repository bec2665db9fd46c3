----------------------------- MODULE RedisLock -----------------------------
(***************************************************************************)
(* RedisDistributedLock (go-core/patterns_distributed_redis.go): lock      *)
(* objects of several processes on one Redis key.  Acquire and TryAcquire  *)
(* write a new random value into the object, SET NX PX the key with it     *)
(* and, when that succeeds, start a watchdog goroutine. The watchdog waits *)
(* on l.stopCh, which it reads when it is first scheduled and again after  *)
(* every tick, and at a tick extends the key. Release closes stopCh, sets  *)
(* it to nil and deletes the key if it still has the object's value. A     *)
(* channel and its watchdog are named by the value they were made for.     *)
(*                                                                         *)
(* Redis is external: one key, whose commands and scripts are atomic, and  *)
(* whose TTL passes (Expire).  A watchdog extends three times per TTL, so  *)
(* the key of a watched lock expires only when the process or the network  *)
(* pauses (Pauses).                                                        *)
(***************************************************************************)
EXTENDS Naturals, FiniteSets

CONSTANTS
    Locks,       \* lock objects, each used by one goroutine
    MaxValue,    \* bound on the random values drawn
    Pauses,      \* TRUE: a watchdog may be late and its lock expire
    Nested,      \* TRUE: a holder may acquire again
    Errors       \* TRUE: a Redis command may fail, or its answer be lost

VARIABLES
    owner,      \* the value of the Redis key, NoValue when it does not exist
    drawn,      \* values drawn so far: the next one is drawn + 1
    value,      \* value[l]: l.value
    acquired,   \* acquired[l]: l.acquired
    pc,         \* pc[l]: the next step of l's goroutine
    dogs,       \* dogs[l]: running watchdogs of l
    waits,      \* waits[d]: the channel d's select waits on, Ticked before it and between two
    closed,     \* channels that are closed
    stopCh,     \* stopCh[l]: l.stopCh, NoValue for nil
    critical    \* goroutines between a successful Acquire and their Release

vars == <<owner, drawn, value, acquired, pc, dogs, waits, closed, stopCh, critical>>
watchdogs == <<dogs, waits, closed, stopCh>>

NoValue == 0
Ticked == MaxValue + 1
Values == 1..MaxValue

TypeOK ==
    /\ owner \in 0..MaxValue
    /\ drawn \in 0..MaxValue
    /\ value \in [Locks -> 0..drawn]
    /\ acquired \in [Locks -> BOOLEAN]
    /\ pc \in [Locks -> {"idle", "set", "won", "delete"}]
    /\ dogs \in [Locks -> SUBSET Values]
    /\ waits \in [Values -> 0..Ticked]
    /\ closed \subseteq Values
    /\ stopCh \in [Locks -> 0..MaxValue]
    /\ critical \subseteq Locks

Init ==
    /\ owner = NoValue
    /\ drawn = 0
    /\ value = [l \in Locks |-> NoValue]
    /\ acquired = [l \in Locks |-> FALSE]
    /\ pc = [l \in Locks |-> "idle"]
    /\ dogs = [l \in Locks |-> {}]
    /\ waits = [d \in Values |-> NoValue]
    /\ closed = {}
    /\ stopCh = [l \in Locks |-> NoValue]
    /\ critical = {}

Goto(l, from, to) == pc[l] = from /\ pc' = [pc EXCEPT ![l] = to]

-----------------------------------------------------------------------------
(* Acquire, TryAcquire.                                                    *)

\* generateLockValue overwrites l.value before the key is asked for.
Draw(l) ==
    /\ Goto(l, "idle", "set")
    /\ l \notin critical \/ Nested
    /\ drawn < MaxValue
    /\ drawn' = drawn + 1
    /\ value' = [value EXCEPT ![l] = drawn + 1]
    /\ UNCHANGED <<owner, acquired, watchdogs, critical>>

\* Mutant: SET without NX.
SetAlways(l) ==
    /\ Goto(l, "set", "won")
    /\ owner' = value[l]
    /\ UNCHANGED <<drawn, value, acquired, watchdogs, critical>>

SetNX(l) ==
    /\ owner = NoValue
    /\ Goto(l, "set", "won")
    /\ owner' = value[l]
    /\ UNCHANGED <<drawn, value, acquired, watchdogs, critical>>

\* TryAcquire returns false; Acquire backs off and tries again until its context
\* is cancelled, AcquireWithRetry draws a new value.  The answer of a SET that
\* was carried out may be lost.
NotAcquired(l) ==
    /\ Goto(l, "set", "idle")
    /\ \/ (owner # NoValue \/ Errors) /\ UNCHANGED owner
       \/ owner = NoValue /\ Errors /\ owner' = value[l]
    /\ UNCHANGED <<drawn, value, acquired, watchdogs, critical>>

\* acquired and startWatchdog, under the object's mutex.  The goroutine reads the new
\* channel only at its first select, when it is nil or a later one perhaps; an earlier
\* channel is left behind, open.
Acquired(l) ==
    /\ Goto(l, "won", "idle")
    /\ acquired' = [acquired EXCEPT ![l] = TRUE]
    /\ stopCh' = [stopCh EXCEPT ![l] = value[l]]
    /\ dogs' = [dogs EXCEPT ![l] = @ \cup {value[l]}]
    /\ waits' = [waits EXCEPT ![value[l]] = Ticked]
    /\ critical' = critical \cup {l}
    /\ UNCHANGED <<owner, drawn, value, closed>>

-----------------------------------------------------------------------------
(* Release, under the object's mutex.                                      *)

\* The caller leaves its critical section; an object that is not acquired does
\* nothing, and after a Release that failed the channel is nil already.
StopWatchdog(l) ==
    /\ acquired[l]
    /\ Goto(l, "idle", "delete")
    /\ closed' = closed \cup ({stopCh[l]} \ {NoValue})
    /\ stopCh' = [stopCh EXCEPT ![l] = NoValue]
    /\ critical' = critical \ {l}
    /\ UNCHANGED <<owner, drawn, value, acquired, dogs, waits>>

\* Mutant: DEL without comparing the value.
DeleteAny(l) ==
    /\ Goto(l, "delete", "idle")
    /\ owner' = NoValue
    /\ acquired' = [acquired EXCEPT ![l] = FALSE]
    /\ UNCHANGED <<drawn, value, watchdogs, critical>>

\* The Lua script compares and deletes in one step.
DeleteOwn(l) ==
    /\ Goto(l, "delete", "idle")
    /\ owner' = IF owner = value[l] THEN NoValue ELSE owner
    /\ acquired' = [acquired EXCEPT ![l] = FALSE]
    /\ UNCHANGED <<drawn, value, watchdogs, critical>>

\* The script, or its answer, is lost: Release returns an error, still acquired.
DeleteFails(l) ==
    /\ Errors
    /\ Goto(l, "delete", "idle")
    /\ owner' \in {owner, IF owner = value[l] THEN NoValue ELSE owner}
    /\ UNCHANGED <<drawn, value, acquired, watchdogs, critical>>

-----------------------------------------------------------------------------
(* The watchdog and the key's TTL.                                         *)

DogStops(l, d) ==
    /\ d \in dogs[l] /\ waits[d] \in closed
    /\ dogs' = [dogs EXCEPT ![l] = @ \ {d}]
    /\ UNCHANGED <<owner, drawn, value, acquired, pc, waits, closed, stopCh, critical>>

\* A tick, which select may prefer to a closed channel: Extend compares the key
\* with the object's present value and starts its TTL again.
DogExtends(l, d) ==
    /\ d \in dogs[l] /\ waits[d] # Ticked
    /\ owner # NoValue /\ owner = value[l]
    /\ waits' = [waits EXCEPT ![d] = Ticked]
    /\ UNCHANGED <<owner, drawn, value, acquired, pc, dogs, closed, stopCh, critical>>

\* Mutant: Extend takes a key that is gone for its own.
DogPersists(l, d) ==
    /\ d \in dogs[l] /\ waits[d] # Ticked
    /\ owner # value[l] \/ Errors
    /\ waits' = [waits EXCEPT ![d] = Ticked]
    /\ UNCHANGED <<owner, drawn, value, acquired, pc, dogs, closed, stopCh, critical>>

\* The key is gone or not the object's, or Redis does not answer.
DogGivesUp(l, d) ==
    /\ d \in dogs[l] /\ waits[d] # Ticked
    /\ owner # value[l] \/ Errors
    /\ dogs' = [dogs EXCEPT ![l] = @ \ {d}]
    /\ UNCHANGED <<owner, drawn, value, acquired, pc, waits, closed, stopCh, critical>>

\* The first or the next select reads l.stopCh, by now perhaps nil or a later channel.
DogLoops(l, d) ==
    /\ d \in dogs[l] /\ waits[d] = Ticked
    /\ waits' = [waits EXCEPT ![d] = stopCh[l]]
    /\ UNCHANGED <<owner, drawn, value, acquired, pc, dogs, closed, stopCh, critical>>

Watched ==
    \E l \in Locks : owner = value[l] /\ (pc[l] = "won" \/ \E d \in dogs[l] : waits[d] \notin closed)

Expire ==
    /\ owner # NoValue
    /\ Watched => Pauses
    /\ owner' = NoValue
    /\ UNCHANGED <<drawn, value, acquired, pc, watchdogs, critical>>

-----------------------------------------------------------------------------

Use(l) ==
    \/ Draw(l) \/ SetNX(l) \/ NotAcquired(l) \/ Acquired(l)
    \/ StopWatchdog(l) \/ DeleteOwn(l) \/ DeleteFails(l)

Watchdog(l, d) == DogStops(l, d) \/ DogExtends(l, d) \/ DogGivesUp(l, d) \/ DogLoops(l, d)

Next == Expire \/ \E l \in Locks : Use(l) \/ \E d \in Values : Watchdog(l, d)

Spec == Init /\ [][Next]_vars

\* Watchdogs tick and are scheduled.
FairSpec == Spec /\ \A l \in Locks, d \in Values : WF_vars(Watchdog(l, d))

-----------------------------------------------------------------------------

\* With watchdogs that are on time, Redis that answers, and holders that do not
\* acquire again, one goroutine at a time is between Acquire and Release.
MutualExclusion == \A l, m \in critical : l = m

\* "Safe release": a Release never deletes the key that another object has set,
\* even when its own lock has expired meanwhile.
ReleasesOnlyOwn ==
    [][\A l, m \in Locks :
          l # m /\ pc[l] = "delete" /\ pc'[l] = "idle" /\ owner = value[m] /\ owner # NoValue
              => owner' = owner]_vars

\* "Renews automatically while the lock is held": the watchdogs of an object that
\* stays released all end, those too that were inside Extend when Release closed
\* their channel and that wait on a nil channel since.
WatchdogsEnd == \A l \in Locks : <>[](~acquired[l] /\ pc[l] = "idle") => <>[](dogs[l] = {})
=============================================================================
