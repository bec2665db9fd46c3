----------------------------- MODULE DurableLog -----------------------------
(***************************************************************************)
(* What a persistent event store promises its callers: a log per aggregate *)
(* that grows by appending, of which a crash may lose the end, but nothing *)
(* that has been acknowledged.                                             *)
(***************************************************************************)
EXTENDS Naturals, Sequences

CONSTANTS Aggregates, EventIDs

VARIABLES
    log,    \* log[a]: the ids of the events of a, in version order
    acked   \* acked[a]: the versions of a whose append was acknowledged

vars == <<log, acked>>

Init ==
    /\ log = [a \in Aggregates |-> <<>>]
    /\ acked = [a \in Aggregates |-> {}]

AppendEvent(a, id) ==
    /\ log' = [log EXCEPT ![a] = Append(@, id)]
    /\ UNCHANGED acked

Acknowledge(a, version) ==
    /\ version \in DOMAIN log[a]
    /\ acked' = [acked EXCEPT ![a] = @ \cup {version}]
    /\ UNCHANGED log

\* A crash keeps a prefix that holds every acknowledged version.
Recover ==
    /\ \A a \in Aggregates :
        acked[a] \subseteq 1 .. Len(log'[a]) /\ Len(log'[a]) <= Len(log[a])
    /\ log' = [a \in Aggregates |-> SubSeq(log[a], 1, Len(log'[a]))]
    /\ UNCHANGED acked

Next ==
    \/ \E a \in Aggregates, id \in EventIDs : AppendEvent(a, id)
    \/ \E a \in Aggregates : \E version \in DOMAIN log[a] : Acknowledge(a, version)
    \/ Recover

Spec == Init /\ [][Next]_vars
=============================================================================
