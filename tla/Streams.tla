------------------------------- MODULE Streams -------------------------------
(***************************************************************************)
(* The stream primitives (go-core/composer_stream.go): goroutines joined   *)
(* by buffered channels, each reading its input until that is closed or    *)
(* until the shared done channel is closed, and closing its output as it   *)
(* returns.                                                                *)
(*                                                                         *)
(* A goroutine that has read a value must hand on what it makes of it, and *)
(* waits without looking at done while the buffer is full; FromSlice and   *)
(* Merge look at both.  A select whose cases are ready takes any of them.  *)
(*                                                                         *)
(* Nodes is the program that wires the primitives up.  A node of kind      *)
(* "slice" is FromSlice, "map", "filter", "window", "windowByTime",        *)
(* "split" and "merge" are the goroutines of those names (Merge has one    *)
(* for each input), "collect" is a consumer in Collect, which reads its    *)
(* channel to the end.                                                     *)
(***************************************************************************)
EXTENDS Integers, Sequences, FiniteSets, SequencesExt

CONSTANTS
    Nodes,
    Kind,      \* Kind[n]
    In,        \* In[n]: the channel that n reads
    Out,       \* Out[n]: the channels that n writes, in order
    Items,     \* Items[n]: the slice of a "slice" node
    Channels,
    Cap,       \* the capacity of a channel's buffer: defaultBufferSize
    Size,      \* Window's size
    Fn(_), Keep(_), Route(_)   \* the functions given to StreamMap, StreamFilter, Split

VARIABLES
    buffer,    \* buffer[c]: what is in channel c
    closed,    \* closed[c]
    held,      \* held[n]: what n has made and not yet handed on, with its channels
    window,    \* window[n]: the elements that Window or WindowByTime gathers
    pc,        \* pc[n]: "loop", "send" (it holds something), "flush" (the last
               \* of it), "leave" or "returned"
    got,       \* got[n]: what a consumer has collected; what a slice has yet to send
    done       \* the done channel is closed

vars == <<buffer, closed, held, window, pc, got, done>>

Writers(c) == {n \in Nodes : c \in Range(Out[n])}

Producers == {n \in Nodes : Kind[n] = "slice"}
Consumers == {n \in Nodes : Kind[n] = "collect"}
Stages == Nodes \ (Producers \cup Consumers)
Windows == {n \in Nodes : Kind[n] \in {"window", "windowByTime"}}

\* Split sends an index out of range to the nearest channel.
Clamped(n, k) == Max({1, Min({k, Len(Out[n])})})

Parcel(c, value) == [channel |-> c, value |-> value]

TypeOK ==
    /\ \A c \in Channels : Len(buffer[c]) <= Cap
    /\ closed \in [Channels -> BOOLEAN]
    /\ pc \in [Nodes -> {"loop", "send", "flush", "leave", "returned"}]
    /\ \A n \in Nodes : held[n] = <<>> <=> pc[n] \notin {"send", "flush"}
    /\ \A n \in Nodes : Kind[n] = "window" => Len(window[n]) < Size
    /\ done \in BOOLEAN

Init ==
    /\ buffer = [c \in Channels |-> <<>>]
    /\ closed = [c \in Channels |-> FALSE]
    /\ held = [n \in Nodes |-> <<>>]
    /\ window = [n \in Nodes |-> <<>>]
    /\ pc = [n \in Nodes |-> "loop"]
    /\ got = [n \in Nodes |-> IF Kind[n] = "slice" THEN Items[n] ELSE <<>>]
    /\ done = FALSE

Goto(n, step) == pc' = [pc EXCEPT ![n] = step]

CloseDone ==
    /\ ~done
    /\ done' = TRUE
    /\ UNCHANGED <<buffer, closed, held, window, pc, got>>

\* What the reader of value v hands on, and the window it keeps.
Handed(n, v) ==
    CASE Kind[n] = "map" -> <<Parcel(Out[n][1], Fn(v))>>
      [] Kind[n] = "merge" -> <<Parcel(Out[n][1], v)>>
      [] Kind[n] = "filter" -> IF Keep(v) THEN <<Parcel(Out[n][1], v)>> ELSE <<>>
      [] Kind[n] = "split" -> <<Parcel(Out[n][Clamped(n, Route(v))], v)>>
      [] Kind[n] = "window" ->
            IF Len(window[n]) + 1 = Size
            THEN <<Parcel(Out[n][1], Append(window[n], v))>> ELSE <<>>
      [] Kind[n] = "windowByTime" -> <<>>

\* Mutant: a full window is handed on and not replaced.
WindowKept(n, v) == IF n \in Windows THEN Append(window[n], v) ELSE <<>>

WindowAfter(n, v) ==
    IF n \in Windows /\ Handed(n, v) = <<>> THEN Append(window[n], v) ELSE <<>>

\* A stage takes the next element of its input.
Take(n) ==
    /\ n \in Stages
    /\ pc[n] = "loop"
    /\ buffer[In[n]] # <<>>
    /\ LET v == Head(buffer[In[n]]) IN
        /\ held' = [held EXCEPT ![n] = Handed(n, v)]
        /\ window' = [window EXCEPT ![n] = WindowAfter(n, v)]
        /\ Goto(n, IF Handed(n, v) = <<>> THEN "loop" ELSE "send")
    /\ buffer' = [buffer EXCEPT ![In[n]] = Tail(@)]
    /\ UNCHANGED <<closed, got, done>>

\* flush, on the tick of WindowByTime: an empty window is not sent.
Flushed(n) == IF window[n] = <<>> THEN <<>> ELSE <<Parcel(Out[n][1], window[n])>>

Tick(n) ==
    /\ Kind[n] = "windowByTime"
    /\ pc[n] = "loop"
    /\ window[n] # <<>>
    /\ held' = [held EXCEPT ![n] = Flushed(n)]
    /\ window' = [window EXCEPT ![n] = <<>>]
    /\ Goto(n, "send")
    /\ UNCHANGED <<buffer, closed, got, done>>

Send(n) ==
    /\ pc[n] \in {"send", "flush"}
    /\ LET c == Head(held[n]).channel IN
        /\ Len(buffer[c]) < Cap
        /\ buffer' = [buffer EXCEPT ![c] = Append(@, Head(held[n]).value)]
    /\ held' = [held EXCEPT ![n] = <<>>]
    /\ Goto(n, IF pc[n] = "flush" THEN "leave" ELSE "loop")
    /\ UNCHANGED <<closed, window, got, done>>

\* Merge's select while it has a value in hand: done ends it, the value is lost.
DropMerge(n) ==
    /\ Kind[n] = "merge"
    /\ pc[n] = "send"
    /\ done
    /\ held' = [held EXCEPT ![n] = <<>>]
    /\ Goto(n, "leave")
    /\ UNCHANGED <<buffer, closed, window, got, done>>

\* Mutant: the last window is dropped at the end of the input.
InputEndsUnflushed(n) ==
    /\ n \in Stages
    /\ pc[n] = "loop"
    /\ buffer[In[n]] = <<>>
    /\ closed[In[n]]
    /\ window' = [window EXCEPT ![n] = <<>>]
    /\ Goto(n, "leave")
    /\ UNCHANGED <<buffer, closed, held, got, done>>

\* The input is closed and drained: a window that is not empty is sent first.
InputEnds(n) ==
    /\ n \in Stages
    /\ pc[n] = "loop"
    /\ buffer[In[n]] = <<>>
    /\ closed[In[n]]
    /\ IF n \in Windows /\ window[n] # <<>>
       THEN /\ held' = [held EXCEPT ![n] = Flushed(n)]
            /\ window' = [window EXCEPT ![n] = <<>>]
            /\ Goto(n, "flush")
       ELSE /\ Goto(n, "leave")
            /\ UNCHANGED <<held, window>>
    /\ UNCHANGED <<buffer, closed, got, done>>

\* The select of a stage sees done: WindowByTime flushes, Window does not.  Merge
\* reads its input in a range loop and does not look at done there.
SeeDone(n) ==
    /\ n \in Stages
    /\ Kind[n] # "merge"
    /\ pc[n] = "loop"
    /\ done
    /\ IF Kind[n] = "windowByTime" /\ window[n] # <<>>
       THEN /\ held' = [held EXCEPT ![n] = Flushed(n)]
            /\ window' = [window EXCEPT ![n] = <<>>]
            /\ Goto(n, "flush")
       ELSE /\ Goto(n, "leave")
            /\ UNCHANGED <<held, window>>
    /\ UNCHANGED <<buffer, closed, got, done>>

\* FromSlice sends its next item, or sees done at any item.
SendItem(n) ==
    /\ n \in Producers
    /\ pc[n] = "loop"
    /\ got[n] # <<>>
    /\ LET c == Out[n][1] IN
        /\ Len(buffer[c]) < Cap
        /\ buffer' = [buffer EXCEPT ![c] = Append(@, Head(got[n]))]
    /\ got' = [got EXCEPT ![n] = Tail(@)]
    /\ UNCHANGED <<closed, held, window, pc, done>>

SliceEnds(n) ==
    /\ n \in Producers
    /\ pc[n] = "loop"
    /\ got[n] = <<>> \/ done
    /\ Goto(n, "leave")
    /\ UNCHANGED <<buffer, closed, held, window, got, done>>

\* Mutant: nobody closes a channel that several goroutines write.
ReturnUnwaited(n) ==
    /\ pc[n] = "leave"
    /\ Goto(n, "returned")
    /\ closed' = [c \in Channels |-> closed[c] \/ Writers(c) = {n}]
    /\ UNCHANGED <<buffer, held, window, got, done>>

\* A goroutine returns; the last one that writes a channel closes it (the
\* deferred close, and the goroutine of Merge that waits for all the others).
Return(n) ==
    /\ pc[n] = "leave"
    /\ Goto(n, "returned")
    /\ closed' = [c \in Channels |->
            \/ closed[c]
            \/ n \in Writers(c) /\ \A m \in Writers(c) \ {n} : pc[m] = "returned"]
    /\ UNCHANGED <<buffer, held, window, got, done>>

\* Collect.
Collect(n) ==
    /\ n \in Consumers
    /\ pc[n] = "loop"
    /\ LET c == In[n] IN
        \/ /\ buffer[c] # <<>>
           /\ got' = [got EXCEPT ![n] = Append(@, Head(buffer[c]))]
           /\ buffer' = [buffer EXCEPT ![c] = Tail(@)]
           /\ UNCHANGED pc
        \/ /\ buffer[c] = <<>>
           /\ closed[c]
           /\ Goto(n, "returned")
           /\ UNCHANGED <<got, buffer>>
    /\ UNCHANGED <<closed, held, window, done>>

Step(n) ==
    \/ Take(n) \/ Tick(n) \/ Send(n) \/ DropMerge(n) \/ InputEnds(n) \/ SeeDone(n)
    \/ SendItem(n) \/ SliceEnds(n) \/ Return(n) \/ Collect(n)

Next == CloseDone \/ \E n \in Nodes : Step(n)

\* The Go scheduler runs a goroutine that can go on; nobody need close done.
Spec == Init /\ [][Next]_vars /\ \A n \in Nodes : WF_vars(Step(n))

-----------------------------------------------------------------------------

\* A channel is closed exactly when all who write it have returned: nobody sends on a
\* closed channel or closes it again, which would panic, and nobody who ranges over it
\* waits for a close that does not come (the deferred closes, and Merge's goroutine).
ClosedByTheLast ==
    \A c \in Channels :
        closed[c] <=> Writers(c) # {} /\ \A n \in Writers(c) : pc[n] = "returned"

\* A channel that is closed only loses what is in it, to its reader.
ClosedTakesNothing ==
    \A c \in Channels : closed[c] /\ buffer'[c] # buffer[c] => buffer'[c] = Tail(buffer[c])
=============================================================================
