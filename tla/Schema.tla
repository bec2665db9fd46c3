------------------------------- MODULE Schema -------------------------------
(***************************************************************************)
(* Schemas and their versions (go-core/schema_*.go): a registry that is    *)
(* listed while others register, the check of two schemas for              *)
(* compatibility, and the chain of migrations, whose search for a shortest *)
(* path walks maps in any order.                                           *)
(*                                                                         *)
(* A registry's key is the name of the type, a colon and the version.  A   *)
(* name is modelled by the sequence of its parts between colons, since the *)
(* listings cut keys at colons again.  A schema is a struct: a function    *)
(* from the exported fields to their types.                                *)
(***************************************************************************)
EXTENDS Integers, Sequences, SequencesExt, FiniteSets, Functions

CONSTANTS
    Types,             \* names of types, sequences of parts
    VersionNames,      \* versions that schemas are registered under, of one part each
    Schemas,           \* functions from fields to types
    MaxRegistrations,  \* bound on the registrations
    Versions,          \* the versions that migrations go between
    Migrations,        \* <<from, to>>: the migrations that may be registered
    Source, Target     \* the versions that Migrate is called with

VARIABLES
    registry,    \* entries: key -> schema
    registered,  \* how many registrations there were
    listing,     \* the type that ListVersions is called for, or <<>>
    before,      \* the keys when it was called
    ranged,      \* the keys that its Range has visited
    chain,       \* migrations: the <<from, to>> that are registered
    search,      \* the progress of Migrate
    queue,       \* the paths to expand
    entry,       \* the path that is expanded
    neighbors,   \* the successors of its end that the loop has not come to
    visited,
    route,       \* the path that was found
    applied      \* the migrations that the data has been through, or Failed

registryVars == <<registry, registered, listing, before, ranged>>
chainVars == <<chain, search, queue, entry, neighbors, visited, route, applied>>

SchemaTypeOK ==
    /\ registry \in [DOMAIN registry -> Schemas]
    /\ registered \in 0 .. MaxRegistrations
    /\ listing \in Types \cup {<<>>}
    /\ ranged \subseteq DOMAIN registry /\ before \subseteq DOMAIN registry
    /\ chain \subseteq Migrations
    /\ search \in {"idle", "search", "apply", "done", "failed", "noPath"}
    /\ visited \subseteq Versions /\ neighbors \subseteq Versions
    /\ \A i \in DOMAIN queue : IsInjective(queue[i])

SchemaInit ==
    /\ registry = <<>>
    /\ registered = 0
    /\ listing = <<>>
    /\ before = {}
    /\ ranged = {}

-----------------------------------------------------------------------------
(* SchemaRegistryT *)

BuildSchemaKey(type, version) == Append(type, version)

\* A schema that is registered again is replaced.
Register(type, version, schema) ==
    LET key == BuildSchemaKey(type, version)
    IN  /\ registered < MaxRegistrations
        /\ registered' = registered + 1
        /\ registry' = [k \in DOMAIN registry \cup {key} |->
                           IF k = key THEN schema ELSE registry[k]]
        /\ UNCHANGED <<listing, before, ranged>>

\* Get of a version that may hold colons itself.
Found(type, version) == type \o version \in DOMAIN registry

BeginList(type) ==
    /\ listing = <<>>
    /\ listing' = type
    /\ before' = DOMAIN registry
    /\ ranged' = {}
    /\ UNCHANGED <<registry, registered>>

\* Range comes to every key that was there when it began, and perhaps to later ones.
RangeNext ==
    /\ listing # <<>>
    /\ \E key \in DOMAIN registry \ ranged : ranged' = ranged \cup {key}
    /\ UNCHANGED <<registry, registered, listing, before>>

Ranged == listing # <<>> /\ before \subseteq ranged

\* What follows the name and a colon in the keys that begin with them.
ListVersions(keys, type) ==
    {SubSeq(key, Len(type) + 1, Len(key)) :
        key \in {k \in keys : Len(k) > Len(type) /\ IsPrefix(type, k)}}

\* What precedes the last colon.
ListTypes(keys) == {Front(key) : key \in {k \in keys : Len(k) > 1}}

ListEnds ==
    /\ Ranged
    /\ listing' = <<>>
    /\ before' = {}
    /\ ranged' = {}
    /\ UNCHANGED <<registry, registered>>

RegistryNext ==
    \/ \E t \in Types, v \in VersionNames, s \in Schemas : Register(t, v, s)
    \/ \E t \in Types : BeginList(t)
    \/ RangeNext
    \/ ListEnds

-----------------------------------------------------------------------------
(* CompatibilityChecker *)

\* A mutant: the new fields are gone through, and not the old ones.
ChangesOfNew(old, new) ==
    [field : DOMAIN new \ DOMAIN old, kind : {"added"}, breaking : {FALSE}]
    \cup [field : {f \in DOMAIN old \cap DOMAIN new : old[f] # new[f]},
          kind : {"type_changed"}, breaking : {TRUE}]

Changes(old, new) ==
    [field : DOMAIN old \ DOMAIN new, kind : {"removed"}, breaking : {TRUE}]
    \cup [field : DOMAIN new \ DOMAIN old, kind : {"added"}, breaking : {FALSE}]
    \cup [field : {f \in DOMAIN old \cap DOMAIN new : old[f] # new[f]},
          kind : {"type_changed"}, breaking : {TRUE}]

Compatible(old, new) == \A change \in Changes(old, new) : ~change.breaking

-----------------------------------------------------------------------------
(* MigrationChain *)

ChainInit ==
    /\ chain = {}
    /\ search = "idle"
    /\ queue = <<>>
    /\ entry = <<>>
    /\ neighbors = {}
    /\ visited = {}
    /\ route = <<>>
    /\ applied = <<>>

RegisterMigration(from, to) ==
    /\ search = "idle"
    /\ chain' = chain \cup {<<from, to>>}
    /\ UNCHANGED <<search, queue, entry, neighbors, visited, route, applied>>

Migrate ==
    /\ search = "idle"
    /\ Source # Target
    /\ search' = "search"
    /\ queue' = <<<<Source>>>>
    /\ visited' = {Source}
    /\ UNCHANGED <<chain, entry, neighbors, route, applied>>

Successors(version) == {to \in Versions : <<version, to>> \in chain}

\* A mutant: the path that was queued last is expanded first.
DequeueLast ==
    /\ search = "search"
    /\ neighbors = {}
    /\ queue # <<>>
    /\ entry' = Last(queue)
    /\ queue' = Front(queue)
    /\ neighbors' = Successors(Last(Last(queue)))
    /\ UNCHANGED <<chain, search, visited, route, applied>>

Dequeue ==
    /\ search = "search"
    /\ neighbors = {}
    /\ queue # <<>>
    /\ entry' = Head(queue)
    /\ queue' = Tail(queue)
    /\ neighbors' = Successors(Last(Head(queue)))
    /\ UNCHANGED <<chain, search, visited, route, applied>>

\* The loop over the map of the successors, which come in any order.
Look(next) ==
    LET path == Append(entry, next)
    IN  /\ search = "search"
        /\ next \in neighbors
        /\ neighbors' = neighbors \ {next}
        /\ \/ /\ next \in visited
              /\ UNCHANGED <<search, queue, visited, route>>
           \/ /\ next \notin visited
              /\ next = Target
              /\ route' = path
              /\ search' = "apply"
              /\ UNCHANGED <<queue, visited>>
           \/ /\ next \notin visited
              /\ next # Target
              /\ visited' = visited \cup {next}
              /\ queue' = Append(queue, path)
              /\ UNCHANGED <<search, route>>
        /\ UNCHANGED <<chain, entry, applied>>

NoPath ==
    /\ search = "search"
    /\ neighbors = {}
    /\ queue = <<>>
    /\ search' = "noPath"
    /\ UNCHANGED <<chain, queue, entry, neighbors, visited, route, applied>>

\* One function of the path is called; an error ends it without any data.
Apply ==
    /\ search = "apply"
    /\ \/ /\ applied' = Append(applied, <<route[Len(applied) + 1], route[Len(applied) + 2]>>)
          /\ search' = IF Len(applied) + 2 = Len(route) THEN "done" ELSE "apply"
       \/ /\ applied' = <<>>
          /\ search' = "failed"
    /\ UNCHANGED <<chain, queue, entry, neighbors, visited, route>>

ChainNext ==
    \/ \E m \in Migrations : RegisterMigration(m[1], m[2])
    \/ Migrate
    \/ Dequeue
    \/ \E v \in Versions : Look(v)
    \/ NoPath
    \/ Apply

-----------------------------------------------------------------------------

\* While others register, a list of versions has all that were there when it was
\* asked for, and every version in it is found, also where the name of one type
\* begins like another's; every type that was registered is listed.
ListsAreFound ==
    Ranged =>
        /\ \A v \in ListVersions(ranged, listing) : Found(listing, v)
        /\ \A v \in VersionNames :
            BuildSchemaKey(listing, v) \in before => <<v>> \in ListVersions(ranged, listing)
        /\ ListTypes(ranged) \subseteq Types

\* A new schema is compatible exactly if it extends the old one, so that what is
\* compatible in every step is compatible from end to end.
CompatibleExtends ==
    \A i, j \in DOMAIN registry :
        /\ Compatible(registry[i], registry[j]) <=>
            /\ DOMAIN registry[i] \subseteq DOMAIN registry[j]
            /\ registry[i] = Restrict(registry[j], DOMAIN registry[i])
        /\ \A k \in DOMAIN registry :
            Compatible(registry[i], registry[j]) /\ Compatible(registry[j], registry[k])
                => Compatible(registry[i], registry[k])

\* The versions that n migrations or fewer lead to.
Reached[n \in 0 .. Cardinality(Versions)] ==
    IF n = 0 THEN {Source}
    ELSE Reached[n - 1] \cup UNION {Successors(v) : v \in Reached[n - 1]}

\* The path that was found is of registered migrations, from the one version to the other,
RouteIsRegistered ==
    search \in {"apply", "done", "failed"} =>
        /\ Head(route) = Source /\ Last(route) = Target
        /\ \A i \in 1 .. Len(route) - 1 : <<route[i], route[i + 1]>> \in chain

\* the data that is returned has been through all of them in order,
DataIsMigrated ==
    search = "done" =>
        applied = [i \in 1 .. Len(route) - 1 |-> <<route[i], route[i + 1]>>]

\* and when no path was found there are versions that no migration leads out of, with the
\* one that the data has and without the one that it is to have.
NoWayOut ==
    search = "noPath" =>
        \E reached \in SUBSET Versions :
            /\ Source \in reached /\ Target \notin reached
            /\ \A v \in reached : Successors(v) \subseteq reached

\* Migrate goes a shortest way of registered migrations, in whatever order the maps
\* are walked, and finds none only if there is none; the data that it returns has
\* been through all of them in order.
ShortestChain ==
    /\ RouteIsRegistered /\ DataIsMigrated /\ NoWayOut
    /\ search \in {"apply", "done", "failed"} => Target \notin Reached[Len(route) - 2]
    /\ search = "noPath" => Target \notin Reached[Cardinality(Versions)]
=============================================================================
