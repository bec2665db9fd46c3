------------------------------ MODULE Security ------------------------------
(***************************************************************************)
(* Requests on their way through the middleware of                         *)
(* go-core/security_http.go: AuthChain takes a token (security_jwt_*.go)   *)
(* or else an API key (security_apikey.go), and RequirePermission asks the *)
(* RBAC engine (security_rbac.go), while credentials are issued, revoked,  *)
(* expire and are cleaned up, and roles come and go.                       *)
(*                                                                         *)
(* Signatures and hashes are not modelled: a request carries a credential  *)
(* that was issued.  Prefixes of keys are distinct.                        *)
(*                                                                         *)
(* The Merkle audit chain (go-core/security_merkle.go).  Agents append     *)
(* entries, each with the hash of the one before it; the root of a tree    *)
(* over the entries' hashes follows.  A holder asks for the proof of one   *)
(* entry and keeps it; the store the entries live in may be damaged, one   *)
(* entry at a time, behind the chain's back.                               *)
(*                                                                         *)
(* A hash is the term it was computed from, so that two are equal exactly  *)
(* when their inputs are: <<e>> for an entry, <<l, r>> for a pair.         *)
(***************************************************************************)
EXTENDS Naturals, Sequences, FiniteSets

CONSTANTS
    Requests,
    Tokens, Keys,       \* the credentials, each issued once
    Outliving,          \* tokens that live longer than s.ttl after their revocation: those
                        \* of refreshTTL, and of ttl in whole seconds when revoked at once
    Users,
    UserOf,             \* of a credential: the subject, or "apikey:" and the id
    Roles, Parents,     \* the roles that each role inherits from
    Grants,             \* the roles whose own permissions match the one required
    MaxChanges          \* of the roles and their assignment

Credentials == Tokens \cup Keys

VARIABLES
    issued, expired, revoked,   \* sets of credentials; a token's revocation is its
                                \* place in the blacklist
    aged,                       \* the tokens in the blacklist for longer than s.ttl
    forgotten,                  \* the tokens whose place in it was ever cleaned up
    known,                      \* the keys in m.keys and m.byPrefix
    roles, assigned, changes,   \* e.roles, e.users
    pc, with, seen,             \* per request: where it is, its credentials, the key found
    user,                       \* UserIDFromContext
    tooLate, fine               \* its credentials that were spent when it arrived; those
                                \* that were good, and users permitted, from then on

engineVars == <<roles, assigned, changes>>
blacklistVars == <<aged, forgotten>>
keyVars == <<issued, expired, revoked, known, blacklistVars>>
requestVars == <<pc, with, seen, user>>
vars == <<keyVars, engineVars, requestVars, tooLate, fine>>

Nobody == "nobody"

TypeOK ==
    /\ expired \cup revoked \subseteq issued
    /\ aged \subseteq revoked \cap Tokens /\ forgotten \subseteq issued \cap Tokens
    /\ known \subseteq issued \cap Keys
    /\ roles \subseteq Roles /\ assigned \in [Users -> SUBSET Roles]
    /\ \A r \in Requests :
          /\ pc[r] \in {"new", "token", "key", "check", "touch", "authorise",
                        "served", "refused"}
          /\ with[r] \subseteq Credentials
          /\ pc[r] = "served" => user[r] \in {UserOf[c] : c \in with[r]}

Init ==
    /\ issued = {} /\ expired = {} /\ revoked = {} /\ known = {}
    /\ aged = {} /\ forgotten = {}
    /\ roles = Roles /\ assigned = [u \in Users |-> {}] /\ changes = 0
    /\ pc = [r \in Requests |-> "new"] /\ with = [r \in Requests |-> {}]
    /\ seen = [r \in Requests |-> {}] /\ user = [r \in Requests |-> Nobody]
    /\ tooLate = [r \in Requests |-> {}] /\ fine = [r \in Requests |-> {}]

-----------------------------------------------------------------------------
(* The RBAC engine *)

\* HasPermission: of a held role or of one it inherits from, those that exist.
HasPermission(held, present) ==
    LET reach[n \in 0 .. Cardinality(Roles)] ==
            IF n = 0 THEN held \cap present
            ELSE reach[n - 1] \cup (present \cap UNION {Parents[r] : r \in reach[n - 1]})
    IN  reach[Cardinality(Roles)] \cap Grants # {}

\* CheckPermission, under the read lock.
Permitted(u) == HasPermission(assigned[u], roles)

\* What a change leaves of the requests' claims to be served.
Keep(lost) == fine' = [r \in Requests |-> fine[r] \ lost]

EngineChanges(newRoles, newAssigned) ==
    /\ changes < MaxChanges /\ changes' = changes + 1
    /\ roles' = newRoles /\ assigned' = newAssigned
    /\ fine' = [r \in Requests |->
          fine[r] \ {UserOf[c] : c \in {c \in with[r] :
                        ~HasPermission(newAssigned[UserOf[c]], newRoles)}}]
    /\ UNCHANGED <<keyVars, requestVars, tooLate>>

\* AddRole and RemoveRole; a role that is removed stays assigned.
AddRole(role) == role \notin roles /\ EngineChanges(roles \cup {role}, assigned)
RemoveRole(role) == role \in roles /\ EngineChanges(roles \ {role}, assigned)

\* AssignRole refuses a role that does not exist.
AssignRole(u, role) ==
    /\ role \in roles /\ role \notin assigned[u]
    /\ EngineChanges(roles, [assigned EXCEPT ![u] = @ \cup {role}])

RevokeRole(u, role) ==
    /\ role \in assigned[u]
    /\ EngineChanges(roles, [assigned EXCEPT ![u] = @ \ {role}])

-----------------------------------------------------------------------------
(* The credentials *)

\* IssueToken and IssueRefreshToken: which of the two made a token, VerifyToken never asks.
IssueToken(t) ==
    /\ t \in Tokens \ issued
    /\ issued' = issued \cup {t}
    /\ UNCHANGED <<expired, revoked, known, blacklistVars, engineVars, requestVars, tooLate, fine>>

\* A token that verifies is exchanged for a new one of the same subject.
RefreshToken(old, new) ==
    /\ old \in (issued \cap Tokens) \ (expired \cup revoked)
    /\ new \notin Outliving /\ UserOf[new] = UserOf[old]
    /\ IssueToken(new)

GenerateKey(k) ==
    /\ k \in Keys \ issued
    /\ issued' = issued \cup {k} /\ known' = known \cup {k}
    /\ UNCHANGED <<expired, revoked, blacklistVars, engineVars, requestVars, tooLate, fine>>

\* The time of a credential passes.
Expire(c) ==
    /\ c \in issued \ expired
    /\ expired' = expired \cup {c}
    /\ Keep({c})
    /\ UNCHANGED <<issued, revoked, known, blacklistVars, engineVars, requestVars, tooLate>>

\* RevokeToken enters the time of the revocation, over an earlier one.
RevokeToken(t) ==
    /\ t \in issued \cap Tokens /\ t \notin revoked \ aged
    /\ revoked' = revoked \cup {t} /\ aged' = aged \ {t}
    /\ Keep({t})
    /\ UNCHANGED <<issued, expired, known, forgotten, engineVars, requestVars, tooLate>>

\* RevokeKey marks a key that it finds.
RevokeKey(k) ==
    /\ k \in known \ revoked
    /\ revoked' = revoked \cup {k}
    /\ Keep({k})
    /\ UNCHANGED <<issued, expired, known, blacklistVars, engineVars, requestVars, tooLate>>

\* More than s.ttl has passed since a revocation, and the token's own time with it unless
\* it is one of the Outliving.
Age(t) ==
    /\ t \in (revoked \cap Tokens) \ aged
    /\ t \in Outliving \cup expired
    /\ aged' = aged \cup {t}
    /\ UNCHANGED <<issued, expired, revoked, known, forgotten, engineVars, requestVars, tooLate, fine>>

\* The requests under way for which it is no longer too late once the tokens are out of
\* the blacklist: those with an Outliving one, which has not expired.
Lifted(tokens) == [r \in Requests |-> tooLate[r] \ ((tokens \cap Outliving) \ expired)]

\* Mutant: the age of the entries is not looked at.
CleanupBlacklistAll ==
    /\ revoked \cap Tokens # {}
    /\ revoked' = revoked \ Tokens /\ aged' = {}
    /\ forgotten' = forgotten \cup (revoked \cap Tokens)
    /\ tooLate' = Lifted(aged)
    /\ UNCHANGED <<issued, expired, known, engineVars, requestVars, fine>>

\* CleanupBlacklist deletes the entries that are older than s.ttl, whatever token they are of.
CleanupBlacklist ==
    /\ aged # {}
    /\ revoked' = revoked \ aged /\ aged' = {}
    /\ forgotten' = forgotten \cup aged
    /\ tooLate' = Lifted(aged)
    /\ UNCHANGED <<issued, expired, known, engineVars, requestVars, fine>>

\* Mutant: the cleanup forgets every key as soon as one has expired.
CleanupAll ==
    /\ known \cap expired # {}
    /\ known' = {}
    /\ UNCHANGED <<issued, expired, revoked, blacklistVars, engineVars, requestVars, tooLate, fine>>

\* CleanupExpired
CleanupExpired ==
    /\ known \cap expired # {}
    /\ known' = known \ expired
    /\ UNCHANGED <<issued, expired, revoked, blacklistVars, engineVars, requestVars, tooLate, fine>>

-----------------------------------------------------------------------------
(* A request *)

Goto(r, to) == pc' = [pc EXCEPT ![r] = to]

\* A request arrives with a token, a key or both.
Arrive(r, creds) ==
    /\ pc[r] = "new" /\ creds # {}
    /\ creds \subseteq issued
    /\ Cardinality(creds \cap Tokens) =< 1 /\ Cardinality(creds \cap Keys) =< 1
    /\ with' = [with EXCEPT ![r] = creds]
    /\ tooLate' = [tooLate EXCEPT ![r] = creds \cap (revoked \cup expired \cup (forgotten \ Outliving))]
    /\ fine' = [fine EXCEPT ![r] =
          (creds \ (revoked \cup expired))
          \cup {UserOf[c] : c \in {c \in creds : Permitted(UserOf[c])}}]
    /\ Goto(r, "token")
    /\ UNCHANGED <<keyVars, engineVars, seen, user>>

\* VerifyToken: its time, then the blacklist under the read lock.
VerifyToken(r) ==
    /\ pc[r] = "token"
    /\ LET good == (with[r] \cap Tokens) \ (expired \cup revoked)
       IN  \/ /\ good # {}
              /\ user' = [user EXCEPT ![r] = UserOf[CHOOSE t \in good : TRUE]]
              /\ Goto(r, "authorise")
           \/ good = {} /\ Goto(r, "key") /\ UNCHANGED user
    /\ UNCHANGED <<keyVars, engineVars, with, seen, tooLate, fine>>

\* ValidateKey finds the key under the read lock,
FindKey(r) ==
    /\ pc[r] = "key"
    /\ LET found == with[r] \cap known
       IN  /\ seen' = [seen EXCEPT ![r] = found]
           /\ Goto(r, IF found = {} THEN "refused" ELSE "check")
    /\ UNCHANGED <<keyVars, engineVars, with, user, tooLate, fine>>

\* Mutant: what was revoked is not looked at.
CheckExpiryOnly(r) ==
    /\ pc[r] = "check"
    /\ Goto(r, IF seen[r] \cap expired = {} THEN "touch" ELSE "refused")
    /\ UNCHANGED <<keyVars, engineVars, with, seen, user, tooLate, fine>>

\* reads Revoked and ExpiresAt of what it found without it,
CheckKey(r) ==
    /\ pc[r] = "check"
    /\ Goto(r, IF seen[r] \cap (revoked \cup expired) = {} THEN "touch" ELSE "refused")
    /\ UNCHANGED <<keyVars, engineVars, with, seen, user, tooLate, fine>>

\* and notes the time of use, when the key is still there, before it answers.
TouchKey(r) ==
    /\ pc[r] = "touch"
    /\ user' = [user EXCEPT ![r] = UserOf[CHOOSE k \in seen[r] : TRUE]]
    /\ Goto(r, "authorise")
    /\ UNCHANGED <<keyVars, engineVars, with, seen, tooLate, fine>>

\* RequirePermission
Authorise(r) ==
    /\ pc[r] = "authorise"
    /\ Goto(r, IF Permitted(user[r]) THEN "served" ELSE "refused")
    /\ UNCHANGED <<keyVars, engineVars, with, seen, user, tooLate, fine>>

Next ==
    \/ \E t \in Tokens :
          \/ IssueToken(t) \/ RevokeToken(t) \/ Age(t)
          \/ \E old \in Tokens : RefreshToken(old, t)
    \/ \E k \in Keys : GenerateKey(k) \/ RevokeKey(k)
    \/ \E c \in Credentials : Expire(c)
    \/ CleanupBlacklist \/ CleanupExpired
    \/ \E role \in Roles : AddRole(role) \/ RemoveRole(role)
    \/ \E u \in Users, role \in Roles : AssignRole(u, role) \/ RevokeRole(u, role)
    \/ \E r \in Requests :
          \/ \E creds \in SUBSET Credentials : Arrive(r, creds)
          \/ VerifyToken(r)
          \/ FindKey(r) \/ CheckKey(r) \/ TouchKey(r)
          \/ Authorise(r)

Spec == Init /\ [][Next]_vars

-----------------------------------------------------------------------------

\* Revocation is immediate ("支持即时撤销", security_apikey.go:11) and lasts: a request gets
\* past the authentication only as a user one of whose credentials, when it arrived, had
\* not expired and had never been revoked.  The exception is a token that outlives its
\* place in the blacklist (CleanupBlacklist): it is accepted again once that is cleaned up.
RevocationIsImmediate ==
    \A r \in Requests :
        pc[r] \in {"authorise", "served"} =>
            \E c \in with[r] \ tooLate[r] : UserOf[c] = user[r]

\* A request that arrives with a credential that stays good, for users that stay
\* permitted, is not refused, whatever is revoked and cleaned up meanwhile.
GoodRequestsServed ==
    \A r \in Requests :
        pc[r] = "refused" =>
            \/ with[r] \cap fine[r] = {}
            \/ \E c \in with[r] : UserOf[c] \notin fine[r]

-----------------------------------------------------------------------------
(* The audit chain *)

CONSTANTS
    Contents,    \* what an entry says, all the fields that are hashed
    NoHash,      \* the empty PrevHash of the first entry
    MaxEntries,
    Holders      \* of proofs

VARIABLES
    entries,     \* m.entries: what, prev, hash
    root,        \* m.rootHash
    proofs,      \* what each holder was given: a proof and the root of then
    damaged      \* positions of the entries that are not as they were appended

auditVars == <<entries, root, proofs, damaged>>

NoProof == [index |-> 0, leaf |-> NoHash, path |-> <<>>, root |-> NoHash, of |-> 0]

\* computeEntryHash
EntryHash(what, prev) == <<[what |-> what, prev |-> prev]>>

\* hashPair
HashPair(left, right) == <<left, right>>

Hashes(es) == [i \in DOMAIN es |-> es[i].hash]

\* One round of buildMerkleTree: pairs are combined, an odd last node is promoted.
Combine(level) ==
    [i \in 1 .. (Len(level) + 1) \div 2 |->
        IF 2 * i =< Len(level) THEN HashPair(level[2 * i - 1], level[2 * i])
        ELSE level[2 * i - 1]]

\* The levels above n leaves: one, and one more for each halving of n.
Height[n \in Nat] == IF n =< 1 THEN 0 ELSE 1 + Height[(n + 1) \div 2]

Levels(hashes) ==
    LET level[k \in 0 .. Height[Len(hashes)]] ==
            IF k = 0 THEN hashes ELSE Combine(level[k - 1])
    IN  level

RootOf(hashes) ==
    IF hashes = <<>> THEN NoHash ELSE Levels(hashes)[Height[Len(hashes)]][1]

\* The index of entry i, from 1, at level k.
At(i, k) == ((i - 1) \div (2 ^ k)) + 1


\* The siblings on the way up, and whether each stands on the right; a node that is
\* promoted has none.
Path(hashes, i) ==
    LET levels == Levels(hashes)
        step(k) ==
            LET j == At(i, k)
                level == levels[k]
            IN  IF j % 2 = 0 THEN <<[hash |-> level[j - 1], right |-> FALSE]>>
                ELSE IF j < Len(level) THEN <<[hash |-> level[j + 1], right |-> TRUE]>>
                ELSE <<>>
        path[k \in 0 .. Height[Len(hashes)]] ==
            IF k = 0 THEN <<>> ELSE path[k - 1] \o step(k - 1)
    IN  path[Height[Len(hashes)]]

\* VerifyProof
Verifies(leaf, path, against) ==
    LET up[k \in 0 .. Len(path)] ==
            IF k = 0 THEN leaf
            ELSE IF path[k].right THEN HashPair(up[k - 1], path[k].hash)
            ELSE HashPair(path[k].hash, up[k - 1])
    IN  up[Len(path)] = against

-----------------------------------------------------------------------------

AuditTypeOK ==
    /\ Len(entries) =< MaxEntries
    /\ \A i \in DOMAIN entries : entries[i].what \in Contents
    /\ damaged \subseteq DOMAIN entries
    /\ \A h \in Holders : proofs[h].index =< proofs[h].of /\ proofs[h].of =< Len(entries)

AuditInit ==
    /\ entries = <<>> /\ root = NoHash
    /\ proofs = [h \in Holders |-> NoProof]
    /\ damaged = {}

\* Append, under the write lock (the model lets nobody append to a damaged chain).
AppendEntry(what) ==
    /\ Len(entries) < MaxEntries /\ damaged = {}
    /\ LET prev == IF entries = <<>> THEN NoHash ELSE entries[Len(entries)].hash
           entry == [what |-> what, prev |-> prev, hash |-> EntryHash(what, prev)]
       IN  /\ entries' = Append(entries, entry)
           /\ root' = RootOf(Hashes(Append(entries, entry)))
    /\ UNCHANGED <<proofs, damaged>>

\* GenerateProof fails outside the range of the entries.
GenerateProof(h, i) ==
    /\ i \in DOMAIN entries
    /\ proofs[h].of = 0
    /\ LET hashes == Hashes(entries)
       IN  proofs' = [proofs EXCEPT ![h] =
              [index |-> i, leaf |-> hashes[i], path |-> Path(hashes, i),
               root |-> RootOf(hashes), of |-> Len(entries)]]
    /\ UNCHANGED <<entries, root, damaged>>

\* The content of an entry is overwritten, with or without a hash that fits it.
Damage(i, what, refit) ==
    /\ i \in DOMAIN entries /\ damaged = {}
    /\ what # entries[i].what
    /\ entries' = [entries EXCEPT
          ![i].what = what,
          ![i].hash = IF refit THEN EntryHash(what, entries[i].prev) ELSE @]
    /\ damaged' = {i}
    /\ UNCHANGED <<root, proofs>>

AuditNext ==
    \/ \E what \in Contents : AppendEntry(what)
    \/ \E h \in Holders, i \in 1 .. MaxEntries : GenerateProof(h, i)
    \/ \E i \in 1 .. MaxEntries, what \in Contents, refit \in BOOLEAN : Damage(i, what, refit)

AuditSpec == AuditInit /\ [][AuditNext]_auditVars

-----------------------------------------------------------------------------

\* DetectBreak: the positions whose PrevHash is not the hash of the entry before.
DetectBreak ==
    {i \in DOMAIN entries :
        entries[i].prev # (IF i = 1 THEN NoHash ELSE entries[i - 1].hash)}

\* DetectTampering: those, and the entries that no longer have their hash.
DetectTampering ==
    DetectBreak \cup
    {i \in DOMAIN entries : entries[i].hash # EntryHash(entries[i].what, entries[i].prev)}

\* A proof verifies against the root it was made for, of a tree of any shape, and
\* while nothing was appended since, that is the chain's root; it proves no other
\* entry, and it does not verify against the root of a longer chain.
ProofsVerify ==
    \A h \in Holders :
        LET p == proofs[h]
        IN  p.of > 0 /\ damaged = {} =>
              /\ Verifies(p.leaf, p.path, root) <=> p.of = Len(entries)
              /\ \A i \in 1 .. p.of :
                    Verifies(entries[i].hash, p.path, p.root) <=> i = p.index

\* The chain accuses nobody wrongly, an entry that is overwritten is found by its hash
\* or by the entry that follows it, and no other is accused.
TamperingShows ==
    /\ damaged = {} => DetectTampering = {} /\ root = RootOf(Hashes(entries))
    /\ \A i \in damaged :
          /\ DetectTampering \subseteq {i, i + 1}
          /\ i < Len(entries) => DetectTampering # {}

\* The last entry, when its hash has been made to fit, is found by the root.
DamageIsFound ==
    /\ TamperingShows
    /\ damaged # {} => DetectTampering # {} \/ root # RootOf(Hashes(entries))
=============================================================================
