----------------------------- MODULE Federation -----------------------------
(***************************************************************************)
(* The distributed degradation and health (go-core/degradation.go,         *)
(* patterns_degradation_federated.go, patterns_health_dist.go): instances  *)
(* that propose to degrade themselves and vote on each other's proposals,  *)
(* and a health check over components that change while it asks them.      *)
(*                                                                         *)
(* A proposal is known to the manager that made it: who votes calls that   *)
(* manager.  Nothing tells voters apart in the code; here each instance    *)
(* votes once on the proposals of others.  The 30 s deadline is recorded   *)
(* and never looked at.                                                    *)
(***************************************************************************)
EXTENDS Integers, FiniteSets

CONSTANTS
    Instances,
    Proposals,
    Proposer,    \* Proposer[p]: the instance that proposes p
    ModeOf,      \* ModeOf[p]: the mode it proposes
    Components   \* parts whose health is asked for

Modes == {"none", "non_critical", "safe", "emergency"}

\* Instances is finite, a proposer is one of them and a mode that is proposed degrades.

VARIABLES
    mode,      \* mode[i]: the mode of i's DegradationManager
    proposal,  \* proposal[p]: how far it has come
    votes,     \* votes[p]: the two counts that its manager keeps
    said,      \* said[p][i]: the vote of i
    registered, \* the components that are registered
    status,    \* status[c]: whether component c is up
    asking,    \* the components that CheckHealth has not asked, or "no"
    answers,   \* what it has heard
    health,    \* the last response
    flipped    \* the components that went down or came back since its check began

voteVars == <<mode, proposal, votes, said>>
healthVars == <<registered, status, asking, answers, health, flipped>>
federationVars == <<voteVars, healthVars>>

FederationInit ==
    /\ mode = [i \in Instances |-> "none"]
    /\ proposal = [p \in Proposals |-> "none"]
    /\ votes = [p \in Proposals |-> [yes |-> 0, no |-> 0]]
    /\ said = [p \in Proposals |-> [i \in Instances |-> "nothing"]]
    /\ registered = {}
    /\ status = [c \in Components |-> TRUE]
    /\ asking = {} /\ answers = {} /\ health = [up |-> TRUE, of |-> {}]
    /\ flipped = {}

\* ProposeDegradation broadcasts first: a handler that votes at once votes on nothing.
Broadcast(p) ==
    /\ proposal[p] = "none"
    /\ proposal' = [proposal EXCEPT ![p] = "published"]
    /\ UNCHANGED <<mode, votes, said, healthVars>>

\* Then the vote is entered, with the proposer's own, which is not judged.
EnterVote(p) ==
    /\ proposal[p] = "published"
    /\ proposal' = [proposal EXCEPT ![p] = "open"]
    /\ votes' = [votes EXCEPT ![p].yes = 1]
    /\ UNCHANGED <<mode, said, healthVars>>

Total == Cardinality(Instances)

\* A mutant: half of the instances are enough.
HalfIsEnough == (Total + 1) \div 2

Required == Total \div 2 + 1

\* A mutant: as many against as would be needed for it.
RejectedLate(against) == against >= Required + 1

RejectedBy(against) == against > Total - Required

\* VoteOnDegradation, under the manager's mutex: the count, and the decision, which
\* degrades the proposer alone.
VoteOnDegradation(i, p, agree) ==
    /\ i # Proposer[p] /\ proposal[p] # "none" /\ said[p][i] = "nothing"
    /\ IF proposal[p] = "open"
       THEN LET counted == IF agree THEN [votes[p] EXCEPT !.yes = @ + 1]
                           ELSE [votes[p] EXCEPT !.no = @ + 1]
            IN  /\ votes' = [votes EXCEPT ![p] = counted]
                /\ said' = [said EXCEPT ![p][i] = IF agree THEN "yes" ELSE "no"]
                /\ CASE counted.yes >= Required ->
                            /\ mode' = [mode EXCEPT ![Proposer[p]] = ModeOf[p]]
                            /\ proposal' = [proposal EXCEPT ![p] = "confirmed"]
                     [] counted.yes < Required /\ RejectedBy(counted.no) ->
                            /\ proposal' = [proposal EXCEPT ![p] = "rejected"]
                            /\ UNCHANGED mode
                     [] OTHER -> UNCHANGED <<mode, proposal>>
       ELSE /\ said' = [said EXCEPT ![p][i] = "ignored"]
            /\ UNCHANGED <<mode, proposal, votes>>
    /\ UNCHANGED healthVars

Recover(i) ==
    /\ mode[i] # "none"
    /\ mode' = [mode EXCEPT ![i] = "none"]
    /\ UNCHANGED <<proposal, votes, said, healthVars>>

Criticalities == {"critical", "high", "normal", "low", "unknown"}

\* ShouldProcess; what is unknown counts as normal.
ShouldProcess(m, criticality) ==
    CASE criticality = "critical" -> TRUE
      [] criticality = "high" -> m # "emergency"
      [] criticality = "low" -> m = "none"
      [] OTHER -> m \notin {"safe", "emergency"}

-----------------------------------------------------------------------------
(* DistDefaultDistHealthChecker *)

\* The lock that RegisterComponent needs is read-locked while CheckHealth runs.
RegisterComponent(c) ==
    /\ asking = {} /\ c \notin registered
    /\ registered' = registered \cup {c}
    /\ UNCHANGED <<voteVars, status, asking, answers, health, flipped>>

\* A component goes down or comes back, at any time.
Flip(c) ==
    /\ status' = [status EXCEPT ![c] = ~@]
    /\ flipped' = flipped \cup {c}
    /\ UNCHANGED <<voteVars, registered, asking, answers, health>>

\* CheckHealth of no component at all answers UP.
BeginCheck ==
    /\ asking = {}
    /\ asking' = registered
    /\ answers' = {}
    /\ health' = IF registered = {} THEN [up |-> TRUE, of |-> {}] ELSE health
    /\ flipped' = {}
    /\ UNCHANGED <<voteVars, registered, status>>

\* A mutant: one that is up is enough.
OneUp(heard) == \E answer \in heard : answer[2]

AllUp(heard) == \A answer \in heard : answer[2]

Ask(c) ==
    /\ c \in asking
    /\ asking' = asking \ {c}
    /\ answers' = answers \cup {<<c, status[c]>>}
    /\ health' = IF asking' # {} THEN health
                 ELSE [up |-> AllUp(answers'), of |-> answers']
    /\ UNCHANGED <<voteVars, registered, status, flipped>>

VoteNext ==
    \/ \E p \in Proposals :
        \/ Broadcast(p) \/ EnterVote(p)
        \/ \E i \in Instances, agree \in BOOLEAN : VoteOnDegradation(i, p, agree)
    \/ \E i \in Instances : Recover(i)

HealthNext ==
    \/ \E c \in Components : RegisterComponent(c) \/ Flip(c) \/ Ask(c)
    \/ BeginCheck

FederationTypeOK ==
    /\ mode \in [Instances -> Modes]
    /\ \A p \in Proposals :
        proposal[p] \in {"none", "published", "open", "confirmed", "rejected"}
    /\ asking \subseteq registered /\ registered \subseteq Components

Yes(p) == {i \in Instances : said[p][i] = "yes"} \cup {Proposer[p]}
Counted(p) == {i \in Instances : said[p][i] \in {"yes", "no"}} \cup {Proposer[p]}

\* "需要超过半数实例同意才执行" (patterns_degradation_federated.go): an instance is degraded
\* only to a mode that it has proposed and more than half of the instances wanted.
MajorityDegrades ==
    \A i \in Instances :
        mode[i] # "none" =>
            \E p \in Proposals :
                /\ Proposer[p] = i /\ ModeOf[p] = mode[i]
                /\ 2 * Cardinality(Yes(p)) > Total

\* A proposal is rejected when those who have not voted against it are no majority,
\* and once all instances are counted, of which there are two at least, it is decided.
VotesDecide ==
    \A p \in Proposals :
        /\ proposal[p] = "rejected" =>
            2 * Cardinality(Instances \ {i \in Instances : said[p][i] = "no"}) <= Total
        /\ proposal[p] = "open" /\ Total > 1 => Counted(p) # Instances

\* Until a component changes after a check has begun, the response of the check is
\* UP exactly when the components it names are.
HealthIsCurrent ==
    asking = {} /\ flipped = {} => health.up = \A answer \in health.of : status[answer[1]]

\* A worse mode and a lesser criticality never let more through.
DegradingNarrows ==
    LET worse == [none |-> 0, non_critical |-> 1, safe |-> 2, emergency |-> 3]
    IN  \A i \in Instances, m \in Modes, c \in Criticalities :
            worse[m] <= worse[mode[i]] /\ ShouldProcess(mode[i], c) => ShouldProcess(m, c)
=============================================================================
