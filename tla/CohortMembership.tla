-------------------------- MODULE CohortMembership --------------------------
(***************************************************************************)
(* How multiorch chooses the members of a shard's cohort: the bootstrap of *)
(* the shard (shard_init_action.go, with the claim several multiorch       *)
(* instances race for in the topology) and the reconciliation of the       *)
(* cohort with the poolers it sees (cohort_mismatch_analyzer.go,           *)
(* reconcile_cohort.go).                                                   *)
(*                                                                         *)
(* Every change of the rule is a compare-and-swap on the rule the decision *)
(* was taken from, so a decision and its write are one step here; what     *)
(* happens inside the write is the business of ShardConsensus.             *)
(***************************************************************************)
EXTENDS Proposals

CONSTANTS
    None,            \* no pooler, no coordinator
    Coordinators,    \* the multiorch instances
    BootstrapPolicy  \* the durability policy of the database

VARIABLES
    claim,       \* the shard's init claim in the topology: [claimer, cohort]
    leader,      \* the leader of the rule, None before the shard is bootstrapped
    cohort,      \* the cohort of the rule
    tombstones,  \* the poolers known to be shut down
    ineligible   \* the poolers that report themselves INELIGIBLE

vars == <<claim, leader, cohort, tombstones, ineligible>>

NoClaim == [claimer |-> None, cohort |-> {}]

Live == Poolers \ tombstones

-----------------------------------------------------------------------------
\* What a failover that reaches exactly the members R of the cohort can propose.
Rule == [num |-> [term |-> 1, subterm |-> 0], leader |-> leader,
         cohort |-> cohort, policy |-> BootstrapPolicy]

FailoverProposals(R) ==
    LET position == [decision |-> Rule, proposal |-> [Rule EXCEPT !.num = NoNumber]]
        authored == [term |-> 2, coord |-> None, at |-> 0, outgoing |-> Rule.num]
    IN  BuildSafeProposal(authored, {[id |-> p, pos |-> position, lsn |-> 1] : p \in R})

-----------------------------------------------------------------------------
\* A cohort is fit for bootstrap: large enough, with margin for one failure.
FitForBootstrap(S) ==
    /\ SatisfiedBy(BootstrapPolicy, S)
    /\ CohortSurvivesAnyMemberLoss(BootstrapPolicy, S)

\* ShardInitAction: the coordinator c, which sees the initialized poolers in
\* seen, creates the claim if there is none; then, or when it comes back after a
\* crash, it appoints a leader in what it sees of the cohort it has claimed.
ClaimShardInitialization(c, seen) ==
    /\ leader = None
    /\ FitForBootstrap(seen)
    /\ claim = NoClaim
    /\ claim' = [claimer |-> c, cohort |-> seen]
    /\ UNCHANGED <<leader, cohort, tombstones, ineligible>>

AppointInitialLeader(c, seen) ==
    LET committed == seen \cap claim.cohort
    IN  /\ leader = None
        /\ FitForBootstrap(seen)
        /\ claim.claimer = c
        /\ FitForBootstrap(committed)
        /\ leader' \in committed
        /\ cohort' = committed
        /\ UNCHANGED <<claim, tombstones, ineligible>>

\* UpdateConsensusRule on a serving leader.
UpdateCohort(new) ==
    /\ leader \in Live
    /\ SatisfiedBy(BootstrapPolicy, new)
    /\ HasPolicyTransition([policy |-> BootstrapPolicy, cohort |-> cohort],
                           [policy |-> BootstrapPolicy, cohort |-> new])
    /\ CanBuildSyncReplicationConfig([policy |-> BootstrapPolicy, cohort |-> new], leader)
    /\ cohort' = new
    /\ UNCHANGED <<claim, leader, tombstones, ineligible>>

AddMember(p) ==
    /\ p \in Live \ (cohort \cup ineligible)
    /\ UpdateCohort(cohort \cup {p})

RemoveIneligible(m) ==
    /\ m \in (cohort \cap ineligible) \cap Live
    /\ IsCohortMemberRemovalSafe(BootstrapPolicy, cohort, leader, m)
    /\ UpdateCohort(cohort \ {m})

\* A member that is not in the pooler cache but is not known to be shut down.
RemoveMissing(m) ==
    /\ cohort \cap tombstones = {}
    /\ m \in cohort
    /\ IsCohortMemberRemovalSafe(BootstrapPolicy, cohort, leader, m)
    /\ UpdateCohort(cohort \ {m})

\* A member known to be shut down goes without a safety check.
RemoveTombstone(m) ==
    /\ m \in cohort \cap tombstones
    /\ UpdateCohort(cohort \ {m})

\* The leader is lost and a failover reaches the members R.
Failover(R) ==
    /\ leader # None
    /\ R \subseteq (cohort \ {leader}) \cap Live
    /\ \E transition \in FailoverProposals(R) : leader' = transition.proposal.leader
    /\ UNCHANGED <<claim, cohort, tombstones, ineligible>>

Shutdown(p) ==
    /\ p \in Live
    /\ tombstones' = tombstones \cup {p}
    /\ UNCHANGED <<claim, leader, cohort, ineligible>>

Return(p) ==
    /\ p \in tombstones
    /\ tombstones' = tombstones \ {p}
    /\ UNCHANGED <<claim, leader, cohort, ineligible>>

ReportEligibility(p) ==
    /\ p \in Live
    /\ ineligible' = (ineligible \ {p}) \cup ({p} \ ineligible)
    /\ UNCHANGED <<claim, leader, cohort, tombstones>>

Init ==
    /\ claim = NoClaim
    /\ leader = None
    /\ cohort = {}
    /\ tombstones = {}
    /\ ineligible = {}

Next ==
    \/ \E c \in Coordinators : \E seen \in SUBSET Live :
         ClaimShardInitialization(c, seen) \/ AppointInitialLeader(c, seen)
    \/ \E p \in Poolers :
         \/ AddMember(p)
         \/ RemoveIneligible(p)
         \/ RemoveMissing(p)
         \/ RemoveTombstone(p)
         \/ Shutdown(p)
         \/ Return(p)
         \/ ReportEligibility(p)
    \/ \E R \in SUBSET Poolers : Failover(R)

Spec == Init /\ [][Next]_vars

-----------------------------------------------------------------------------
\* The bootstrap cohort, and the cohort left by every removal that was judged
\* safe, can lose its leader: a failover that reaches all other members finds a
\* leader to propose.  (IsCohortMemberRemovalSafe and CohortSurvivesAnyMemberLoss
\* are the checks the code makes for that.)
SafeChangesKeepFailover ==
    [][\/ leader = None /\ leader' # None
       \/ cohort' # cohort /\ cohort' \subseteq cohort /\ cohort \ cohort' \subseteq Live
       => (FailoverProposals(cohort \ {leader}) # {})']_vars

=============================================================================
