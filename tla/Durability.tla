----------------------------- MODULE Durability -----------------------------
(***************************************************************************)
(* Durability policies, the recruitment a leadership change needs, and the *)
(* policy a rule is written under while it replaces another one:           *)
(* go/common/consensus/durability.go, policy_at_least_n.go,                *)
(* policy_multi_cell.go and cohort_safety.go.                              *)
(*                                                                         *)
(* A policy is [kind, n]; a policy with its cohort is [policy, cohort].    *)
(* The ID lists of the code are normalised (deduplicated) before they are  *)
(* counted, so a cohort is a set of poolers.                               *)
(***************************************************************************)
EXTENDS Integers, FiniteSets

CONSTANTS
    Poolers,   \* the poolers of the shard
    CellOf     \* [Poolers -> cells]: the cell of each pooler

ASSUME PoolersAssumption == IsFiniteSet(Poolers)

AtLeastN(n) == [kind |-> "AT_LEAST_N", n |-> n]
MultiCell == [kind |-> "MULTI_CELL_AT_LEAST_N", n |-> 2]

\* NewPolicyFromProto's range: what a stored policy can be.
Policies == [kind : {"AT_LEAST_N"}, n : Nat \ {0}] \cup {MultiCell}

CellsOf(S) == {CellOf[p] : p \in S}

SatisfiedBy(policy, S) ==
    IF policy.kind = "AT_LEAST_N"
    THEN Cardinality(S) >= policy.n
    ELSE Cardinality(CellsOf(S)) >= 2

\* BuildSyncReplicationConfig: the standbys whose acknowledgement Postgres
\* counts, and how many of them it waits for.
CanBuildSyncReplicationConfig(pc, primary) ==
    /\ primary \in pc.cohort
    /\ IF pc.policy.kind = "AT_LEAST_N"
       THEN pc.policy.n - 1 <= Cardinality(pc.cohort) - 1
       ELSE \E s \in pc.cohort : CellOf[s] # CellOf[primary]

BuildSyncReplicationConfig(pc, primary) ==
    IF pc.policy.kind = "AT_LEAST_N"
    THEN IF pc.policy.n = 1
         THEN [numSync |-> 0, standbys |-> {}]
         ELSE [numSync |-> pc.policy.n - 1, standbys |-> pc.cohort \ {primary}]
    ELSE [numSync  |-> 1,
          standbys |-> {s \in pc.cohort : CellOf[s] # CellOf[primary]}]

----------------------------------------------------------------------------
\* A strict majority of the cohort: two recruitments of a term overlap.
CheckRecruitedMajority(cohort, recruited) ==
    /\ recruited \subseteq cohort
    /\ Cardinality(recruited) >= Cardinality(cohort) \div 2 + 1

\* The poolers left out cannot make a write durable on their own.
CheckUnrecruitedCannotCommit(policy, cohort, recruited) ==
    /\ recruited \subseteq cohort
    /\ ~SatisfiedBy(policy, cohort \ recruited)

CheckSufficientRecruitment(policy, cohort, recruited) ==
    /\ CheckRecruitedMajority(cohort, recruited)
    /\ CheckUnrecruitedCannotCommit(policy, cohort, recruited)

----------------------------------------------------------------------------
\* Is there a policy that satisfies both the outgoing and the incoming one?
HasPolicyTransition(out, in) ==
    /\ out.policy.kind = in.policy.kind
    /\ \/ out.cohort = in.cohort
       \/ /\ out.policy.n = in.policy.n
          /\ in.cohort \subseteq out.cohort \/ out.cohort \subseteq in.cohort

\* That policy: the smaller cohort, or the larger count, of the two.
BothPolicy(out, in) ==
    IF out.policy.n = in.policy.n
    THEN IF in.cohort \subseteq out.cohort THEN in ELSE out
    ELSE IF in.policy.n > out.policy.n THEN in ELSE out

----------------------------------------------------------------------------
\* Mutant: the survivors need not be a majority.
CohortSurvivesMemberLossNoMajority(policy, cohort, member) ==
    CheckUnrecruitedCannotCommit(policy, cohort, cohort \ {member})

\* Could the cohort still recruit if one of its members were lost?
CohortSurvivesMemberLoss(policy, cohort, member) ==
    CheckSufficientRecruitment(policy, cohort, cohort \ {member})

CohortSurvivesAnyMemberLoss(policy, cohort) ==
    /\ cohort # {}
    /\ \A m \in cohort : CohortSurvivesMemberLoss(policy, cohort, m)

\* Removing member leaves a cohort that survives the loss of the leader.
IsCohortMemberRemovalSafe(policy, cohort, leader, member) ==
    /\ member \in cohort
    /\ CohortSurvivesMemberLoss(policy, cohort \ {member}, leader)

=============================================================================
